------------------------- MODULE EnvironmentDoctor -------------------------
(***************************************************************************)
(* The environment doctor (environment_doctor.rs) with the profile         *)
(* selection and the adapters it runs (environment.rs), down to the child  *)
(* process behind one command: with a time limit the runner polls the      *)
(* child and reads its output only after it has ended, without one it      *)
(* reads all along.  A child can be slow, fail, write more than a pipe     *)
(* holds, or end just when its time is up.                                 *)
(***************************************************************************)
EXTENDS Integers, Sequences

CONSTANTS
    Profiles,       \* the manifest's profiles, in the order of their names
    TimeLimit,      \* timeout_seconds of a native or script profile, 0 for none
    PipeRoom,       \* what a pipe holds
    MaxOutput,      \* a bound: what a command writes
    MaxElapsed      \* a bound on the time one command takes

ASSUME DoctorAssumption ==
    /\ TimeLimit \in Nat /\ PipeRoom \in Nat \ {0}
    /\ MaxOutput \in Nat /\ MaxElapsed \in Nat

VARIABLES
    host,       \* what detection finds, what is approved, and what is asked for
    doctor,     \* where the doctor is, the profile it selected, and its issues
    child,      \* the process of the command that runs
    history     \* the commands that ended, with the truth about each

doctorVars == <<host, doctor, child, history>>

NoChild == [state |-> "none"]
Hosts == [nix: BOOLEAN, engine: BOOLEAN, powershell: BOOLEAN, flake: BOOLEAN, devcontainer: BOOLEAN,
          trust: {"none", "approved", "changed"}, allowPrepare: BOOLEAN, runHealthcheck: BOOLEAN]

(* Availability of the adapters in run_environment_doctor: manual and      *)
(* native always, script once its commands are approved.                   *)
AdapterAvailable(kind) ==
    CASE kind = "nix" -> host.nix
      [] kind = "devcontainer" -> host.engine
      [] kind = "script" -> host.trust = "approved"
      [] OTHER -> TRUE

(* select_environment_profile: by kind, and by name within a kind. *)
Kinds == <<"nix", "devcontainer", "native", "script", "manual">>
Rank(kind) == CHOOSE i \in DOMAIN Kinds : Kinds[i] = kind
Selectable == {i \in DOMAIN Profiles : Profiles[i].fits /\ AdapterAvailable(Profiles[i].kind)}
SelectProfile ==
    IF Selectable = {} THEN 0
    ELSE CHOOSE i \in Selectable :
            \A j \in Selectable \ {i} :
                \/ Rank(Profiles[i].kind) < Rank(Profiles[j].kind)
                \/ Profiles[i].kind = Profiles[j].kind /\ i < j

(* collect_profile_issues and collect_command_trust_issues. *)
ProfileIssues ==
    LET Some(kinds) == {i \in DOMAIN Profiles : Profiles[i].fits /\ Profiles[i].kind \in kinds}
    IN  { issue \in {"incompatible-platform-target", "missing-nix", "missing-container-engine",
                     "missing-powershell", "changed-command-hash"} :
            CASE issue = "incompatible-platform-target" ->
                    Profiles # <<>> /\ \A i \in DOMAIN Profiles : ~Profiles[i].fits
              [] issue = "missing-nix" -> Some({"nix"}) # {} /\ ~host.nix
              [] issue = "missing-container-engine" -> Some({"devcontainer"}) # {} /\ ~host.engine
              [] issue = "missing-powershell" ->
                    ~host.powershell /\ \E i \in Some({"native", "script"}) : Profiles[i].powershell
              [] issue = "changed-command-hash" -> host.trust = "changed" }

(* The first command of collect_healthcheck_issue, if there is one: without *)
(* a flake, a devcontainer.json or the approvals the adapter only reports   *)
(* that the shell is not ready, and the doctor does not make that an issue. *)
FirstCommand(kind) ==
    CASE kind = "nix" /\ host.flake -> "healthcheck"
      [] kind = "devcontainer" /\ host.devcontainer /\ host.allowPrepare -> "prepare"
      [] kind \in {"native", "script"} /\ host.trust = "approved" -> "bootstrap"
      [] OTHER -> "none"

KindSelected == Profiles[doctor.selected].kind
Limit == IF KindSelected \in {"native", "script"} THEN TimeLimit ELSE 0
-----------------------------------------------------------------------------
DoctorInit ==
    /\ host \in Hosts
    /\ doctor = [pc |-> "start", selected |-> 0, command |-> "none", issues |-> {}]
    /\ child = NoChild
    /\ history = <<>>

(* Detection, selection, and the issues that need no command. *)
BeginDoctor ==
    LET selected == SelectProfile
        first == IF host.runHealthcheck /\ selected # 0
                 THEN FirstCommand(Profiles[selected].kind) ELSE "none"
    IN  /\ doctor.pc = "start"
        /\ doctor' = [pc |-> IF first = "none" THEN "done" ELSE "spawn", selected |-> selected,
                      command |-> first, issues |-> ProfileIssues]
        /\ UNCHANGED <<host, child, history>>

(* SystemEnvironmentCommandRunner::run starts the process. *)
Spawn ==
    /\ doctor.pc = "spawn"
    /\ \E left \in 0..MaxOutput :
          child' = [state |-> "running", left |-> left, pipe |-> 0, elapsed |-> 0,
                    code |-> 0, killed |-> FALSE]
    /\ doctor' = [doctor EXCEPT !.pc = IF Limit = 0 THEN "collect" ELSE "poll"]
    /\ UNCHANGED <<host, history>>

(* The program cannot be started: the doctor fails as a whole. *)
SpawnFails ==
    /\ doctor.pc = "spawn"
    /\ doctor' = [doctor EXCEPT !.pc = "failed"]
    /\ UNCHANGED <<host, child, history>>

(* The child: it blocks in a write while the pipe is full. *)
ChildWrites ==
    /\ child.state = "running" /\ child.left > 0 /\ child.pipe < PipeRoom
    /\ child' = [child EXCEPT !.left = @ - 1, !.pipe = @ + 1]
    /\ UNCHANGED <<host, doctor, history>>

ChildExits ==
    /\ child.state = "running" /\ child.left = 0
    /\ \E code \in {0, 1} : child' = [child EXCEPT !.state = "exited", !.code = code]
    /\ UNCHANGED <<host, doctor, history>>

TimePasses ==
    /\ child.state = "running" /\ child.elapsed < MaxElapsed
    /\ child' = [child EXCEPT !.elapsed = @ + 1]
    /\ UNCHANGED <<host, doctor, history>>

(* One round of the polling loop: try_wait, then the clock, then kill,     *)
(* which does nothing to a child that has ended in between.                *)
TryWaitChild ==
    /\ doctor.pc = "poll"
    /\ doctor' = [doctor EXCEPT !.pc = IF child.state = "exited" THEN "collect" ELSE "clock"]
    /\ UNCHANGED <<host, child, history>>

CheckClock ==
    /\ doctor.pc = "clock"
    /\ doctor' = [doctor EXCEPT !.pc = IF child.elapsed >= TimeLimit THEN "kill" ELSE "poll"]
    /\ UNCHANGED <<host, child, history>>

Kill ==
    /\ doctor.pc = "kill"
    /\ child' = [child EXCEPT !.killed = TRUE,
                    !.code = IF child.state = "running" THEN 9 ELSE @, !.state = "exited"]
    /\ doctor' = [doctor EXCEPT !.pc = "collect"]
    /\ UNCHANGED <<host, history>>

(* wait_with_output reads until the pipe is empty and the child has ended. *)
ReadOutput ==
    /\ doctor.pc = "collect" /\ child.pipe > 0
    /\ child' = [child EXCEPT !.pipe = @ - 1]
    /\ UNCHANGED <<host, doctor, history>>

\* Mutant: what was killed is told from its exit status alone.
StatusAlone == IF child.code = 0 THEN "succeeded" ELSE IF child.killed THEN "timed-out" ELSE "failed"

(* EnvironmentCommandOutput, and the state the adapter makes of it: a       *)
(* command whose time was up has no status, whatever it ended with.         *)
Outcome == IF child.killed THEN "timed-out" ELSE IF child.code = 0 THEN "succeeded" ELSE "failed"

(* A healthcheck follows a preparation or a bootstrap that succeeded;      *)
(* everything else than success is an issue.                               *)
CollectOutcome ==
    /\ doctor.pc = "collect" /\ child.state = "exited" /\ child.pipe = 0
    /\ history' = Append(history, [command |-> doctor.command, code |-> child.code,
                                   killed |-> child.killed])
    /\ child' = NoChild
    /\ doctor' =
          IF Outcome # "succeeded"
          THEN [doctor EXCEPT !.pc = "done", !.issues = @ \cup {"healthcheck-failure"}]
          ELSE IF doctor.command = "healthcheck" THEN [doctor EXCEPT !.pc = "done"]
          ELSE [doctor EXCEPT !.pc = "spawn", !.command = "healthcheck"]
    /\ UNCHANGED host

DoctorNext ==
    \/ BeginDoctor \/ Spawn \/ SpawnFails
    \/ ChildWrites \/ ChildExits \/ TimePasses
    \/ TryWaitChild \/ CheckClock \/ Kill \/ ReadOutput \/ CollectOutcome
-----------------------------------------------------------------------------
(* When the doctor ran commands and reports no failure of them, they were  *)
(* all of the selected profile's commands, the healthcheck last, and each  *)
(* ended by itself with success: none was killed when its time was up,     *)
(* also when it happened to end at that moment.                            *)
CleanReportsAreEarned ==
    doctor.pc = "done" /\ history # <<>> /\ "healthcheck-failure" \notin doctor.issues =>
        /\ \A i \in DOMAIN history : history[i].code = 0 /\ ~history[i].killed
        /\ history[Len(history)].command = "healthcheck"
        /\ KindSelected # "nix" => Len(history) = 2
=============================================================================
