----------------------------- MODULE MCServices -----------------------------
(* Small instances for TLC of the services that share no state with each   *)
(* other: one of them runs, chosen in the initial state, and the rest stay *)
(* as they start.                                                           *)
EXTENDS CommandTrust, DevicePairing, ProjectRegistry, CrashJournal,
        ControlChannel, TaskExecution, Scheduler, BackupAnchor, AgentEvents,
        EnvironmentDoctor, SubmoduleSnapshots, CodeChangingTask, OperationCapsule,
        LogFiles, ResourcePolicy, TLC

CONSTANTS
    top, outer, inner,  \* a workspace, its submodule, and that one's submodule
    f1, f2,             \* paths in conflict, files of a task
    stdout, stderr      \* the streams of a command

VARIABLE part    \* the service that runs

(* A file that is the same in every run and one that is not. *)
TwoOutputs == <<"bin", "report">>

(* A character of two pieces on one stream. *)
SplitCharacters == (stdout :> {1}) @@ (stderr :> {})

(* One device short of disk, one that reports no memory. *)
TwoDevices ==
    <<[platform |-> "linux-gnu", features |-> {"symlinks"},
       cores |-> 4, memory |-> 4096, disk |-> 0],
      [platform |-> "linux-gnu", features |-> {"symlinks", "wsl"},
       cores |-> 2, memory |-> 0, disk |-> 4096]>>

Profile(kind) == [kind |-> kind, fits |-> TRUE, powershell |-> kind = "script"]

(* A submodule with a submodule of its own. *)
Nested == (outer :> top) @@ (inner :> outer)
Listed == <<outer, inner>>

TwoPaths == <<f1, f2>>
ThreeStages == {{0}, {1, 2}, {1, 2, 3}}

Rotation(bytes, files) == [bytes |-> bytes, files |-> files]
SmallLogs == {Rotation(3, 3), Rotation(2, 2), Rotation(2, 0), Rotation(0, 1)}
TwoMessages == {[size |-> 1, git |-> TRUE], [size |-> 2, git |-> FALSE]}

FourProfiles == <<Profile("nix"), Profile("devcontainer"), Profile("script"), Profile("manual")>>
-----------------------------------------------------------------------------
Parts == {"trust", "pairing", "registry", "commands", "journal", "channel", "execution",
          "results", "scheduler", "backup", "revocation", "events", "doctor", "submodules", "code", "capsule", "log", "policy"}

servicesVars == <<part, trustVars, pairingVars, registryVars, journalVars, channelVars,
                  taskVars, taskResultVars, schedulerVars, backupVars, eventVars, doctorVars,
                  submoduleVars, codeTaskVars, capsuleVars, logVars, resourceVars>>

ServicesInit ==
    /\ part \in Parts
    /\ TrustInit /\ PairingInit /\ RegistryInit /\ JournalInit /\ ChannelInit
    /\ TaskInit /\ TaskResultsInit /\ BackupInit /\ EventsInit /\ CodeTaskInit
    /\ SchedulerInit
    /\ part # "scheduler" => task.interactive /\ task.cpu = 0 /\ task.platforms = {}
    /\ SubmodulesInit
    /\ part # "submodules" => \A r \in Submodules : ~repos[r].out
    /\ DoctorInit
    /\ part # "doctor" => host = CHOOSE h \in Hosts : TRUE
    /\ part # "code" => ~runner.canonical
    /\ LogInit
    /\ part # "log" => rotation.files = 3
    /\ ResourceInit
    /\ part # "policy" => /\ ~machine.mac /\ machine.parallelism = 1
                          /\ machine.settings.profile = "eco" /\ ~machine.settings.configured
    /\ machine.settings.configured \/ machine.settings.limits = Slots(0, 0)
    /\ CapsuleInit
    /\ part # "capsule" =>
          /\ source.markers = {"merge"}
          /\ \A p \in ConflictPaths : /\ source.index[p] = {0} /\ source.tree[p] = "none"
                                      /\ target.index[p] = {0}

(* BackupAnchor in two halves: two backups without revocations, and one    *)
(* backup with them.                                                        *)
BackupHalf ==
    IF part = "backup" THEN anchor'.db.revoked = anchor.db.revoked
    ELSE \E b \in Backups : backups'[b].pc = "ready"

(* ProjectRegistry in two halves: the agent alone, and with a command,     *)
(* whose save is then the first to be cut off, while nobody forks or       *)
(* archives a session.                                                     *)
RegistryHalf ==
    IF part = "registry" THEN UNCHANGED regRun
    ELSE /\ cutOff' => cutOff \/ regRun' # regRun
         /\ \A i \in DOMAIN sessions' : sessions'[i].state = "active"

ServicesNext ==
    /\ UNCHANGED part
    /\ IF part = "trust" THEN TrustNext ELSE UNCHANGED trustVars
    /\ IF part = "pairing" THEN PairingNext ELSE UNCHANGED pairingVars
    /\ IF part \in {"registry", "commands"} THEN RegistryNext /\ RegistryHalf
                                           ELSE UNCHANGED registryVars
    /\ IF part = "journal" THEN JournalNext ELSE UNCHANGED journalVars
    /\ IF part = "channel" THEN ChannelNext ELSE UNCHANGED channelVars
    /\ IF part = "execution" THEN TaskNext ELSE UNCHANGED taskVars
    /\ IF part = "results" THEN TaskResultsNext ELSE UNCHANGED taskResultVars
    /\ IF part = "scheduler" THEN SchedulerNext ELSE UNCHANGED schedulerVars
    /\ IF part \in {"backup", "revocation"} THEN BackupNext /\ BackupHalf ELSE UNCHANGED backupVars
    /\ IF part = "events" THEN EventsNext ELSE UNCHANGED eventVars
    /\ IF part = "doctor" THEN DoctorNext ELSE UNCHANGED doctorVars
    /\ IF part = "submodules" THEN SubmodulesNext ELSE UNCHANGED submoduleVars
    /\ IF part = "code" THEN CodeTaskNext ELSE UNCHANGED codeTaskVars
    /\ IF part = "capsule" THEN CapsuleNext ELSE UNCHANGED capsuleVars
    /\ IF part = "log" THEN LogNext ELSE UNCHANGED logVars
    /\ IF part = "policy" THEN ResourceNext ELSE UNCHANGED resourceVars

ServicesSpec == ServicesInit /\ [][ServicesNext]_servicesVars
-----------------------------------------------------------------------------
(* What the task fabric reports of a run is what happened: the output and  *)
(* the end of the command, the artifacts and cached results of that run    *)
(* and no other, and the changes in its workspace.                         *)
TaskReportsAreTrue == ResultsAreComplete /\ ArtifactsBelongToTheirRun /\ ChangeSetIsTheWork

(* What the agent appends to its files stays there, in its order, through  *)
(* rotations, cleanups, failures and crashes: the phases of the crash       *)
(* journal, and the newest lines of the log.                                *)
AppendsAreKept == ReplayKnowsEveryPhase /\ LogKeepsTheNewest

(* States of Git that a snapshot's trees do not hold travel whole, or not  *)
(* at all: the submodules of a work tree, and the conflicts of an          *)
(* unfinished operation.                                                    *)
GitStateTravels == PinnedTreesAreWhole /\ ConflictsTravel
=============================================================================
