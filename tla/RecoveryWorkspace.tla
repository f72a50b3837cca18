--------------------------- MODULE RecoveryWorkspace ---------------------------
(***************************************************************************)
(* recover.open and its remote form recovery.open: a stored snapshot is    *)
(* brought back into a directory, which is cloned from a workspace first   *)
(* if it is not a repository yet; the apply is written to the audit log;   *)
(* on request the directory becomes a workspace of the project.  Every     *)
(* connection of the agent has a thread, so that several calls may be at   *)
(* work on one directory.  The command line does the same by itself, with  *)
(* a copy of the configuration of its own (ProjectRegistry).               *)
(***************************************************************************)
EXTENDS Integers, Sequences

CONSTANTS
    Directories,    \* that calls name
    Restorable,     \* snapshots of the project's store
    InProgress,     \* those of them with work that is not committed
    Openings,       \* calls of the agent
    MaxStops        \* a bound: ends of the agent's process

ASSUME RecoveryAssumption ==
    /\ InProgress \subseteq Restorable /\ Restorable \cap {"none", "part"} = {}
    /\ MaxStops \in Nat

VARIABLES
    places,     \* [Directories -> what the directory is, holds, and whether Git finds it clean]
    recovered,  \* workspaces registered by recoveries, in the agent's memory
    savedPaths, \* the same in config.toml
    savedHow,   \* the last save of it: "whole", "cut" off, or "torn", so that it does not load
    applyAudit, \* the SnapshotApplied rows of the project's database
    openings,   \* [Openings -> the call's progress, or its answer]
    running,    \* whether the agent's process is there
    reloaded,   \* history: an agent loaded a file whose last save was cut off
    stops       \* ends of the agent's process so far

registryRows == <<recovered, savedPaths, savedHow>>
agentProcess == <<running, reloaded, stops>>
recoveryVars == <<places, registryRows, applyAudit, openings, agentProcess>>

NotOpened == [pc |-> "none", path |-> "none", snapshot |-> "none", register |-> FALSE]

RecoveryInit ==
    /\ places \in [Directories -> [kind : {"absent", "files"}, holds : {"none"}, clean : {TRUE}]]
    /\ recovered = {} /\ savedPaths = {} /\ savedHow = "whole" /\ applyAudit = <<>>
    /\ openings = [o \in Openings |-> NotOpened]
    /\ running = TRUE /\ reloaded = FALSE /\ stops = 0

OpeningAt(o, pc) == openings[o].pc = pc
OpeningGoes(o, pc) == openings' = [openings EXCEPT ![o].pc = pc]
PlaceOf(o) == places[openings[o].path]
DirectoryIs(o, kind, holds, clean) ==
    places' = [places EXCEPT ![openings[o].path] = [kind |-> kind, holds |-> holds, clean |-> clean]]
-----------------------------------------------------------------------------
(* The snapshot and the workspace to clone are looked up under the lock of *)
(* the configuration; either may be missing.                               *)
OpenRecovery(o, p, s, register) ==
    /\ OpeningAt(o, "none") /\ running
    /\ \/ openings' = [openings EXCEPT ![o] = [pc |-> "prepare", path |-> p, snapshot |-> s,
                                               register |-> register]]
       \/ OpeningGoes(o, "error")
    /\ UNCHANGED <<places, registryRows, applyAudit, agentProcess>>

(* A repository has to be clean, anything else empty.  What Git says of a  *)
(* repository that another call is still cloning is open.                  *)
PrepareRecovery(o) ==
    /\ OpeningAt(o, "prepare")
    /\ \/ /\ PlaceOf(o).kind \in {"repo", "cloning"}
          /\ OpeningGoes(o, "check")
          /\ PlaceOf(o).kind = "repo" => PlaceOf(o).clean
          /\ UNCHANGED places
       \/ /\ \/ PlaceOf(o).kind \in {"files", "cloning"}
             \/ PlaceOf(o).kind = "repo" /\ ~PlaceOf(o).clean
          /\ OpeningGoes(o, "error") /\ UNCHANGED places
       \/ /\ PlaceOf(o).kind \in {"absent", "empty"}
          /\ OpeningGoes(o, "clone") /\ DirectoryIs(o, "cloning", "none", TRUE)
    /\ UNCHANGED <<registryRows, applyAudit, agentProcess>>

(* A clone checks its work tree out last; one that fails clears the        *)
(* directory it found empty.                                               *)
CloneEnds(o) ==
    /\ OpeningAt(o, "clone")
    /\ \/ /\ OpeningGoes(o, "check")
          /\ IF PlaceOf(o).holds = "none" THEN DirectoryIs(o, "repo", "none", TRUE)
                                          ELSE DirectoryIs(o, "repo", "part", FALSE)
       \/ OpeningGoes(o, "error") /\ DirectoryIs(o, "empty", "none", TRUE)
    /\ UNCHANGED <<registryRows, applyAudit, agentProcess>>

(* apply_snapshot, which SnapshotApply models command by command: it looks *)
(* at the status, writes, and verifies what it finds then.                 *)
CheckTarget(o) ==
    /\ OpeningAt(o, "check")
    /\ IF PlaceOf(o).kind = "repo" /\ PlaceOf(o).clean
       THEN openings' \in {[openings EXCEPT ![o].pc = pc] : pc \in {"write", "failed"}}
       ELSE OpeningGoes(o, "failed")
    /\ UNCHANGED <<places, registryRows, applyAudit, agentProcess>>

WriteTarget(o) ==
    /\ OpeningAt(o, "write")
    /\ \/ /\ PlaceOf(o).kind = "repo"
          /\ OpeningGoes(o, "verify")
          /\ DirectoryIs(o, "repo", openings[o].snapshot, openings[o].snapshot \notin InProgress)
       \/ /\ OpeningGoes(o, "failed")
          /\ \/ DirectoryIs(o, PlaceOf(o).kind, "part", FALSE)
             \/ UNCHANGED places
    /\ UNCHANGED <<registryRows, applyAudit, agentProcess>>

VerifyTarget(o) ==
    /\ OpeningAt(o, "verify")
    /\ IF PlaceOf(o).kind = "repo" /\ PlaceOf(o).holds = openings[o].snapshot
       THEN OpeningGoes(o, "record")
       ELSE OpeningGoes(o, "failed")
    /\ UNCHANGED <<places, registryRows, applyAudit, agentProcess>>
-----------------------------------------------------------------------------
(* The row is written in a transaction of its own, which may fail.         *)
AuditRow(o, outcome) ==
    Append(applyAudit, [path |-> openings[o].path, snapshot |-> openings[o].snapshot,
                        outcome |-> outcome])

\* Mutant: the call goes on although its row could not be written.
RecordLoosely(o) ==
    /\ OpeningAt(o, "record")
    /\ applyAudit' \in {applyAudit, AuditRow(o, "succeeded")}
    /\ OpeningGoes(o, IF openings[o].register THEN "register" ELSE "answer")
    /\ UNCHANGED <<places, registryRows, agentProcess>>

RecordApply(o) ==
    /\ OpeningAt(o, "record")
    /\ \/ /\ applyAudit' = AuditRow(o, "succeeded")
          /\ OpeningGoes(o, IF openings[o].register THEN "register" ELSE "answer")
       \/ OpeningGoes(o, "error") /\ UNCHANGED applyAudit
    /\ UNCHANGED <<places, registryRows, agentProcess>>

RecordFailedApply(o) ==
    /\ OpeningAt(o, "failed")
    /\ applyAudit' \in {applyAudit, AuditRow(o, "failed")}
    /\ OpeningGoes(o, "error")
    /\ UNCHANGED <<places, registryRows, agentProcess>>

(* LocalConfig::save is fs::write, which truncates first. One that fails,   *)
(* or that the end of the process cuts off, leaves the file as it was, with *)
(* some of the rows, or such that nothing loads.                            *)
SavePaths(paths, saved) ==
    IF saved THEN savedPaths' = paths /\ savedHow' = "whole"
    ELSE \/ UNCHANGED <<savedPaths, savedHow>>
         \/ savedPaths' \in SUBSET paths /\ savedHow' = "cut"
         \/ savedPaths' = {} /\ savedHow' = "torn"

(* register_recovery_workspace and the save, under the lock.  A save that  *)
(* fails leaves the workspace in memory.                                   *)
RegisterRecovery(o) ==
    /\ OpeningAt(o, "register")
    /\ IF openings[o].path \in recovered
       THEN OpeningGoes(o, "error") /\ UNCHANGED registryRows
       ELSE /\ recovered' = recovered \cup {openings[o].path}
            /\ \E saved \in BOOLEAN : /\ SavePaths(recovered', saved)
                                     /\ OpeningGoes(o, IF saved THEN "answer" ELSE "error")
    /\ UNCHANGED <<places, applyAudit, agentProcess>>

(* A registered workspace is announced first, which may fail. *)
AnswerRecovery(o) ==
    /\ OpeningAt(o, "answer")
    /\ \/ OpeningGoes(o, "answered")
       \/ openings[o].register /\ OpeningGoes(o, "error")
    /\ UNCHANGED <<places, registryRows, applyAudit, agentProcess>>

(* The process ends: calls under way are cut off where they are, and the   *)
(* process of a clone ends by itself or is ended.                          *)
RecoveryAgentEnds ==
    /\ running /\ running' = FALSE
    /\ stops < MaxStops /\ stops' = stops + 1
    /\ openings' = [o \in Openings |->
                       IF openings[o].pc \in {"none", "answered", "error"} THEN openings[o]
                       ELSE [openings[o] EXCEPT !.pc = "error"]]
    /\ \E whole \in SUBSET Directories :
          places' = [p \in Directories |->
                        IF places[p].kind = "cloning"
                        THEN [places[p] EXCEPT !.kind = "repo", !.clean = @ /\ p \in whole]
                        ELSE places[p]]
    /\ recovered' = {}
    /\ UNCHANGED <<savedPaths, savedHow, applyAudit, reloaded>>

(* main loads the file and saves it again, or does not start.              *)
RecoveryAgentStarts ==
    /\ ~running /\ savedHow # "torn"
    /\ reloaded' = (reloaded \/ savedHow # "whole")
    /\ \E saved \in BOOLEAN :
          /\ SavePaths(savedPaths, saved)
          /\ running' = saved
          /\ recovered' = IF saved THEN savedPaths ELSE {}
    /\ UNCHANGED <<places, applyAudit, openings, stops>>

RecoveryNext ==
    \/ RecoveryAgentEnds \/ RecoveryAgentStarts
    \/ \E o \in Openings :
          \/ \E p \in Directories, s \in Restorable, register \in BOOLEAN : OpenRecovery(o, p, s, register)
          \/ PrepareRecovery(o) \/ CloneEnds(o) \/ CheckTarget(o) \/ WriteTarget(o) \/ VerifyTarget(o)
          \/ RecordApply(o) \/ RecordFailedApply(o) \/ RegisterRecovery(o) \/ AnswerRecovery(o)
-----------------------------------------------------------------------------
(* What a recovery says of itself is so, whatever other calls do to the    *)
(* same directory and wherever the agent stops: a call that is answered    *)
(* has a row of its own snapshot, and no directory becomes a workspace     *)
(* that no recovery was verified in.  As long as no agent has loaded a     *)
(* file whose save was cut off, which loses what was registered before it, *)
(* no two answered calls registered one directory; and what one of them    *)
(* registered is a workspace of the agent, and in the file, unless the     *)
(* last save was cut off: the next that ends puts it there again.          *)
Told(p, s) == \E i \in DOMAIN applyAudit :
                 applyAudit[i].path = p /\ applyAudit[i].outcome = "succeeded" /\ applyAudit[i].snapshot = s

RegisteredBy(o) == OpeningAt(o, "answered") /\ openings[o].register

RecoveriesAreTrue ==
    /\ \A o \in Openings : OpeningAt(o, "answered") => Told(openings[o].path, openings[o].snapshot)
    /\ \A p \in recovered \cup savedPaths : \E s \in Restorable : Told(p, s)
    /\ ~reloaded => \A o \in Openings : RegisteredBy(o) =>
          /\ running => openings[o].path \in recovered
          /\ savedHow = "whole" => openings[o].path \in savedPaths
          /\ \A other \in Openings \ {o} : RegisteredBy(other) =>
                openings[other].path # openings[o].path
=============================================================================
