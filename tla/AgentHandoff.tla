---------------------------- MODULE AgentHandoff ----------------------------
(***************************************************************************)
(* One agent serving handoffs on its project database: the local RPC       *)
(* handlers and the remote ones that other devices reach through the       *)
(* authenticated channel (crates/devrelay-agent/src/main.rs and            *)
(* crates/devrelay-core/src/remote_rpc.rs), the desktop's prepare and      *)
(* continue commands (apps/desktop/src-tauri/src/main.rs), which are       *)
(* sequences of those calls, and the editor's edit reports.                *)
(*                                                                         *)
(* The agent runs every connection on a thread of its own.  A handler      *)
(* reads the handoff, runs a MetadataDb method, then publishes an event:   *)
(* three steps, with other threads in between.  Each step on the database  *)
(* is an action of LeaseHandoff.                                           *)
(*                                                                         *)
(* A content version of this device's workspace is the number of the edit  *)
(* that made it; a checkpoint's state_hash is the version it captured.     *)
(***************************************************************************)
EXTENDS LeaseHandoff, TLC

CONSTANTS
    Self,              \* the device id of this agent
    LocalOps,          \* handoff methods called by local clients other than the desktop
    RemoteOps,         \* handoff methods called by other devices
    ContextGeneration, \* "vscode-context-..": the editor's source generation
    Revocable,         \* devices that may be revoked while the agent runs
    MaxEdits           \* bound on the number of edits

ASSUME SelfAssumption == Self \in Devices /\ Revocable \subseteq Devices /\ MaxEdits \in Nat
ASSUME VersionAssumption ==
    0 .. MaxEdits \subseteq Generations /\ ContextGeneration \in Generations \ (0 .. MaxEdits)

\* A thread that runs recover_handoff is that recovery's caller.
Threads == Recoveries

\* Threads and handoffs are interchangeable: the runs' SYMMETRY.
Symmetry == Permutations(Threads) \cup Permutations(Handoffs)

VARIABLES
    calls,    \* what each thread of the agent is doing
    events,   \* the handoff.state.changed events of AgentEventLog, in order
    boot,     \* the handoff states a client reads when the agent starts
    store,    \* the state hashes of the snapshots in this agent's snapshot store
    edits,    \* edits made in this device's workspace
    work,     \* the content version in this device's workspace
    told,     \* the last edit whose editor.event.record returned Ok
    begun,    \* the edits made when a handoff was begun
    applied   \* the state hashes apply_snapshot has verified in the workspace

agentVars == <<calls, events, boot, store, edits, work, told, begun, applied>>
allVars == <<vars, agentVars>>

MutateOps == {"verify", "ready", "abort", "commit", "recover"}
NoCall == [op |-> "none"]
HandoffStates == PendingStates \cup TerminalStates \cup {"Absent"}

Idle(t) == calls[t] = NoCall /\ recoveries[t] = NoRecovery
Become(t, call) == calls' = [calls EXCEPT ![t] = call]
Finish(t) == Become(t, NoCall)

-----------------------------------------------------------------------------
(* Handlers of the calls that name a handoff                               *)

\* require_actor and require_source_or_target_actor
RoleAllows(op, h, actor) ==
    CASE op = "verify" -> actor = handoffs[h].target
      [] op \in {"ready", "commit"} -> actor = handoffs[h].source
      [] op \in {"abort", "recover"} -> actor \in {handoffs[h].source, handoffs[h].target}

\* The read of previous_state that every handler starts with.  "then" says
\* what the caller does with the answer.
StartMutation(t, op, h, g, then) ==
    Become(t, [op |-> op, pc |-> "mutate", handoff |-> h, generation |-> g,
               previous |-> handoffs[h].state, next |-> "Absent", then |-> then])

\* Only commit and recover are given a generation; any one value stands for
\* the generation of the others.
Matters(op, h, g) == op \in {"commit", "recover"} \/ g = handoffs[h].generation

HandleLocalMutation(t, op, h, g) ==
    /\ Idle(t)
    /\ op \in LocalOps
    /\ handoffs[h].state # "Absent"
    /\ Matters(op, h, g)
    /\ StartMutation(t, op, h, g, "return")
    /\ UNCHANGED <<vars, events, boot, store, edits, work, told, begun, applied>>

HandleRemoteMutation(t, op, h, g) ==
    /\ Idle(t)
    /\ op \in RemoteOps
    /\ handoffs[h].state # "Absent"
    /\ Matters(op, h, g)
    /\ \E actor \in Devices \ {Self} : RoleAllows(op, h, actor)
    /\ StartMutation(t, op, h, g, "return")
    /\ UNCHANGED <<vars, events, boot, store, edits, work, told, begun, applied>>

At(t, pc) == calls[t] # NoCall /\ calls[t].pc = pc
Op(t, op) == At(t, "mutate") /\ calls[t].op = op

\* Mutant: a late abort undoes a commit.
AbortCommitted(h) ==
    /\ IsPending(h) \/ handoffs[h].state = "Committed"
    /\ AbortWrites(h)
    /\ UNCHANGED <<snapshots, revoked, transfers, recoveries, now>>

\* abort_handoff: nothing is written for a handoff that is already aborted.
AbortOrAborted(h) ==
    \/ AbortHandoff(h)
    \/ handoffs[h].state = "Aborted" /\ UNCHANGED vars

MutationSucceeds(t) ==
    LET c == calls[t] IN
    /\ \/ Op(t, "verify") /\ MarkHandoffTargetVerified(c.handoff)
       \/ Op(t, "ready") /\ MarkHandoffSourceReady(c.handoff)
       \/ Op(t, "abort") /\ AbortOrAborted(c.handoff)
       \/ /\ Op(t, "commit")
          /\ CommitHandoff(c.handoff, c.generation)
          /\ handoffs'[c.handoff].state = "Committed"
    /\ Become(t, [c EXCEPT !.pc = "publish", !.next = handoffs'[c.handoff].state])
    /\ UNCHANGED <<events, boot, store, edits, work, told, begun, applied>>

\* The method returned Err: the handler answers with it and publishes nothing.
\* A commit may have aborted the handoff on its way out.
MutationFails(t) ==
    LET h == calls[t].handoff IN
    /\ \/ Op(t, "verify") /\ handoffs[h].state # "TargetPrepare" /\ UNCHANGED vars
       \/ Op(t, "ready") /\ handoffs[h].state # "TargetVerified" /\ UNCHANGED vars
       \/ Op(t, "abort") /\ handoffs[h].state = "Committed" /\ UNCHANGED vars
       \/ Op(t, "commit") /\ handoffs[h].state # "SourceReady" /\ UNCHANGED vars
       \/ /\ Op(t, "commit")
          /\ ~ CommitMustAbort(h, calls[t].generation, now)
          /\ ~ NotRevoked(handoffs[h].target)
          /\ UNCHANGED vars
       \/ /\ Op(t, "commit")
          /\ CommitHandoff(h, calls[t].generation)
          /\ handoffs'[h].state = "Aborted"
    /\ Finish(t)
    /\ UNCHANGED <<events, boot, store, edits, work, told, begun, applied>>

\* handoff.recover: the two transactions of recover_handoff, then the handoff
\* is read again for the answer and the event.
RecoverStarts(t) ==
    /\ Op(t, "recover")
    /\ RecoverRead(t, calls[t].handoff, calls[t].generation)
    /\ Become(t, [calls[t] EXCEPT !.pc = "recover"])
    /\ UNCHANGED <<events, boot, store, edits, work, told, begun, applied>>

RecoverActs(t) ==
    /\ At(t, "recover")
    /\ RecoverAbort(t) \/ RecoverCommit(t)
    /\ UNCHANGED agentVars

RecoverReturns(t) ==
    /\ At(t, "recover")
    /\ recoveries[t].phase = "returned"
    /\ IF recoveries[t].outcome = "Err"
       THEN Finish(t)
       ELSE Become(t, [calls[t] EXCEPT !.pc = "publish",
                                       !.next = handoffs[calls[t].handoff].state])
    /\ RecoverEnd(t)
    /\ UNCHANGED <<events, boot, store, edits, work, told, begun, applied>>

\* Mutant: the event is skipped for a handoff that is committed.
PublishAbortsOnly(t) ==
    LET c == calls[t] IN
    /\ At(t, "publish")
    /\ events' = IF c.previous = c.next \/ c.next = "Committed" THEN events
                 ELSE Append(events, [handoff |-> c.handoff, state |-> c.next])
    /\ CASE c.then = "return" -> Finish(t)
         [] c.then = "continue" -> Become(t, [c EXCEPT !.op = "continue", !.pc = "step"])
         [] c.then = "edit" -> Become(t, [c EXCEPT !.op = "edit", !.pc = "abort"])
    /\ UNCHANGED <<vars, boot, store, edits, work, told, begun, applied>>

\* publish_handoff_state_changed, and the answer to the caller.
PublishStateChanged(t) ==
    LET c == calls[t] IN
    /\ At(t, "publish")
    /\ events' = IF c.previous = c.next THEN events
                 ELSE Append(events, [handoff |-> c.handoff, state |-> c.next])
    /\ CASE c.then = "return" -> Finish(t)
         [] c.then = "continue" -> Become(t, [c EXCEPT !.op = "continue", !.pc = "step"])
         [] c.then = "edit" -> Become(t, [c EXCEPT !.op = "edit", !.pc = "abort"])
    /\ UNCHANGED <<vars, boot, store, edits, work, told, begun, applied>>

-----------------------------------------------------------------------------
(* handoff.begin: from another device, from the editor's "continue         *)
(* elsewhere", and as the last step of the desktop's prepare.              *)

BeginFor(t, h, l, source, target, g) ==
    /\ \E ttl \in Ttls : BeginHandoff(h, l, source, target, g, ttl)
    /\ begun' = [begun EXCEPT ![h] = edits]
    /\ Become(t, [op |-> "begin", pc |-> "publish", handoff |-> h, generation |-> g,
                  previous |-> "Absent", next |-> "TargetPrepare", then |-> "return"])
    /\ UNCHANGED <<events, boot, store, edits, work, told, applied>>

HandleRemoteBegin(t, h, l, source, target, g) ==
    Idle(t) /\ "begin" \in RemoteOps /\ source # Self /\ BeginFor(t, h, l, source, target, g)

EditorContinueElsewhere(t, h, l, target) ==
    Idle(t) /\ target # Self /\ BeginFor(t, h, l, Self, target, ContextGeneration)

\* handoff_prepare: the lease is checked, the work checkpointed, the handoff begun.
PrepareStarts(t, l, target) ==
    /\ Idle(t)
    /\ target # Self
    /\ leases[l].state = "Active"
    /\ leases[l].holder = Self
    /\ Become(t, [op |-> "prepare", pc |-> "checkpoint", lease |-> l, target |-> target])
    /\ UNCHANGED <<vars, events, boot, store, edits, work, told, begun, applied>>

PrepareCheckpoints(t) ==
    /\ At(t, "checkpoint")
    /\ store' = store \cup {work}
    /\ Become(t, [op |-> "prepare", pc |-> "begin", lease |-> calls[t].lease,
                  target |-> calls[t].target, generation |-> work])
    /\ UNCHANGED <<vars, events, boot, edits, work, told, begun, applied>>

PrepareBegins(t) ==
    /\ At(t, "begin")
    /\ \E h \in Handoffs :
         BeginFor(t, h, calls[t].lease, Self, calls[t].target, calls[t].generation)

\* A desktop command ends early: an error from the agent, or the desktop exits.
CommandStops(t) ==
    /\ calls[t] # NoCall
    /\ calls[t].pc \in {"checkpoint", "begin", "step"}
    /\ Finish(t)
    /\ UNCHANGED <<vars, events, boot, store, edits, work, told, begun, applied>>

-----------------------------------------------------------------------------
(* handoff_continue_here, on the target                                    *)

ContinueStarts(t, h) ==
    /\ Idle(t)
    /\ handoffs[h].state # "Absent"
    /\ handoffs[h].target = Self
    /\ Become(t, [op |-> "continue", pc |-> "step", handoff |-> h,
                  generation |-> handoffs[h].generation, previous |-> "Absent",
                  next |-> handoffs[h].state, then |-> "continue"])
    /\ UNCHANGED <<vars, events, boot, store, edits, work, told, begun, applied>>

\* The command acts on the state of its last answer (next), not on the table.
Believes(t, state) == At(t, "step") /\ calls[t].next = state

\* Mutant: verification is reported without the apply.
ContinueSkipsApply(t) ==
    LET c == calls[t] IN
    /\ Believes(t, "TargetPrepare")
    /\ StartMutation(t, "verify", c.handoff, c.generation, "continue")
    /\ UNCHANGED <<vars, events, boot, store, edits, work, told, begun, applied>>

\* apply_snapshot of the snapshot that matches the source generation, which
\* ends with verify_snapshot.  A failing apply is CommandStops.
ContinueApplies(t) ==
    LET c == calls[t] IN
    /\ Believes(t, "TargetPrepare")
    /\ c.generation \in store
    /\ work' = c.generation
    /\ applied' = applied \cup {c.generation}
    /\ StartMutation(t, "verify", c.handoff, c.generation, "continue")
    /\ UNCHANGED <<vars, events, boot, store, edits, told, begun>>

ContinueSourceReady(t) ==
    /\ Believes(t, "TargetVerified")
    /\ StartMutation(t, "ready", calls[t].handoff, calls[t].generation, "continue")
    /\ UNCHANGED <<vars, events, boot, store, edits, work, told, begun, applied>>

\* observed_source_generation is the generation in the handoff record.
ContinueCommits(t) ==
    /\ Believes(t, "SourceReady")
    /\ StartMutation(t, "commit", calls[t].handoff, calls[t].generation, "continue")
    /\ UNCHANGED <<vars, events, boot, store, edits, work, told, begun, applied>>

ContinueEnds(t) ==
    /\ Believes(t, "Committed") \/ Believes(t, "Aborted")
    /\ Finish(t)
    /\ UNCHANGED <<vars, events, boot, store, edits, work, told, begun, applied>>

-----------------------------------------------------------------------------
(* Edits.  The editor reports each one; the report aborts this device's    *)
(* pending handoffs.                                                       *)

EditorEdit(t) ==
    /\ Idle(t)
    /\ edits < MaxEdits
    /\ edits' = edits + 1
    /\ work' = edits + 1
    /\ Become(t, [op |-> "edit", pc |-> "list", edit |-> edits + 1])
    /\ UNCHANGED <<vars, events, boot, store, told, begun, applied>>

SourceHandoffs == {h \in Handoffs : IsPending(h) /\ handoffs[h].source = Self}

\* Mutant: handoffs that wait for their commit are not listed.
EditorListsUnready(t) ==
    /\ At(t, "list")
    /\ Become(t, [op |-> "edit", pc |-> "abort", edit |-> calls[t].edit,
                  todo |-> {[handoff |-> h, previous |-> handoffs[h].state] :
                              h \in {x \in SourceHandoffs : handoffs[x].state # "SourceReady"}}])
    /\ UNCHANGED <<vars, events, boot, store, edits, work, told, begun, applied>>

EditorLists(t) ==
    /\ At(t, "list")
    /\ Become(t, [op |-> "edit", pc |-> "abort", edit |-> calls[t].edit,
                  todo |-> {[handoff |-> h, previous |-> handoffs[h].state] : h \in SourceHandoffs}])
    /\ UNCHANGED <<vars, events, boot, store, edits, work, told, begun, applied>>

\* abort_handoff_with_reason; the event names the state that was listed.
EditorAborts(t) ==
    LET c == calls[t] IN
    /\ At(t, "abort")
    /\ \E x \in c.todo :
         /\ AbortOrAborted(x.handoff)
         /\ Become(t, [op |-> "edit", pc |-> "publish", edit |-> c.edit, todo |-> c.todo \ {x},
                       handoff |-> x.handoff, previous |-> x.previous, next |-> "Aborted",
                       then |-> "edit"])
    /\ UNCHANGED <<events, boot, store, edits, work, told, begun, applied>>

\* A listed handoff was committed first: the report fails, the rest is not aborted.
EditorFails(t) ==
    /\ At(t, "abort")
    /\ \E x \in calls[t].todo : handoffs[x.handoff].state = "Committed"
    /\ Finish(t)
    /\ UNCHANGED <<vars, events, boot, store, edits, work, told, begun, applied>>

EditorReturns(t) ==
    /\ At(t, "abort")
    /\ calls[t].todo = {}
    /\ told' = IF calls[t].edit > told THEN calls[t].edit ELSE told
    /\ Finish(t)
    /\ UNCHANGED <<vars, events, boot, store, edits, work, begun, applied>>

-----------------------------------------------------------------------------
\* The agent stops and starts again: threads and the event log are memory.
AgentRestarts ==
    /\ calls' = [t \in Threads |-> NoCall]
    /\ events' = <<>>
    /\ boot' = [h \in Handoffs |-> handoffs[h].state]
    /\ UNCHANGED <<vars, store, edits, work, told, begun, applied>>

\* The recoveries that died with the agent leave no trace.
RecoverForgotten(t) ==
    calls[t] = NoCall /\ RecoverEnd(t) /\ UNCHANGED agentVars

OutsideAgent ==
    /\ Tick \/ \E d \in Revocable : RevokeDevice(d)
    /\ UNCHANGED agentVars

AgentInit ==
    /\ Init
    /\ \A l \in Leases : leases[l].state = "Active"
    /\ calls = [t \in Threads |-> NoCall]
    /\ events = <<>>
    /\ boot = [h \in Handoffs |-> "Absent"]
    /\ store \in SUBSET {0}
    /\ edits = 0 /\ work = 0 /\ told = 0
    /\ begun = [h \in Handoffs |-> 0]
    /\ applied = {}

AgentNext ==
    \/ \E t \in Threads :
         \/ \E op \in MutateOps, h \in Handoffs, g \in Generations :
              HandleLocalMutation(t, op, h, g) \/ HandleRemoteMutation(t, op, h, g)
         \/ MutationSucceeds(t) \/ MutationFails(t)
         \/ RecoverStarts(t) \/ RecoverActs(t) \/ RecoverReturns(t)
         \/ PublishStateChanged(t)
         \/ \E h \in Handoffs, l \in Leases, target \in Devices :
              \/ \E source \in Devices, g \in Generations :
                   HandleRemoteBegin(t, h, l, source, target, g)
              \/ EditorContinueElsewhere(t, h, l, target)
         \/ \E l \in Leases, target \in Devices : PrepareStarts(t, l, target)
         \/ PrepareCheckpoints(t) \/ PrepareBegins(t) \/ CommandStops(t)
         \/ \E h \in Handoffs : ContinueStarts(t, h)
         \/ ContinueApplies(t) \/ ContinueSourceReady(t) \/ ContinueCommits(t) \/ ContinueEnds(t)
         \/ EditorEdit(t) \/ EditorLists(t) \/ EditorAborts(t) \/ EditorFails(t) \/ EditorReturns(t)
         \/ RecoverForgotten(t)
    \/ AgentRestarts
    \/ OutsideAgent

AgentSpec == AgentInit /\ [][AgentNext]_allVars
-----------------------------------------------------------------------------
(* Properties                                                              *)

(* Whatever its threads do, the agent only ever moves the tables by the    *)
(* MetadataDb methods: the handlers implement LeaseHandoff, so everything  *)
(* shown of that specification holds of the running agent.                 *)
AgentUsesMetadata == Spec

(* The edit guard.  Once editor.event.record has returned Ok for an edit,  *)
(* no handoff that this device had begun before the edit is still on its   *)
(* way to a commit, however its handler interleaved with the report.       *)
AcknowledgedEditEndsHandoffs ==
    \A h \in SourceHandoffs : told <= begun[h]

(* A lease that was handed to this device was handed over for work that    *)
(* apply_snapshot had verified in its workspace, whoever committed it and  *)
(* however often the continue command was retried (docs/data-loss-safety,  *)
(* "Handoff Policy": only after target apply and verification).            *)
TargetAppliedBeforeCommit ==
    \A h \in Handoffs : handoffs[h].state = "Committed" /\ handoffs[h].target = Self =>
      handoffs[h].generation \in applied

Quiet == \A t \in Threads : calls[t] = NoCall

(* A commit is never silent: with no call in progress, every handoff that  *)
(* was committed since the agent started has its event in the log.         *)
CommittedAnnounced ==
    Quiet => \A h \in Handoffs :
      handoffs[h].state = "Committed" /\ boot[h] # "Committed" =>
        \E i \in DOMAIN events : events[i].handoff = h /\ events[i].state = "Committed"

(* docs/north-star-checklist.md: "Source edit during handoff prevents      *)
(* stale lease transfer."  When a handoff of this device commits, its      *)
(* checkpoint holds every edit whose report the agent has acknowledged.    *)
NoStaleTransfer ==
    [][\A h \in Handoffs :
         /\ handoffs[h].state = "SourceReady"
         /\ handoffs'[h].state = "Committed"
         /\ handoffs[h].source = Self
         /\ handoffs[h].generation # ContextGeneration
         => told <= handoffs[h].generation]_allVars
=============================================================================
