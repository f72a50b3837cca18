------------------------ MODULE BackgroundProtection ------------------------
(***************************************************************************)
(* Background protection: the filesystem watcher collects change hints     *)
(* (crates/devrelay-core/src/watcher.rs), the debouncer decides when they  *)
(* are worth a checkpoint and when checkpoints are worth a publish         *)
(* (debounce.rs), and the checkpoint manager re-reads the workspace,       *)
(* stores a snapshot, copies it to the anchor and keeps the protection     *)
(* status (background_checkpoint.rs).                                      *)
(*                                                                         *)
(* The user edits at any time.  The agent's loop, which the repository     *)
(* leaves to the caller, passes on what each part returns: hints to the    *)
(* debouncer and to mark_dirty, drained checkpoints to handle_checkpoint,  *)
(* completed ones to record_checkpoint_completed.                          *)
(*                                                                         *)
(* Times only matter as elapsed(now, then), so a time is kept as its age,  *)
(* and ages stop at AgeCap, beyond every policy interval.                  *)
(***************************************************************************)
EXTENDS Naturals, Sequences, FiniteSets

CONSTANTS
    Workspaces,     \* registered workspace ids
    Paths,          \* relative paths
    None,           \* Option::None
    UseAnchor,      \* an anchor repository is passed to the manager
    FirstQuiet,     \* policy.first_event_quiet
    MinInterval,    \* policy.min_checkpoint_interval
    MaxDirty,       \* policy.max_dirty_interval
    PublishQuiet,   \* policy.publish_quiet
    MaxPublish,     \* policy.max_publish_interval
    Threshold,      \* failure_notification_threshold
    MaxGeneration,  \* the largest u64
    MaxQueue        \* bound on watcher messages in the channel

ASSUME PolicyAssumption ==
    {FirstQuiet, MinInterval, MaxDirty, PublishQuiet, MaxPublish} \subseteq Nat
ASSUME LimitAssumption ==
    Threshold \in Nat \ {0} /\ MaxGeneration \in Nat /\ MaxQueue \in Nat \ {0}
ASSUME OptionAssumption == None \notin Nat
ASSUME AnchorAssumption == UseAnchor \in BOOLEAN

VARIABLES
    watched,     \* workspaces the watcher knows
    unscanned,   \* paths whose fingerprint has changed since the last scan
    channel,     \* messages of the watcher not yet observed
    generation,  \* FilesystemWatchState.source_generations
    pending,     \* FilesystemWatchState.pending_paths
    debounce,    \* AdaptiveDebouncer.workspaces
    due,         \* drained checkpoints not yet handled
    job,         \* the checkpoint that handle_checkpoint is working on
    manager,     \* BackgroundCheckpointManager.workspaces
    status,      \* the last protection status event of a workspace
    snapshots,   \* where the latest snapshot is: nowhere, local, in the anchor too
    published,   \* the generation of the last publish the debouncer asked for
    unsaved,     \* paths that differ from the latest snapshot
    owed         \* unsaved paths that were edited while the workspace was watched

watcherVars == <<watched, unscanned, channel, generation, pending>>
managerVars == <<job, manager, status, snapshots>>
workVars == <<unsaved, owed>>
vars == <<watcherVars, debounce, due, managerVars, published, workVars>>

Larger(a, b) == IF a < b THEN b ELSE a
AgeCap == Larger(Larger(FirstQuiet, Larger(MinInterval, MaxDirty)),
                 Larger(PublishQuiet, MaxPublish))

\* WorkspaceDebounceState, as it starts
NewDebounce == [paths |-> {}, generation |-> 0, firstDirty |-> None, lastDirty |-> None,
                lastCheckpoint |-> None, publish |-> None,
                firstUnpublished |-> None, lastUnpublished |-> None]

\* WorkspaceCheckpointState.  Failures are counted up to the threshold, the
\* only number they are compared with.
NewManager == [dirty |-> FALSE, observed |-> 0, checkpointed |-> 0, failures |-> 0]

NoJob == [pc |-> "idle"]

-----------------------------------------------------------------------------
(* The workspace and the watcher                                           *)

\* An edit, or one that brings back what the latest snapshot has.
Edit(w, p) ==
    /\ unscanned' = IF w \in watched THEN [unscanned EXCEPT ![w] = @ \cup {p}] ELSE unscanned
    /\ \/ /\ unsaved' = [unsaved EXCEPT ![w] = @ \cup {p}]
          /\ owed' = IF w \in watched THEN [owed EXCEPT ![w] = @ \cup {p}] ELSE owed
       \/ /\ snapshots[w] # "none"
          /\ unsaved' = [unsaved EXCEPT ![w] = @ \ {p}]
          /\ owed' = [owed EXCEPT ![w] = @ \ {p}]
    /\ UNCHANGED <<watched, channel, generation, pending, debounce, due, managerVars, published>>

\* watch and register_workspace: the first scan is the baseline.
Watch(w) ==
    /\ w \notin watched
    /\ watched' = watched \cup {w}
    /\ unscanned' = [unscanned EXCEPT ![w] = {}]
    /\ UNCHANGED <<channel, generation, pending, debounce, due, managerVars, published, workVars>>

\* unwatch and unregister_workspace forget the generation and the pending paths.
Unwatch(w) ==
    /\ w \in watched
    /\ watched' = watched \ {w}
    /\ unscanned' = [unscanned EXCEPT ![w] = {}]
    /\ generation' = [generation EXCEPT ![w] = 0]
    /\ pending' = [pending EXCEPT ![w] = {}]
    /\ owed' = [owed EXCEPT ![w] = {}]
    /\ UNCHANGED <<channel, debounce, due, managerVars, published, unsaved>>

\* poll_once: one event with the paths that changed since the last scan.  The
\* native watchers do the same after every change.
PollOnce(w) ==
    /\ w \in watched
    /\ unscanned[w] # {}
    /\ Len(channel) < MaxQueue
    /\ channel' = Append(channel, [workspace |-> w, paths |-> unscanned[w]])
    /\ unscanned' = [unscanned EXCEPT ![w] = {}]
    /\ UNCHANGED <<watched, generation, pending, debounce, due, managerVars, published, workVars>>

SaturatingAdd(g) == IF g < MaxGeneration THEN g + 1 ELSE g

\* observe_raw_event: a path outside every registered workspace is dropped.
ObserveRawEvent ==
    /\ channel # <<>>
    /\ channel' = Tail(channel)
    /\ LET w == Head(channel).workspace IN
       IF w \in watched
       THEN /\ generation' = [generation EXCEPT ![w] = SaturatingAdd(@)]
            /\ pending' = [pending EXCEPT ![w] = @ \cup Head(channel).paths]
       ELSE UNCHANGED <<generation, pending>>
    /\ UNCHANGED <<watched, unscanned, debounce, due, managerVars, published, workVars>>

-----------------------------------------------------------------------------
(* The debouncer                                                           *)

OrNow(age) == IF age = None THEN 0 ELSE age

\* Mutant: the first dirty time moves with every event.
ObserveRestarts(d, g, paths) ==
    [d EXCEPT !.paths = @ \cup paths, !.generation = Larger(@, g),
              !.firstDirty = 0, !.lastDirty = 0]

\* Mutant: the generation of the change replaces a larger one.
ObserveOverwrites(d, g, paths) ==
    [d EXCEPT !.paths = @ \cup paths, !.generation = g,
              !.firstDirty = OrNow(@), !.lastDirty = 0]

ObserveChange(d, g, paths) ==
    [d EXCEPT !.paths = @ \cup paths, !.generation = Larger(@, g),
              !.firstDirty = OrNow(@), !.lastDirty = 0]

MarkDirty(m, g) == [m EXCEPT !.dirty = TRUE, !.observed = Larger(@, g)]

\* drain_coalesced, every change of which goes to the manager and the debouncer.
\* handle_checkpoint has the manager to itself (&mut self) until it returns.
DrainCoalesced ==
    /\ job = NoJob
    /\ \E w \in Workspaces : pending[w] # {}
    /\ LET changed == {w \in Workspaces : pending[w] # {}} IN
       /\ debounce' = [w \in Workspaces |->
                         IF w \in changed THEN ObserveChange(debounce[w], generation[w], pending[w])
                         ELSE debounce[w]]
       /\ manager' = [w \in Workspaces |->
                        IF w \in changed THEN MarkDirty(manager[w], generation[w]) ELSE manager[w]]
       /\ status' = [w \in Workspaces |-> IF w \in changed THEN "Dirty" ELSE status[w]]
    /\ pending' = [w \in Workspaces |-> {}]
    /\ UNCHANGED <<watched, unscanned, channel, generation, due, job, snapshots, published, workVars>>

Elapsed(age, interval) == age # None /\ age >= interval

\* take_due_checkpoint's reason is the interval that has passed.
CheckpointDue(d) ==
    /\ d.paths # {}
    /\ \/ Elapsed(d.firstDirty, MaxDirty)
       \/ /\ Elapsed(d.lastDirty, FirstQuiet)
          /\ d.lastCheckpoint = None \/ Elapsed(d.lastCheckpoint, MinInterval)

PublishDue(d) ==
    /\ d.publish # None
    /\ \/ Elapsed(d.firstUnpublished, MaxPublish)
       \/ Elapsed(d.lastUnpublished, PublishQuiet)

TakeCheckpoint(d) ==
    [d EXCEPT !.paths = {}, !.firstDirty = None, !.lastDirty = None, !.lastCheckpoint = 0]
TakePublish(d) ==
    [d EXCEPT !.publish = None, !.firstUnpublished = None, !.lastUnpublished = None]

\* Takes the checkpoints of C and the publishes of P out of the debouncer.
Drain(C, P) ==
    /\ debounce' = [w \in Workspaces |->
                      LET d == IF w \in C THEN TakeCheckpoint(debounce[w]) ELSE debounce[w]
                      IN IF w \in P THEN TakePublish(d) ELSE d]
    /\ due' = {[workspace |-> w, generation |-> debounce[w].generation,
                paths |-> debounce[w].paths] : w \in C}
    /\ published' = [w \in Workspaces |-> IF w \in P THEN debounce[w].publish ELSE published[w]]
    /\ UNCHANGED <<watcherVars, managerVars, workVars>>

LoopIdle == due = {} /\ job = NoJob

\* drain_due
DrainDue ==
    LET C == {w \in Workspaces : CheckpointDue(debounce[w])}
        P == {w \in Workspaces : PublishDue(debounce[w])} IN
    LoopIdle /\ C \cup P # {} /\ Drain(C, P)

\* flush_all, for an explicit checkpoint, a handoff, sleep or lock.
FlushAll ==
    LET C == {w \in Workspaces : debounce[w].paths # {}}
        P == {w \in Workspaces : debounce[w].publish # None} IN
    LoopIdle /\ C \cup P # {} /\ Drain(C, P)

CompleteCheckpoint(d, g) ==
    [d EXCEPT !.firstUnpublished = OrNow(@), !.lastUnpublished = 0,
              !.publish = IF @ = None THEN g ELSE Larger(@, g)]

Older(age) == IF age = None \/ age = AgeCap THEN age ELSE age + 1

Tick ==
    /\ debounce' = [w \in Workspaces |->
         [debounce[w] EXCEPT !.firstDirty = Older(@), !.lastDirty = Older(@),
                             !.lastCheckpoint = Older(@), !.firstUnpublished = Older(@),
                             !.lastUnpublished = Older(@)]]
    /\ UNCHANGED <<watcherVars, due, managerVars, published, workVars>>

-----------------------------------------------------------------------------
(* handle_checkpoint                                                       *)

Handling(c, pc, outcome) ==
    /\ due' = due \ {c}
    /\ job' = [pc |-> pc, checkpoint |-> c, outcome |-> outcome]

\* checkpoint_if_changed: a new snapshot holds everything in the workspace,
\* the paths the debouncer named or not.
CheckpointCreates(c) ==
    LET w == c.workspace IN
    /\ job = NoJob
    /\ unsaved[w] # {} \/ snapshots[w] = "none"
    /\ Handling(c, IF UseAnchor THEN "import" ELSE "record", "Created")
    /\ snapshots' = [snapshots EXCEPT ![w] = "local"]
    /\ unsaved' = [unsaved EXCEPT ![w] = {}]
    /\ owed' = [owed EXCEPT ![w] = {}]
    /\ UNCHANGED <<watcherVars, debounce, manager, status, published>>

CheckpointUnchanged(c) ==
    /\ job = NoJob
    /\ unsaved[c.workspace] = {} /\ snapshots[c.workspace] # "none"
    /\ Handling(c, "record", "Unchanged")
    /\ UNCHANGED <<watcherVars, debounce, manager, status, snapshots, published, workVars>>

\* No manifest, a project that does not match, a Git or store error.
CheckpointFails(c) ==
    /\ job = NoJob
    /\ Handling(c, "record", "Failed")
    /\ UNCHANGED <<watcherVars, debounce, manager, status, snapshots, published, workVars>>

\* import_snapshot_from_store, only for a snapshot that was created.
ImportToAnchor ==
    /\ job.pc = "import"
    /\ \/ /\ snapshots' = [snapshots EXCEPT ![job.checkpoint.workspace] = "anchored"]
          /\ job' = [job EXCEPT !.pc = "record"]
       \/ /\ job' = [job EXCEPT !.pc = "record", !.outcome = "Failed"]
          /\ UNCHANGED snapshots
    /\ UNCHANGED <<watcherVars, debounce, due, manager, status, published, workVars>>

\* record_success, then record_checkpoint_completed.
RecordSuccess ==
    LET w == job.checkpoint.workspace
        g == job.checkpoint.generation IN
    /\ job.pc = "record"
    /\ job.outcome # "Failed"
    /\ manager' = [manager EXCEPT ![w] =
                     [dirty |-> FALSE, observed |-> Larger(manager[w].observed, g),
                      checkpointed |-> g, failures |-> 0]]
    /\ status' = [status EXCEPT ![w] = IF job.outcome = "Created" THEN "Protected" ELSE "Unchanged"]
    /\ debounce' = [debounce EXCEPT ![w] = CompleteCheckpoint(@, g)]
    /\ job' = NoJob
    /\ UNCHANGED <<watcherVars, due, snapshots, published, workVars>>

\* Mutant: a failed checkpoint is recorded without its status event.
RecordFailureSilently ==
    LET w == job.checkpoint.workspace IN
    /\ job.pc = "record"
    /\ job.outcome = "Failed"
    /\ manager' = [manager EXCEPT ![w] = MarkDirty(@, job.checkpoint.generation)]
    /\ job' = NoJob
    /\ UNCHANGED <<watcherVars, debounce, due, status, snapshots, published, workVars>>

RecordFailure ==
    LET w == job.checkpoint.workspace
        m == manager[w] IN
    /\ job.pc = "record"
    /\ job.outcome = "Failed"
    /\ manager' = [manager EXCEPT ![w] =
                     [MarkDirty(m, job.checkpoint.generation) EXCEPT
                        !.failures = IF m.failures < Threshold THEN m.failures + 1 ELSE m.failures]]
    /\ status' = [status EXCEPT ![w] = "Failed"]
    /\ job' = NoJob
    /\ UNCHANGED <<watcherVars, debounce, due, snapshots, published, workVars>>

-----------------------------------------------------------------------------
Init ==
    /\ watched = {}
    /\ unscanned = [w \in Workspaces |-> {}]
    /\ channel = <<>>
    /\ generation = [w \in Workspaces |-> 0]
    /\ pending = [w \in Workspaces |-> {}]
    /\ debounce = [w \in Workspaces |-> NewDebounce]
    /\ due = {}
    /\ job = NoJob
    /\ manager = [w \in Workspaces |-> NewManager]
    /\ status = [w \in Workspaces |-> "None"]
    /\ snapshots = [w \in Workspaces |-> "none"]
    /\ published = [w \in Workspaces |-> 0]
    /\ unsaved = [w \in Workspaces |-> {}]
    /\ owed = [w \in Workspaces |-> {}]

HandleCheckpoint ==
    \E c \in due : CheckpointCreates(c) \/ CheckpointUnchanged(c) \/ CheckpointFails(c)

Next ==
    \/ \E w \in Workspaces :
         \/ \E p \in Paths : Edit(w, p)
         \/ Watch(w) \/ Unwatch(w) \/ PollOnce(w)
    \/ ObserveRawEvent \/ DrainCoalesced \/ DrainDue \/ FlushAll \/ Tick
    \/ HandleCheckpoint \/ ImportToAnchor \/ RecordSuccess \/ RecordFailure

Spec == Init /\ [][Next]_vars

\* The watcher's thread and the agent's loop keep running, and time passes.
\* Edits, flushes, failures and the watch of a workspace are nobody's duty.
Fairness ==
    /\ \A w \in Workspaces : WF_vars(PollOnce(w))
    /\ WF_vars(ObserveRawEvent)
    /\ WF_vars(DrainCoalesced)
    /\ WF_vars(DrainDue)
    /\ WF_vars(HandleCheckpoint)
    /\ WF_vars(ImportToAnchor \/ RecordSuccess \/ RecordFailure)
    /\ WF_vars(Tick)

FairSpec == Spec /\ Fairness
-----------------------------------------------------------------------------
(* Properties                                                              *)

\* The paths of w that some part of the pipeline still has to deal with.
InPipeline(w) ==
    unscanned[w] \cup pending[w] \cup debounce[w].paths
      \cup (UNION {channel[i].paths : i \in {j \in DOMAIN channel : channel[j].workspace = w}})
      \cup (UNION {c.paths : c \in {d \in due : d.workspace = w}})

Failing(w) == job # NoJob /\ job.checkpoint.workspace = w /\ job.outcome = "Failed"

(* No edit is dropped between the parts: a path edited while its workspace *)
(* was watched, and not yet in a snapshot, is on its way to a checkpoint,  *)
(* or the workspace is dirty because a checkpoint failed ("Background      *)
(* failures surface as protection status").                                *)
NoEditForgotten ==
    \A w \in Workspaces :
      \/ owed[w] \subseteq InPipeline(w)
      \/ Failing(w)
      \/ manager[w].dirty /\ (status[w] = "Failed" \/ InPipeline(w) # {})

(* The max dirty interval does its work: however the user keeps editing,   *)
(* an edit of a watched workspace gets into a snapshot, or its checkpoint  *)
(* is reported as failed.                                                  *)
EditsGetProtected ==
    \A w \in Workspaces : owed[w] # {} ~> owed[w] = {} \/ status[w] = "Failed"
=============================================================================
