---------------------------- MODULE SnapshotStore ----------------------------
(***************************************************************************)
(* One project's snapshot store on a device (snapshot_store.rs): a bare     *)
(* repository that holds two refs per snapshot, and the snapshots table.    *)
(* The CLI, the agent's requests and the background worker each open the    *)
(* store for themselves, so the git commands and the SQL statements of      *)
(* several checkpoints and of a prune interleave freely; only what runs in  *)
(* one SQL statement or transaction is one step.  A process may stop        *)
(* between any two steps: Stop is a crash and every `?` that returns early. *)
(*                                                                          *)
(* Every snapshot gets an id of its own (the hash includes the time in      *)
(* nanoseconds); ids are numbered in the order of their capture.  No caller *)
(* sets parent_snapshot_id before store_snapshot, so it is always read.     *)
(***************************************************************************)
EXTENDS Retention, Sequences

CONSTANTS
    Writers,           \* processes that take checkpoints
    Pruners,           \* processes that execute pruning plans
    Hashes,            \* semantic states of the worktree (state_hash)
    SizeOf,            \* estimated size of the snapshot with a given id
    Usages, FreeDisks, \* what the planner's caller may measure
    MaxSnapshots,      \* bound: captures in a behaviour
    MaxStops           \* bound: crashes and errors in a behaviour

ASSUME StoreAssumption ==
    /\ SizeOf \in [1 .. MaxSnapshots -> Nat]
    /\ Usages \cup FreeDisks \subseteq Nat
    /\ {MaxSnapshots, MaxStops} \subseteq Nat
    /\ None \notin Nat

VARIABLES
    snaps,    \* state_hash of every capture so far
    source,   \* snapshot refs in the source worktrees
    refs,     \* snapshot refs in the store's bare repository
    rows,     \* the snapshots table: id -> [parent, seq, pinned]
    writer,   \* a checkpoint's local variables, by process
    pruner,   \* a prune's local variables, by process
    dropped,  \* history: snapshots whose refs some process set out to delete
    stops     \* bound: crashes and errors so far

vars == <<snaps, source, refs, rows, writer, pruner, dropped, stops>>

Kinds == {"index", "work"}
Ids == 1 .. MaxSnapshots
RefsOf(id) == {id} \X Kinds

\* unix_seconds() at the capture: the clock moves on by one per capture.
CreatedAt(id) == id

IdleWriter == [pc |-> "idle", id |-> None, pinned |-> FALSE, parent |-> None]

IdlePruner == [pc |-> "idle", todo |-> {}, latest |-> None, cur |-> None]

-----------------------------------------------------------------------------
\* latest_snapshot: ORDER BY sequence_number DESC LIMIT 1.
IsNewest(id) ==
    id \in DOMAIN rows /\ \A j \in DOMAIN rows : rows[j].seq <= rows[id].seq
LatestId ==
    IF DOMAIN rows = {} THEN None ELSE CHOOSE id \in DOMAIN rows : IsNewest(id)

\* COALESCE(MAX(sequence_number), 0) + 1
NextSequence == IF DOMAIN rows = {} THEN 1 ELSE rows[LatestId].seq + 1

\* FOREIGN KEY(parent_snapshot_id) REFERENCES snapshots(snapshot_id)
SnapshotHasChildren(id) == \E j \in DOMAIN rows : rows[j].parent = id

Init ==
    /\ snaps = <<>>
    /\ source = {}
    /\ refs = {}
    /\ rows = <<>>
    /\ writer = [w \in Writers |-> IdleWriter]
    /\ pruner = [p \in Pruners |-> IdlePruner]
    /\ dropped = {}
    /\ stops = 0

-----------------------------------------------------------------------------
(* Checkpoints *)

StartCheckpoint(w, hash, pinned, pc) ==
    LET id == Len(snaps) + 1 IN
    /\ writer[w].pc = "idle"
    /\ Len(snaps) < MaxSnapshots
    /\ snaps' = Append(snaps, hash)
    /\ source' = source \cup RefsOf(id)
    /\ writer' = [writer EXCEPT ![w] =
                    [pc |-> pc, id |-> id, pinned |-> pinned, parent |-> None]]
    /\ UNCHANGED <<refs, rows, pruner, dropped, stops>>

\* Mutant: the row is published without its objects.
CheckpointSkipsImport(w, hash, pinned) == StartCheckpoint(w, hash, pinned, "parent")

\* checkpoint: create_snapshot writes both refs in the source worktree.
Checkpoint(w, hash, pinned) == StartCheckpoint(w, hash, pinned, "import")

\* checkpoint_if_changed, as the background worker calls it.
CheckpointIfChanged(w, hash) == StartCheckpoint(w, hash, FALSE, "compare")

\* The latest snapshot already holds this state: its source refs are removed
\* and nothing is stored.
CompareLatest(w) ==
    /\ writer[w].pc = "compare"
    /\ LET same == DOMAIN rows # {} /\ snaps[LatestId] = snaps[writer[w].id]
       IN  /\ writer' = [writer EXCEPT ![w].pc =
                             IF same THEN "drop-index" ELSE "import"]
           /\ dropped' = IF same THEN dropped \cup {writer[w].id} ELSE dropped
    /\ UNCHANGED <<snaps, source, refs, rows, pruner, stops>>

\* Mutant: only the index ref is fetched.
ImportIndexOnly(w) ==
    /\ writer[w].pc = "import"
    /\ refs' = refs \cup {<<writer[w].id, "index">>}
    /\ writer' = [writer EXCEPT ![w].pc = "parent"]
    /\ UNCHANGED <<snaps, source, rows, pruner, dropped, stops>>

\* import_snapshot_refs: git fetch of both refs into the bare repository.
ImportSnapshotRefs(w) ==
    /\ writer[w].pc = "import"
    /\ refs' = refs \cup RefsOf(writer[w].id)
    /\ writer' = [writer EXCEPT ![w].pc = "parent"]
    /\ UNCHANGED <<snaps, source, rows, pruner, dropped, stops>>

\* store_snapshot reads the parent outside the transaction that inserts.
ReadParent(w) ==
    /\ writer[w].pc = "parent"
    /\ writer' = [writer EXCEPT ![w].pc = "insert", ![w].parent = LatestId]
    /\ UNCHANGED <<snaps, source, refs, rows, pruner, dropped, stops>>

ParentAccepted(parent) == parent # None => parent \in DOMAIN rows

\* Mutant: foreign keys are left off, SQLite's default.
InsertUnchecked(w) ==
    /\ writer[w].pc = "insert"
    /\ rows' = [id \in DOMAIN rows \cup {writer[w].id} |->
                  IF id = writer[w].id
                  THEN [parent |-> writer[w].parent, seq |-> NextSequence,
                        pinned |-> writer[w].pinned]
                  ELSE rows[id]]
    /\ writer' = [writer EXCEPT ![w].pc = "drop-index"]
    /\ UNCHANGED <<snaps, source, refs, pruner, dropped, stops>>

\* insert_snapshot: one transaction; the foreign key refuses a parent that is
\* no longer in the table, and the checkpoint fails.
InsertSnapshot(w) ==
    /\ writer[w].pc = "insert"
    /\ \/ /\ ParentAccepted(writer[w].parent)
          /\ rows' = [id \in DOMAIN rows \cup {writer[w].id} |->
                        IF id = writer[w].id
                        THEN [parent |-> writer[w].parent, seq |-> NextSequence,
                              pinned |-> writer[w].pinned]
                        ELSE rows[id]]
          /\ writer' = [writer EXCEPT ![w].pc = "drop-index"]
       \/ /\ ~ParentAccepted(writer[w].parent)
          /\ rows' = rows
          /\ writer' = [writer EXCEPT ![w] = IdleWriter]
    /\ UNCHANGED <<snaps, source, refs, pruner, dropped, stops>>

\* remove_source_snapshot_refs: two git commands.
DropSourceIndexRef(w) ==
    /\ writer[w].pc = "drop-index"
    /\ source' = source \ {<<writer[w].id, "index">>}
    /\ writer' = [writer EXCEPT ![w].pc = "drop-work"]
    /\ UNCHANGED <<snaps, refs, rows, pruner, dropped, stops>>

DropSourceWorkRef(w) ==
    /\ writer[w].pc = "drop-work"
    /\ source' = source \ {<<writer[w].id, "work">>}
    /\ writer' = [writer EXCEPT ![w] = IdleWriter]
    /\ UNCHANGED <<snaps, refs, rows, pruner, dropped, stops>>

\* A crash or an error.  The fetch updates its refs one at a time, so a stop
\* in the middle of it may leave one of them.
StopCheckpoint(w) ==
    /\ writer[w].pc # "idle"
    /\ stops < MaxStops
    /\ \E imported \in SUBSET RefsOf(writer[w].id) :
         /\ writer[w].pc # "import" => imported = {}
         /\ refs' = refs \cup imported
    /\ writer' = [writer EXCEPT ![w] = IdleWriter]
    /\ stops' = stops + 1
    /\ UNCHANGED <<snaps, source, rows, pruner, dropped>>

-----------------------------------------------------------------------------
(* Pruning *)

\* SnapshotRetentionEntry::from_stored over list_snapshots.
Entries ==
    [id \in DOMAIN rows |->
        [parent |-> rows[id].parent, seq |-> rows[id].seq,
         pinned |-> rows[id].pinned, created |-> CreatedAt(id),
         size |-> SizeOf[id]]]

\* What the planner's caller may pass, a second after the last capture.  What
\* it knows of the lease and of handoffs is its own: a canonical latest, or a
\* protection on either side of its expiry, or neither.
PlanInputs ==
    LET now == Len(snaps) + 1
        protections == { {HandoffProtection(id, at)} : id \in DOMAIN rows,
                            at \in (now - ProtectSeconds - 1) .. now }
        known == { [canonical |-> id, protections |-> {}] :
                     id \in DOMAIN rows \cup {None} }
                 \cup { [canonical |-> None, protections |-> p] : p \in protections }
    IN  { [entries |-> Entries, canonical |-> k.canonical, protections |-> k.protections,
           usage |-> usage, free |-> free, now |-> now] :
            k \in known, usage \in Usages, free \in FreeDisks }

\* The caller lists the store and plans.  The decisions keep the order of the
\* listing, so each of them remembers the sequence number it was listed with.
Plan(p) ==
    /\ pruner[p].pc = "idle"
    /\ \E in \in PlanInputs :
         pruner' = [pruner EXCEPT ![p].pc = "planned",
                      ![p].todo = { <<rows[id].seq, id>> : id \in PlannedDeletes(in) }]
    /\ UNCHANGED <<snaps, source, refs, rows, writer, dropped, stops>>

\* prune_snapshots reads the latest snapshot once, before its loop.
StartPrune(p) ==
    /\ pruner[p].pc = "planned"
    /\ pruner' = [pruner EXCEPT ![p].pc = "check", ![p].latest = LatestId]
    /\ UNCHANGED <<snaps, source, refs, rows, writer, dropped, stops>>

\* Mutant: the refusal of the latest snapshot is missing.
PrunableEvenLatest(p, id) ==
    /\ id \in DOMAIN rows
    /\ ~rows[id].pinned
    /\ ~SnapshotHasChildren(id)

Prunable(p, id) ==
    /\ id \in DOMAIN rows
    /\ ~rows[id].pinned
    /\ id # pruner[p].latest
    /\ ~SnapshotHasChildren(id)

\* The loop's next decision, oldest first: a refusal ends the whole prune.
CheckNext(p) ==
    /\ pruner[p].pc = "check"
    /\ \E d \in pruner[p].todo :
         /\ \A e \in pruner[p].todo : d[1] <= e[1]
         /\ \/ /\ Prunable(p, d[2])
               /\ pruner' = [pruner EXCEPT ![p].pc = "index", ![p].cur = d[2],
                                           ![p].todo = @ \ {d}]
               /\ dropped' = dropped \cup {d[2]}
            \/ /\ ~Prunable(p, d[2])
               /\ pruner' = [pruner EXCEPT ![p] = IdlePruner]
               /\ dropped' = dropped
    /\ UNCHANGED <<snaps, source, refs, rows, writer, stops>>

\* delete_snapshot_refs: the refs go before the row, one git command each.
DeleteIndexRef(p) ==
    /\ pruner[p].pc = "index"
    /\ refs' = refs \ {<<pruner[p].cur, "index">>}
    /\ pruner' = [pruner EXCEPT ![p].pc = "work"]
    /\ UNCHANGED <<snaps, source, rows, writer, dropped, stops>>

DeleteWorkRef(p) ==
    /\ pruner[p].pc = "work"
    /\ refs' = refs \ {<<pruner[p].cur, "work">>}
    /\ pruner' = [pruner EXCEPT ![p].pc = "row"]
    /\ UNCHANGED <<snaps, source, rows, writer, dropped, stops>>

\* DELETE ... AND pinned = 0: no row deleted, or a child that the foreign key
\* finds, ends the prune with an error.
DeleteRow(p) ==
    LET id == pruner[p].cur
        deletable == id \in DOMAIN rows /\ ~rows[id].pinned /\ ~SnapshotHasChildren(id)
    IN
    /\ pruner[p].pc = "row"
    /\ \/ /\ deletable
          /\ rows' = [j \in DOMAIN rows \ {id} |-> rows[j]]
          /\ pruner' = [pruner EXCEPT ![p].pc = "check", ![p].cur = None]
       \/ /\ ~deletable
          /\ rows' = rows
          /\ pruner' = [pruner EXCEPT ![p] = IdlePruner]
    /\ UNCHANGED <<snaps, source, refs, writer, dropped, stops>>

FinishPrune(p) ==
    /\ pruner[p].pc = "check"
    /\ pruner[p].todo = {}
    /\ pruner' = [pruner EXCEPT ![p] = IdlePruner]
    /\ UNCHANGED <<snaps, source, refs, rows, writer, dropped, stops>>

StopPrune(p) ==
    /\ pruner[p].pc # "idle"
    /\ stops < MaxStops
    /\ pruner' = [pruner EXCEPT ![p] = IdlePruner]
    /\ stops' = stops + 1
    /\ UNCHANGED <<snaps, source, refs, rows, writer, dropped>>

-----------------------------------------------------------------------------
CheckpointStep(w) ==
    \/ \E hash \in Hashes : \/ \E pinned \in BOOLEAN : Checkpoint(w, hash, pinned)
                            \/ CheckpointIfChanged(w, hash)
    \/ CompareLatest(w) \/ ImportSnapshotRefs(w) \/ ReadParent(w)
    \/ InsertSnapshot(w) \/ DropSourceIndexRef(w) \/ DropSourceWorkRef(w)
    \/ StopCheckpoint(w)

PruneStep(p) ==
    \/ Plan(p) \/ StartPrune(p) \/ CheckNext(p)
    \/ DeleteIndexRef(p) \/ DeleteWorkRef(p) \/ DeleteRow(p)
    \/ FinishPrune(p) \/ StopPrune(p)

Next ==
    \/ \E w \in Writers : CheckpointStep(w)
    \/ \E p \in Pruners : PruneStep(p)

Spec == Init /\ [][Next]_vars

-----------------------------------------------------------------------------
(* Properties *)

WriterState ==
    [pc : {"idle", "compare", "import", "parent", "insert", "drop-index", "drop-work"},
     id : Ids \cup {None}, pinned : BOOLEAN, parent : Ids \cup {None}]

PrunerState ==
    [pc : {"idle", "planned", "check", "index", "work", "row"},
     todo : SUBSET ((Nat \ {0}) \X Ids), latest : Ids \cup {None}, cur : Ids \cup {None}]

TypeOK ==
    /\ snaps \in Seq(Hashes)
    /\ Len(snaps) <= MaxSnapshots
    /\ source \subseteq Ids \X Kinds
    /\ refs \subseteq Ids \X Kinds
    /\ DOMAIN rows \subseteq 1 .. Len(snaps)
    /\ \A id \in DOMAIN rows :
         rows[id] \in [parent : Ids \cup {None}, seq : Nat \ {0}, pinned : BOOLEAN]
    /\ writer \in [Writers -> WriterState]
    /\ pruner \in [Pruners -> PrunerState]
    /\ dropped \subseteq Ids
    /\ stops \in 0 .. MaxStops

\* The newest row and every pinned row can always be restored: both their refs
\* are in the bare repository, whatever checkpoint or prune was interrupted or
\* overtaken (store_snapshot imports before it inserts; prune_snapshots deletes
\* refs before rows and refuses pinned and latest snapshots).
KeptSnapshotsRestorable ==
    \A id \in DOMAIN rows :
        rows[id].pinned \/ IsNewest(id) => RefsOf(id) \subseteq refs

\* The newest row is never pruned, so a sequence number is never given twice,
\* although prune_snapshots reads the latest snapshot only once.
SequenceNeverFallsBack == [][NextSequence' >= NextSequence]_vars

\* Lineage is grounded: every parent is in the table and is older than its
\* child, although the parent is read before the inserting transaction and may
\* be pruned in between.
LineageGrounded ==
    \A id \in DOMAIN rows : rows[id].parent # None =>
        /\ rows[id].parent \in DOMAIN rows
        /\ rows[rows[id].parent].seq < rows[id].seq

\* A row of the table is worth what it names: its refs and its parent.
RowsAreWhole == KeptSnapshotsRestorable /\ LineageGrounded

\* Captured work is never unreachable: until a checkpoint finds it unchanged or
\* a prune deletes it, each of its two commits has a ref in the source worktree
\* or in the store, at every point where a checkpoint may stop.
CapturedWorkReachable ==
    \A id \in 1 .. Len(snaps) : id \notin dropped =>
        RefsOf(id) \subseteq source \cup refs

\* The planner's properties are about every input it can be given; they are
\* looked at when no process is in the middle of anything.
Quiet == /\ \A w \in Writers : writer[w].pc = "idle"
         /\ \A p \in Pruners : pruner[p].pc = "idle"

\* A plan never orphans what it keeps: the parent of a snapshot that
\* plan_snapshot_pruning keeps is kept, under pressure too.
PlanKeepsLineage ==
    Quiet => \A in \in PlanInputs :
        LET deletes == PlannedDeletes(in) IN
        \A id \in DOMAIN rows \ deletes : rows[id].parent \notin deletes

\* A plan reclaims its target or everything it may, and under pressure it
\* gives up nothing that the target does not need.
PlanMeetsTarget ==
    Quiet => \A in \in PlanInputs :
        LET deletes == PlannedDeletes(in)
            pressed == deletes \cap Retained(in)
        IN  /\ \/ Reclaimed(in, deletes) >= TargetReclaim(in)
               \/ DOMAIN rows \ deletes \subseteq HardRetained(in, Retained(in))
            /\ \A id \in pressed :
                 (\A j \in pressed : rows[j].seq <= rows[id].seq)
                    => Reclaimed(in, deletes \ {id}) < TargetReclaim(in)

\* Whatever it is given, a plan of plan_snapshot_pruning reclaims what it has
\* to, gives up no more, and orphans nothing that it keeps.
PlansAreSound == PlanKeepsLineage /\ PlanMeetsTarget
=============================================================================
