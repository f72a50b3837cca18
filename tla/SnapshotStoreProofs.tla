------------------------- MODULE SnapshotStoreProofs -------------------------
(***************************************************************************)
(* Proofs about SnapshotStore, for any number of concurrent checkpoints and *)
(* prunes and any retention policy: the kept snapshots stay restorable, the *)
(* lineage stays grounded, sequence numbers never fall back and captured    *)
(* work stays reachable, whatever a prune's plan lists.  And about the      *)
(* plans themselves (Retention): they are sound for every input.            *)
(* And about SnapshotIdentity: whatever the user does between the commands  *)
(* of a capture, only a change of the index makes a snapshot that cannot be *)
(* verified, and a capture left alone keeps all of the work, for any files, *)
(* contents, branches and any number of steps.                              *)
(***************************************************************************)
EXTENDS SnapshotStore, SnapshotIdentity, DataInduction, TLAPS

\* A snapshot whose row is still to come.
BeforeInsert == {"compare", "import", "parent", "insert"}
IsPending(id) ==
    \E w \in Writers : writer[w].pc \in BeforeInsert /\ writer[w].id = id

\* The table has a newest row, and no two rows share a sequence number.
TableOrdered ==
    /\ DOMAIN rows # {} => \E id \in DOMAIN rows : IsNewest(id)
    /\ \A i, j \in DOMAIN rows : rows[i].seq = rows[j].seq => i = j

\* A checkpoint owns its snapshot until it has inserted the row, and has
\* imported the refs before it reads the parent.
CheckpointsOwn ==
    \A w \in Writers :
        writer[w].pc \in BeforeInsert =>
            /\ writer[w].id \in 1 .. Len(snaps)
            /\ writer[w].id \notin DOMAIN rows
            /\ writer[w].pc \in {"parent", "insert"} => RefsOf(writer[w].id) \subseteq refs
            /\ \A v \in Writers :
                 (v # w /\ writer[v].pc \in BeforeInsert) =>
                    writer[v].id # writer[w].id

Outranked(id) == \E j \in DOMAIN rows : rows[j].seq > rows[id].seq

\* What a prune still has to do concerns rows that were once inserted; apart
\* from the latest it refuses, they are not the newest.
PruneOutranked(q) ==
    /\ \A d \in q.todo :
         /\ d[2] \in 1 .. Len(snaps) /\ ~IsPending(d[2])
         /\ (q.pc \notin {"idle", "planned"} /\ d[2] \in DOMAIN rows)
               => d[2] = q.latest \/ Outranked(d[2])
    /\ q.pc \in {"index", "work", "row"} =>
         /\ q.cur \in 1 .. Len(snaps) /\ ~IsPending(q.cur)
         /\ q.cur \in DOMAIN rows => ~rows[q.cur].pinned /\ Outranked(q.cur)

PrunesOutranked == \A p \in Pruners : PruneOutranked(pruner[p])

Inv == /\ TypeOK
       /\ TableOrdered
       /\ CheckpointsOwn
       /\ PrunesOutranked
       /\ KeptSnapshotsRestorable
       /\ LineageGrounded

-----------------------------------------------------------------------------
\* latest_snapshot returns the newest row whenever there is one.
LEMMA LatestIsNewest ==
    ASSUME TypeOK, TableOrdered
    PROVE  /\ LatestId \in Ids \cup {None}
           /\ DOMAIN rows # {} => IsNewest(LatestId) /\ LatestId \in DOMAIN rows
<1>1. CASE DOMAIN rows = {}
  BY <1>1 DEF LatestId
<1>2. CASE DOMAIN rows # {}
  <2>1. \E id \in DOMAIN rows : IsNewest(id)
    BY <1>2 DEF TableOrdered
  <2>2. LatestId \in DOMAIN rows /\ IsNewest(LatestId)
    BY <1>2, <2>1 DEF LatestId
  <2>3. DOMAIN rows \subseteq Ids
    BY StoreAssumption DEF TypeOK, Ids
  <2> QED BY <2>2, <2>3
<1> QED BY <1>1, <1>2

\* The next sequence number is above every row's.
LEMMA NextIsAbove ==
    ASSUME TypeOK, TableOrdered
    PROVE  /\ NextSequence \in Nat \ {0}
           /\ \A j \in DOMAIN rows : rows[j].seq < NextSequence
<1>1. CASE DOMAIN rows = {}
  BY <1>1 DEF NextSequence
<1>2. CASE DOMAIN rows # {}
  <2>1. IsNewest(LatestId) /\ LatestId \in DOMAIN rows
    BY <1>2, LatestIsNewest
  <2>2. \A j \in DOMAIN rows : rows[j].seq \in Nat \ {0}
    BY DEF TypeOK
  <2> QED BY <1>2, <2>1, <2>2 DEF NextSequence, IsNewest
<1> QED BY <1>1, <1>2

\* Deleting an outranked row changes neither the newest row nor who outranks
\* whom, as far as it is still there.
LEMMA DeletingOutranked ==
    ASSUME TypeOK, TableOrdered,
           NEW x \in DOMAIN rows, Outranked(x),
           rows' = [j \in DOMAIN rows \ {x} |-> rows[j]]
    PROVE  /\ DOMAIN rows' = DOMAIN rows \ {x}
           /\ \A j \in DOMAIN rows' : rows'[j] = rows[j]
           /\ TableOrdered'
           /\ \A i \in DOMAIN rows' : Outranked(i) => Outranked(i)'
           /\ \A i \in DOMAIN rows' : IsNewest(i)' => IsNewest(i)
           /\ DOMAIN rows' # {} /\ LatestId' = LatestId
<1>1. DOMAIN rows' = DOMAIN rows \ {x} /\ \A j \in DOMAIN rows' : rows'[j] = rows[j]
  OBVIOUS
<1>2. \A j \in DOMAIN rows : rows[j].seq \in Nat
  BY DEF TypeOK
<1>3. PICK n \in DOMAIN rows : \A j \in DOMAIN rows : rows[j].seq <= rows[n].seq
  BY DEF TableOrdered, IsNewest
<1>4. n # x /\ n \in DOMAIN rows'
  BY <1>1, <1>2, <1>3 DEF Outranked
<1>5. \A i \in DOMAIN rows' : Outranked(i) => Outranked(i)'
  BY <1>1, <1>2, <1>3, <1>4 DEF Outranked
<1>6. \A i \in DOMAIN rows' : IsNewest(i)' => IsNewest(i)
  BY <1>1, <1>2, <1>3, <1>4 DEF IsNewest
<1>7. TableOrdered'
  BY <1>1, <1>3, <1>4 DEF TableOrdered, IsNewest
<1>8. LatestId' = LatestId
  <2>1. \A i \in DOMAIN rows : IsNewest(i) <=> i = n
    BY <1>2, <1>3 DEF IsNewest, TableOrdered
  <2>2. \A i \in DOMAIN rows' : IsNewest(i)' <=> i = n
    BY <1>1, <1>3, <1>4, <1>6, <2>1 DEF IsNewest
  <2>3. LatestId = n
    BY <2>1, <1>3 DEF LatestId
  <2>4. LatestId' = n
    BY <2>2, <1>4 DEF LatestId
  <2> QED BY <2>3, <2>4
<1> QED BY <1>1, <1>4, <1>5, <1>6, <1>7, <1>8

-----------------------------------------------------------------------------
\* An empty store satisfies the invariant.
LEMMA InitInv == Init => Inv
<1> SUFFICES ASSUME Init PROVE Inv
  OBVIOUS
<1>1. DOMAIN rows = {}
  BY DEF Init
<1>2. TypeOK
  <2>1. IdleWriter \in WriterState /\ IdlePruner \in PrunerState
    BY DEF IdleWriter, WriterState, IdlePruner, PrunerState
  <2> QED BY <1>1, <2>1, StoreAssumption DEF Init, TypeOK
<1>3. TableOrdered /\ KeptSnapshotsRestorable /\ LineageGrounded
  BY <1>1 DEF TableOrdered, KeptSnapshotsRestorable, LineageGrounded
<1>4. CheckpointsOwn
  BY DEF Init, CheckpointsOwn, IdleWriter, BeforeInsert
<1>5. PrunesOutranked
  BY DEF Init, PrunesOutranked, PruneOutranked, IdlePruner
<1> QED BY <1>2, <1>3, <1>4, <1>5 DEF Inv

-----------------------------------------------------------------------------
\* Steps that leave the table alone keep what is said of it.
LEMMA TableKept ==
    ASSUME rows' = rows, TableOrdered, LineageGrounded, KeptSnapshotsRestorable
    PROVE  /\ TableOrdered' /\ LineageGrounded'
           /\ refs \subseteq refs' => KeptSnapshotsRestorable'
<1>1. TableOrdered' /\ LineageGrounded'
  BY DEF TableOrdered, LineageGrounded, IsNewest
<1>2. refs \subseteq refs' => KeptSnapshotsRestorable'
  BY DEF KeptSnapshotsRestorable, IsNewest
<1> QED BY <1>1, <1>2

\* A checkpoint's step that inserts no row keeps what prunes rely on, if the
\* only snapshot that becomes pending is a new one.
LEMMA PrunesKept ==
    ASSUME PrunesOutranked, rows' = rows, pruner' = pruner,
           Len(snaps) \in Nat, Len(snaps') \in Nat, Len(snaps) <= Len(snaps'),
           \A id \in 1 .. Len(snaps) : IsPending(id)' => IsPending(id)
    PROVE  PrunesOutranked'
<1> SUFFICES ASSUME NEW p \in Pruners
             PROVE  /\ \A d \in pruner[p].todo :
                         /\ d[2] \in 1 .. Len(snaps') /\ ~IsPending(d[2])'
                         /\ (pruner[p].pc \notin {"idle", "planned"} /\ d[2] \in DOMAIN rows)
                               => d[2] = pruner[p].latest \/ Outranked(d[2])
                    /\ pruner[p].pc \in {"index", "work", "row"} =>
                         /\ pruner[p].cur \in 1 .. Len(snaps')
                         /\ ~IsPending(pruner[p].cur)'
                         /\ pruner[p].cur \in DOMAIN rows =>
                              ~rows[pruner[p].cur].pinned /\ Outranked(pruner[p].cur)
  BY DEF PrunesOutranked, PruneOutranked, Outranked
<1> QED BY DEF PrunesOutranked, PruneOutranked

\* create_snapshot: the new snapshot is nobody else's and in no plan.
LEMMA StartKeepsInv ==
    ASSUME Inv, NEW w \in Writers, NEW hash \in Hashes, NEW pinned \in BOOLEAN,
           NEW pc \in {"import", "compare"}, StartCheckpoint(w, hash, pinned, pc)
    PROVE  Inv'
<1> DEFINE id == Len(snaps) + 1
<1> USE DEF Inv
<1>1. /\ Len(snaps) \in Nat /\ snaps' \in Seq(Hashes) /\ Len(snaps') = id
      /\ id \in Ids /\ rows' = rows /\ refs' = refs /\ pruner' = pruner
      /\ dropped' = dropped /\ stops' = stops
  BY StoreAssumption DEF StartCheckpoint, TypeOK, Ids
<1>2. writer' = [writer EXCEPT ![w] =
                   [pc |-> pc, id |-> id, pinned |-> pinned, parent |-> None]]
  BY DEF StartCheckpoint
<1>3. TypeOK'
  <2>1. source' \subseteq Ids \X Kinds
    BY <1>1 DEF StartCheckpoint, TypeOK, RefsOf
  <2>2. writer' \in [Writers -> WriterState]
    BY <1>1, <1>2 DEF TypeOK, WriterState
  <2>3. Len(snaps') <= MaxSnapshots
    BY <1>1, StoreAssumption DEF Ids
  <2>4. DOMAIN rows' \subseteq 1 .. Len(snaps')
    BY <1>1 DEF TypeOK
  <2> QED BY <1>1, <2>1, <2>2, <2>3, <2>4 DEF TypeOK
<1>4. TableOrdered' /\ LineageGrounded' /\ KeptSnapshotsRestorable'
  BY <1>1, TableKept
<1>5. \A v \in Writers : v # w => writer'[v] = writer[v]
  BY <1>2 DEF TypeOK
<1>6. writer'[w].id = id /\ writer'[w].pc = pc
  BY <1>2 DEF TypeOK
<1>7. CheckpointsOwn'
  <2> SUFFICES ASSUME NEW v \in Writers, writer'[v].pc \in BeforeInsert
               PROVE  /\ writer'[v].id \in 1 .. Len(snaps')
                      /\ writer'[v].id \notin DOMAIN rows
                      /\ writer'[v].pc \in {"parent", "insert"} =>
                           RefsOf(writer'[v].id) \subseteq refs
                      /\ \A u \in Writers : (u # v /\ writer'[u].pc \in BeforeInsert)
                           => writer'[u].id # writer'[v].id
    BY <1>1 DEF CheckpointsOwn, RefsOf
  <2>1. id \notin DOMAIN rows
    BY <1>1 DEF TypeOK
  <2> QED BY <1>1, <1>5, <1>6, <2>1 DEF CheckpointsOwn
<1>8. PrunesOutranked'
  <2>1. \A i \in 1 .. Len(snaps) : IsPending(i)' => IsPending(i)
    BY <1>1, <1>5, <1>6 DEF IsPending
  <2> QED BY <1>1, <2>1, PrunesKept
<1> QED BY <1>3, <1>4, <1>7, <1>8

\* The steps of a checkpoint that insert no row and start nothing.
LEMMA QuietStepKeepsInv ==
    ASSUME Inv, NEW w \in Writers,
           \/ CompareLatest(w) \/ ImportSnapshotRefs(w) \/ ReadParent(w)
           \/ DropSourceIndexRef(w) \/ DropSourceWorkRef(w) \/ StopCheckpoint(w)
    PROVE  Inv'
<1> USE DEF Inv
<1>1. /\ snaps' = snaps /\ rows' = rows /\ pruner' = pruner /\ refs \subseteq refs'
      /\ source' \subseteq source
  BY DEF CompareLatest, ImportSnapshotRefs, ReadParent, DropSourceIndexRef,
         DropSourceWorkRef, StopCheckpoint
<1>2. Len(snaps) \in Nat /\ LatestId \in Ids \cup {None}
  BY LatestIsNewest DEF TypeOK
<1>3. /\ writer' \in [Writers -> WriterState]
      /\ \A v \in Writers : v # w => writer'[v] = writer[v]
      /\ writer'[w].pc \in BeforeInsert =>
           writer[w].pc \in BeforeInsert /\ writer'[w].id = writer[w].id
  <2>1. IdleWriter \in WriterState /\ IdleWriter.pc = "idle"
    BY DEF IdleWriter, WriterState
  <2>2. CASE CompareLatest(w)
    <3>1. PICK next \in {"drop-index", "import"} :
             writer' = [writer EXCEPT ![w].pc = next]
      BY <2>2 DEF CompareLatest
    <3>2. writer[w].pc \in BeforeInsert
      BY <2>2 DEF CompareLatest, BeforeInsert
    <3> QED BY <3>1, <3>2 DEF TypeOK, WriterState
  <2>3. CASE ImportSnapshotRefs(w)
    BY <2>3 DEF ImportSnapshotRefs, TypeOK, WriterState, BeforeInsert
  <2>4. CASE ReadParent(w)
    <3>1. writer' = [writer EXCEPT ![w] =
                       [writer[w] EXCEPT !.pc = "insert", !.parent = LatestId]]
      BY <2>4 DEF ReadParent, TypeOK
    <3>2. writer[w].pc \in BeforeInsert
      BY <2>4 DEF ReadParent, BeforeInsert
    <3> QED BY <3>1, <3>2, <1>2 DEF TypeOK, WriterState
  <2>5. CASE DropSourceIndexRef(w)
    BY <2>5 DEF DropSourceIndexRef, TypeOK, WriterState, BeforeInsert
  <2>6. CASE DropSourceWorkRef(w) \/ StopCheckpoint(w)
    BY <2>1, <2>6 DEF DropSourceWorkRef, StopCheckpoint, TypeOK, BeforeInsert
  <2> QED BY <2>2, <2>3, <2>4, <2>5, <2>6
<1>4. writer[w].pc \in BeforeInsert => writer[w].id \in Ids
  BY <1>2, StoreAssumption DEF CheckpointsOwn, TypeOK, Ids
<1>5. /\ refs' \subseteq Ids \X Kinds
      /\ dropped' \subseteq Ids
      /\ stops' \in 0 .. MaxStops
      /\ writer'[w].pc \in {"parent", "insert"} => RefsOf(writer[w].id) \subseteq refs'
  <2>1. CASE CompareLatest(w)
    BY <2>1, <1>4 DEF CompareLatest, TypeOK, WriterState, BeforeInsert
  <2>2. CASE ImportSnapshotRefs(w)
    BY <2>2, <1>4 DEF ImportSnapshotRefs, TypeOK, BeforeInsert, RefsOf
  <2>3. CASE ReadParent(w)
    BY <2>3 DEF ReadParent, TypeOK, CheckpointsOwn, BeforeInsert
  <2>4. CASE DropSourceIndexRef(w)
    BY <2>4 DEF DropSourceIndexRef, TypeOK, WriterState
  <2>5. CASE DropSourceWorkRef(w)
    BY <2>5 DEF DropSourceWorkRef, TypeOK, IdleWriter
  <2>6. CASE StopCheckpoint(w)
    <3>1. refs' \subseteq Ids \X Kinds
      <4>1. PICK imported \in SUBSET RefsOf(writer[w].id) :
              /\ writer[w].pc # "import" => imported = {}
              /\ refs' = refs \cup imported
        BY <2>6 DEF StopCheckpoint
      <4> QED BY <4>1, <1>4 DEF TypeOK, RefsOf, BeforeInsert
    <3>2. stops' \in 0 .. MaxStops /\ dropped' = dropped
      BY <2>6, StoreAssumption DEF StopCheckpoint, TypeOK
    <3>3. writer'[w].pc = "idle"
      BY <2>6 DEF StopCheckpoint, TypeOK, IdleWriter
    <3> QED BY <3>1, <3>2, <3>3 DEF TypeOK
  <2> QED BY <2>1, <2>2, <2>3, <2>4, <2>5, <2>6
<1>6. TypeOK'
  BY <1>1, <1>3, <1>5 DEF TypeOK
<1>7. TableOrdered' /\ LineageGrounded' /\ KeptSnapshotsRestorable'
  BY <1>1, TableKept
<1>8. CheckpointsOwn'
  <2> SUFFICES ASSUME NEW v \in Writers, writer'[v].pc \in BeforeInsert
               PROVE  /\ writer'[v].id \in 1 .. Len(snaps)
                      /\ writer'[v].id \notin DOMAIN rows
                      /\ writer'[v].pc \in {"parent", "insert"} =>
                           RefsOf(writer'[v].id) \subseteq refs'
                      /\ \A u \in Writers : (u # v /\ writer'[u].pc \in BeforeInsert)
                           => writer'[u].id # writer'[v].id
    BY <1>1 DEF CheckpointsOwn, RefsOf
  <2>1. writer[v].pc \in BeforeInsert /\ writer'[v].id = writer[v].id
    BY <1>3
  <2>2. writer'[v].pc \in {"parent", "insert"} => RefsOf(writer'[v].id) \subseteq refs'
    <3>1. CASE v = w
      BY <3>1, <1>5, <2>1
    <3>2. CASE v # w
      BY <3>2, <1>1, <1>3, <2>1 DEF CheckpointsOwn
    <3> QED BY <3>1, <3>2
  <2>3. \A u \in Writers : (u # v /\ writer'[u].pc \in BeforeInsert)
           => writer'[u].id # writer'[v].id
    BY <1>3, <2>1 DEF CheckpointsOwn
  <2> QED BY <2>1, <2>2, <2>3 DEF CheckpointsOwn
<1>9. PrunesOutranked'
  <2>1. \A i \in 1 .. Len(snaps) : IsPending(i)' => IsPending(i)
    BY <1>3 DEF IsPending
  <2> QED BY <1>1, <1>2, <2>1, PrunesKept
<1> QED BY <1>6, <1>7, <1>8, <1>9

\* insert_snapshot: a refused parent changes no row; an accepted row is the
\* newest, has both refs, and outranks every row a prune may be deleting.
LEMMA InsertKeepsInv ==
    ASSUME Inv, NEW w \in Writers, InsertSnapshot(w)
    PROVE  Inv' /\ NextSequence' >= NextSequence
<1> USE DEF Inv
<1>0. PICK id : id = writer[w].id
  OBVIOUS
<1>1. /\ snaps' = snaps /\ source' = source /\ refs' = refs /\ pruner' = pruner
      /\ dropped' = dropped /\ stops' = stops /\ writer[w].pc = "insert"
  BY DEF InsertSnapshot
<1>2. /\ Len(snaps) \in Nat /\ id \in 1 .. Len(snaps) /\ id \in Ids
      /\ id \notin DOMAIN rows /\ RefsOf(id) \subseteq refs
  BY <1>0, <1>1, StoreAssumption DEF CheckpointsOwn, BeforeInsert, TypeOK, Ids
<1>3. /\ NextSequence \in Nat \ {0}
      /\ \A j \in DOMAIN rows : rows[j].seq < NextSequence /\ rows[j].seq \in Nat
  BY NextIsAbove DEF TypeOK
<1>4. /\ writer' \in [Writers -> WriterState]
      /\ \A v \in Writers : v # w => writer'[v] = writer[v]
      /\ writer'[w].pc \notin BeforeInsert
  <2>1. \/ writer' = [writer EXCEPT ![w].pc = "drop-index"]
        \/ writer' = [writer EXCEPT ![w] = IdleWriter]
    BY DEF InsertSnapshot
  <2>2. IdleWriter \in WriterState /\ IdleWriter.pc = "idle"
    BY DEF IdleWriter, WriterState
  <2>3. CASE writer' = [writer EXCEPT ![w].pc = "drop-index"]
    BY <2>3 DEF TypeOK, WriterState, BeforeInsert
  <2>4. CASE writer' = [writer EXCEPT ![w] = IdleWriter]
    BY <2>2, <2>4 DEF TypeOK, BeforeInsert
  <2> QED BY <2>1, <2>3, <2>4
<1>5. CheckpointsOwn' \/ rows' # rows
  BY <1>1, <1>4 DEF CheckpointsOwn, RefsOf
<1>6. CASE rows' = rows
  <2>1. TypeOK'
    BY <1>1, <1>4, <1>6 DEF TypeOK
  <2>2. TableOrdered' /\ LineageGrounded' /\ KeptSnapshotsRestorable'
    BY <1>1, <1>6, TableKept
  <2>3. \A i \in 1 .. Len(snaps) : IsPending(i)' => IsPending(i)
    BY <1>4 DEF IsPending
  <2>4. PrunesOutranked'
    BY <1>1, <1>2, <1>6, <2>3, PrunesKept
  <2>5. NextSequence' = NextSequence
    BY <1>6 DEF NextSequence, LatestId, IsNewest
  <2> QED BY <1>3, <1>5, <1>6, <2>1, <2>2, <2>4, <2>5
<1>7. CASE rows' # rows
  <2>1. /\ ParentAccepted(writer[w].parent)
        /\ rows' = [i \in DOMAIN rows \cup {id} |->
                      IF i = id
                      THEN [parent |-> writer[w].parent, seq |-> NextSequence,
                            pinned |-> writer[w].pinned]
                      ELSE rows[i]]
    BY <1>0, <1>7 DEF InsertSnapshot
  <2>2. /\ DOMAIN rows' = DOMAIN rows \cup {id}
        /\ \A i \in DOMAIN rows : rows'[i] = rows[i]
        /\ rows'[id].seq = NextSequence
        /\ rows'[id].parent = writer[w].parent
        /\ rows'[id] \in [parent : Ids \cup {None}, seq : Nat \ {0}, pinned : BOOLEAN]
    <3>1. writer[w].parent \in Ids \cup {None} /\ writer[w].pinned \in BOOLEAN
      BY DEF TypeOK, WriterState
    <3> QED BY <1>2, <1>3, <2>1, <3>1
  <2>3. TypeOK'
    BY <1>1, <1>2, <1>4, <2>2 DEF TypeOK
  <2>4. \A j \in DOMAIN rows' : rows'[j].seq <= NextSequence /\ rows'[j].seq \in Nat
    BY <1>3, <2>2
  <2>5. IsNewest(id)'
    BY <2>2, <2>4 DEF IsNewest
  <2>6. TableOrdered'
    <3>1. \A i, j \in DOMAIN rows' : rows'[i].seq = rows'[j].seq => i = j
      BY <1>3, <2>2 DEF TableOrdered
    <3> QED BY <2>2, <2>5, <3>1 DEF TableOrdered
  <2>7. LineageGrounded'
    <3>1. writer[w].parent # None => writer[w].parent \in DOMAIN rows
      BY <2>1 DEF ParentAccepted
    <3> QED BY <1>2, <1>3, <2>2, <3>1 DEF LineageGrounded
  <2>8. \A i \in DOMAIN rows : ~IsNewest(i)' /\ Outranked(i)'
    BY <1>3, <2>2 DEF IsNewest, Outranked
  <2>9. KeptSnapshotsRestorable'
    BY <1>1, <1>2, <2>2, <2>8 DEF KeptSnapshotsRestorable, RefsOf
  <2>10. CheckpointsOwn'
    BY <1>0, <1>1, <1>2, <1>4, <2>2 DEF CheckpointsOwn, RefsOf, BeforeInsert
  <2>11. PrunesOutranked'
    <3>1. IsPending(id) /\ \A i : IsPending(i)' => IsPending(i)
      BY <1>0, <1>1, <1>4 DEF IsPending, BeforeInsert
    <3>2. \A i \in DOMAIN rows' : i # id => i \in DOMAIN rows /\ rows'[i] = rows[i]
      BY <2>2
    <3> SUFFICES ASSUME NEW p \in Pruners
                 PROVE  /\ \A d \in pruner[p].todo :
                             /\ d[2] \in 1 .. Len(snaps) /\ ~IsPending(d[2])'
                             /\ (pruner[p].pc \notin {"idle", "planned"} /\ d[2] \in DOMAIN rows')
                                   => d[2] = pruner[p].latest \/ Outranked(d[2])'
                        /\ pruner[p].pc \in {"index", "work", "row"} =>
                             /\ pruner[p].cur \in 1 .. Len(snaps)
                             /\ ~IsPending(pruner[p].cur)'
                             /\ pruner[p].cur \in DOMAIN rows' =>
                                  ~rows'[pruner[p].cur].pinned /\ Outranked(pruner[p].cur)'
      BY <1>1 DEF PrunesOutranked, PruneOutranked
    <3>3. \A d \in pruner[p].todo :
             /\ d[2] \in 1 .. Len(snaps) /\ ~IsPending(d[2])' /\ d[2] # id
             /\ d[2] \in DOMAIN rows' => Outranked(d[2])'
      BY <2>8, <3>1, <3>2 DEF PrunesOutranked, PruneOutranked
    <3>4. \A c : (pruner[p].pc \in {"index", "work", "row"} /\ c = pruner[p].cur) =>
             /\ c \in 1 .. Len(snaps) /\ c # id /\ ~IsPending(c)'
             /\ c \in DOMAIN rows' => ~rows'[c].pinned /\ Outranked(c)'
      BY <2>8, <3>1, <3>2 DEF PrunesOutranked, PruneOutranked
    <3> QED BY <1>1, <3>3, <3>4
  <2>12. NextSequence' >= NextSequence
    <3>1. \A i \in DOMAIN rows' : IsNewest(i)' <=> i = id
      BY <2>2, <2>5, <2>8
    <3>2. LatestId' = id
      BY <2>2, <3>1 DEF LatestId
    <3> QED BY <1>3, <2>2, <3>2 DEF NextSequence
  <2> QED BY <2>3, <2>6, <2>7, <2>9, <2>10, <2>11, <2>12
<1> QED BY <1>6, <1>7

-----------------------------------------------------------------------------
\* The steps of a prune that delete no row.
LEMMA PruneStepKeepsInv ==
    ASSUME Inv, NEW p \in Pruners,
           \/ Plan(p) \/ StartPrune(p) \/ CheckNext(p) \/ DeleteIndexRef(p)
           \/ DeleteWorkRef(p) \/ FinishPrune(p) \/ StopPrune(p)
    PROVE  Inv'
<1> USE DEF Inv
<1>1. /\ snaps' = snaps /\ source' = source /\ rows' = rows /\ writer' = writer
      /\ refs' \subseteq refs
  BY DEF Plan, StartPrune, CheckNext, DeleteIndexRef, DeleteWorkRef, FinishPrune,
         StopPrune
<1>2. /\ Len(snaps) \in Nat /\ LatestId \in Ids \cup {None}
      /\ DOMAIN rows # {} => IsNewest(LatestId) /\ LatestId \in DOMAIN rows
      /\ \A j \in DOMAIN rows : rows[j].seq \in Nat \ {0}
  BY LatestIsNewest DEF TypeOK
<1>3. \A i \in DOMAIN rows : i \in 1 .. Len(snaps) /\ i \in Ids /\ ~IsPending(i)
  BY <1>2, StoreAssumption DEF TypeOK, Ids, IsPending, CheckpointsOwn
<1>4. \A i \in DOMAIN rows : i = LatestId \/ Outranked(i)
  BY <1>2 DEF TableOrdered, IsNewest, Outranked
<1>5. PruneOutranked(pruner[p]) /\ pruner[p] \in PrunerState
  BY DEF PrunesOutranked, TypeOK
<1>6. IdlePruner \in PrunerState /\ PruneOutranked(IdlePruner)
  BY DEF IdlePruner, PrunerState, PruneOutranked
<1>7. \E q \in PrunerState : PruneOutranked(q) /\ pruner' = [pruner EXCEPT ![p] = q]
  <2>1. CASE Plan(p)
    <3>1. PICK in \in PlanInputs :
             pruner' = [pruner EXCEPT ![p].pc = "planned",
                          ![p].todo = { <<rows[id].seq, id>> : id \in PlannedDeletes(in) }]
      BY <2>1 DEF Plan
    <3>2. in.entries = Entries
      BY DEF PlanInputs
    <3>3. PlannedDeletes(in) \subseteq DOMAIN rows
      BY <3>2 DEF PlannedDeletes, Listed, Entries
    <3> DEFINE todo == { <<rows[id].seq, id>> : id \in PlannedDeletes(in) }
               q == [pruner[p] EXCEPT !.pc = "planned", !.todo = todo]
    <3>4. todo \in SUBSET ((Nat \ {0}) \X Ids)
      BY <1>2, <1>3, <3>3
    <3>5. \A d \in todo : d[2] \in DOMAIN rows
      BY <3>3
    <3>6. q \in PrunerState /\ q.todo = todo /\ q.pc = "planned"
      BY <1>5, <3>4 DEF PrunerState
    <3>7. PruneOutranked(q)
      BY <1>3, <3>5, <3>6 DEF PruneOutranked
    <3>8. pruner' = [pruner EXCEPT ![p] = q]
      BY <3>1 DEF TypeOK
    <3> QED BY <3>6, <3>7, <3>8
  <2>2. CASE StartPrune(p)
    <3> DEFINE q == [pruner[p] EXCEPT !.pc = "check", !.latest = LatestId]
    <3>1. q \in PrunerState /\ q.todo = pruner[p].todo /\ q.pc = "check"
          /\ q.latest = LatestId
      BY <1>2, <1>5 DEF PrunerState
    <3>2. PruneOutranked(q)
      BY <1>4, <1>5, <3>1 DEF PruneOutranked
    <3>3. pruner' = [pruner EXCEPT ![p] = q]
      BY <2>2 DEF StartPrune, TypeOK
    <3> QED BY <3>1, <3>2, <3>3
  <2>3. CASE CheckNext(p)
    <3>1. PICK d \in pruner[p].todo :
             \/ /\ Prunable(p, d[2])
                /\ pruner' = [pruner EXCEPT ![p].pc = "index", ![p].cur = d[2],
                                            ![p].todo = pruner[p].todo \ {d}]
             \/ pruner' = [pruner EXCEPT ![p] = IdlePruner]
      BY <2>3 DEF CheckNext, TypeOK
    <3>2. CASE pruner' = [pruner EXCEPT ![p] = IdlePruner]
      BY <1>6, <3>2
    <3>3. CASE pruner' # [pruner EXCEPT ![p] = IdlePruner]
      <4> DEFINE q == [pruner[p] EXCEPT !.pc = "index", !.cur = d[2],
                                        !.todo = pruner[p].todo \ {d}]
      <4>1. d[2] \in DOMAIN rows /\ ~rows[d[2]].pinned /\ d[2] # pruner[p].latest
        BY <3>1, <3>3 DEF Prunable
      <4>2. pruner[p].pc = "check"
        BY <2>3 DEF CheckNext
      <4>3. /\ q \in PrunerState /\ q.todo \subseteq pruner[p].todo /\ q.pc = "index"
            /\ q.cur = d[2] /\ q.latest = pruner[p].latest
        BY <1>3, <1>5, <4>1 DEF PrunerState
      <4>4. PruneOutranked(q)
        BY <1>3, <1>5, <4>1, <4>2, <4>3 DEF PruneOutranked
      <4>5. pruner' = [pruner EXCEPT ![p] = q]
        BY <3>1, <3>3 DEF TypeOK
      <4> QED BY <4>3, <4>4, <4>5
    <3> QED BY <3>2, <3>3
  <2>4. CASE DeleteIndexRef(p) \/ DeleteWorkRef(p)
    <3>1. PICK next \in {"work", "row"} : pruner' = [pruner EXCEPT ![p].pc = next]
      BY <2>4 DEF DeleteIndexRef, DeleteWorkRef
    <3>2. pruner[p].pc \in {"index", "work"}
      BY <2>4 DEF DeleteIndexRef, DeleteWorkRef
    <3> DEFINE q == [pruner[p] EXCEPT !.pc = next]
    <3>3. /\ q \in PrunerState /\ q.todo = pruner[p].todo /\ q.pc = next
          /\ q.cur = pruner[p].cur /\ q.latest = pruner[p].latest
      BY <1>5 DEF PrunerState
    <3>4. PruneOutranked(q)
      BY <1>5, <3>2, <3>3 DEF PruneOutranked
    <3>5. pruner' = [pruner EXCEPT ![p] = q]
      BY <3>1 DEF TypeOK
    <3> QED BY <3>3, <3>4, <3>5
  <2>5. CASE FinishPrune(p) \/ StopPrune(p)
    BY <1>6, <2>5 DEF FinishPrune, StopPrune
  <2> QED BY <2>1, <2>2, <2>3, <2>4, <2>5
<1>8. PICK q \in PrunerState : PruneOutranked(q) /\ pruner' = [pruner EXCEPT ![p] = q]
  BY <1>7
<1>9. PrunesOutranked'
  <2>1. \A r : PruneOutranked(r)' <=> PruneOutranked(r)
    BY <1>1 DEF PruneOutranked, IsPending, Outranked
  <2>2. \A r \in Pruners : \E x : x = pruner'[r] /\ PruneOutranked(x)
    BY <1>8 DEF PrunesOutranked, TypeOK
  <2> QED BY <2>1, <2>2 DEF PrunesOutranked
<1>10. dropped' \subseteq Ids /\ stops' \in 0 .. MaxStops
  <2>1. CASE CheckNext(p)
    BY <2>1, <1>5 DEF CheckNext, TypeOK, PrunerState
  <2>2. CASE StopPrune(p)
    BY <2>2, StoreAssumption DEF StopPrune, TypeOK
  <2>3. CASE ~CheckNext(p) /\ ~StopPrune(p)
    BY <2>3 DEF Plan, StartPrune, DeleteIndexRef, DeleteWorkRef, FinishPrune, TypeOK
  <2> QED BY <2>1, <2>2, <2>3
<1>11. TypeOK'
  BY <1>1, <1>8, <1>10 DEF TypeOK
<1>12. TableOrdered' /\ LineageGrounded'
  BY <1>1, TableKept
<1>13. \A i : (RefsOf(i) \subseteq refs /\ ~(RefsOf(i) \subseteq refs')) =>
          i = pruner[p].cur /\ pruner[p].pc \in {"index", "work"}
  <2>1. CASE DeleteIndexRef(p)
    BY <2>1 DEF DeleteIndexRef, RefsOf
  <2>2. CASE DeleteWorkRef(p)
    BY <2>2 DEF DeleteWorkRef, RefsOf
  <2>3. CASE ~DeleteIndexRef(p) /\ ~DeleteWorkRef(p)
    <3>1. refs' = refs
      BY <2>3 DEF Plan, StartPrune, CheckNext, FinishPrune, StopPrune
    <3> QED BY <3>1
  <2> QED BY <2>1, <2>2, <2>3
<1>14. KeptSnapshotsRestorable'
  <2>1. \A i \in DOMAIN rows : Outranked(i) => ~IsNewest(i)
    BY <1>2 DEF Outranked, IsNewest
  <2>2. \A i \in DOMAIN rows : rows[i].pinned \/ IsNewest(i) => RefsOf(i) \subseteq refs'
    BY <1>5, <1>13, <2>1 DEF KeptSnapshotsRestorable, PruneOutranked
  <2> QED BY <1>1, <2>2 DEF KeptSnapshotsRestorable, IsNewest, RefsOf
<1>15. CheckpointsOwn'
  <2>1. \A w \in Writers : writer[w].pc \in {"parent", "insert"} =>
           RefsOf(writer[w].id) \subseteq refs'
    BY <1>5, <1>13 DEF CheckpointsOwn, PruneOutranked, IsPending, BeforeInsert
  <2> QED BY <1>1, <2>1 DEF CheckpointsOwn, RefsOf
<1> QED BY <1>9, <1>11, <1>12, <1>14, <1>15

\* The DELETE of a prune: the row is outranked and has no child, so neither
\* the newest row nor any lineage changes.
LEMMA DeleteRowKeepsInv ==
    ASSUME Inv, NEW p \in Pruners, DeleteRow(p)
    PROVE  Inv' /\ NextSequence' >= NextSequence
<1> USE DEF Inv
<1>0. PICK x : x = pruner[p].cur
  OBVIOUS
<1>1. /\ snaps' = snaps /\ source' = source /\ refs' = refs /\ writer' = writer
      /\ dropped' = dropped /\ stops' = stops /\ pruner[p].pc = "row"
  BY DEF DeleteRow
<1>2. PruneOutranked(pruner[p]) /\ pruner[p] \in PrunerState
  BY DEF PrunesOutranked, TypeOK
<1>3. IdlePruner \in PrunerState /\ PruneOutranked(IdlePruner)
  BY DEF IdlePruner, PrunerState, PruneOutranked
<1>4. \E q \in PrunerState : PruneOutranked(q) /\ pruner' = [pruner EXCEPT ![p] = q]
  <2>1. CASE pruner' = [pruner EXCEPT ![p] = IdlePruner]
    BY <1>3, <2>1
  <2>2. CASE pruner' # [pruner EXCEPT ![p] = IdlePruner]
    <3> DEFINE q == [pruner[p] EXCEPT !.pc = "check", !.cur = None]
    <3>1. pruner' = [pruner EXCEPT ![p] = q]
      BY <2>2 DEF DeleteRow, TypeOK
    <3>2. /\ q \in PrunerState /\ q.todo = pruner[p].todo /\ q.pc = "check"
          /\ q.latest = pruner[p].latest
      BY <1>2 DEF PrunerState
    <3>3. PruneOutranked(q)
      BY <1>1, <1>2, <3>2 DEF PruneOutranked
    <3> QED BY <3>1, <3>2, <3>3
  <2> QED BY <2>1, <2>2
<1>5. PICK q \in PrunerState : PruneOutranked(q) /\ pruner' = [pruner EXCEPT ![p] = q]
  BY <1>4
<1>6. \A r \in Pruners : \E y : y = pruner'[r] /\ PruneOutranked(y)
  BY <1>5 DEF PrunesOutranked, TypeOK
<1>7. \A i : IsPending(i)' <=> IsPending(i)
  BY <1>1 DEF IsPending
<1>8. CASE rows' = rows
  <2>1. TypeOK'
    BY <1>1, <1>5, <1>8 DEF TypeOK
  <2>2. TableOrdered' /\ LineageGrounded' /\ KeptSnapshotsRestorable'
    BY <1>1, <1>8, TableKept
  <2>3. CheckpointsOwn'
    BY <1>1, <1>8 DEF CheckpointsOwn, RefsOf
  <2>4. PrunesOutranked'
    <3>1. \A r : PruneOutranked(r)' <=> PruneOutranked(r)
      BY <1>1, <1>7, <1>8 DEF PruneOutranked, Outranked
    <3> QED BY <1>6, <3>1 DEF PrunesOutranked
  <2>5. NextSequence' = NextSequence /\ NextSequence \in Nat
    BY <1>8, NextIsAbove DEF NextSequence, LatestId, IsNewest
  <2> QED BY <2>1, <2>2, <2>3, <2>4, <2>5
<1>9. CASE rows' # rows
  <2>1. /\ x \in DOMAIN rows /\ ~SnapshotHasChildren(x)
        /\ rows' = [j \in DOMAIN rows \ {x} |-> rows[j]]
    BY <1>0, <1>9 DEF DeleteRow
  <2>2. Outranked(x)
    BY <1>0, <1>1, <1>2, <2>1 DEF PruneOutranked
  <2>3. /\ DOMAIN rows' = DOMAIN rows \ {x}
        /\ \A j \in DOMAIN rows' : rows'[j] = rows[j]
        /\ TableOrdered'
        /\ \A i \in DOMAIN rows' : Outranked(i) => Outranked(i)'
        /\ \A i \in DOMAIN rows' : IsNewest(i)' => IsNewest(i)
        /\ DOMAIN rows' # {} /\ LatestId' = LatestId
    BY <2>1, <2>2, DeletingOutranked
  <2>4. TypeOK'
    BY <1>1, <1>5, <2>3 DEF TypeOK
  <2>5. LineageGrounded'
    BY <2>1, <2>3 DEF LineageGrounded, SnapshotHasChildren
  <2>6. KeptSnapshotsRestorable'
    BY <1>1, <2>3 DEF KeptSnapshotsRestorable, RefsOf
  <2>7. CheckpointsOwn'
    BY <1>1, <2>3 DEF CheckpointsOwn, RefsOf
  <2>8. PrunesOutranked'
    <3>1. \A r : PruneOutranked(r) => PruneOutranked(r)'
      BY <1>1, <1>7, <2>3 DEF PruneOutranked
    <3> QED BY <1>6, <3>1 DEF PrunesOutranked
  <2>9. NextSequence' >= NextSequence
    <3>1. LatestId \in DOMAIN rows'
      BY <2>3, <2>4, LatestIsNewest, <2>1, <2>2 DEF Outranked, IsNewest, TypeOK
    <3>2. NextSequence \in Nat
      BY NextIsAbove
    <3> QED BY <2>1, <2>3, <3>1, <3>2 DEF NextSequence
  <2> QED BY <2>3, <2>4, <2>5, <2>6, <2>7, <2>8, <2>9
<1> QED BY <1>8, <1>9

-----------------------------------------------------------------------------
\* Every step of every process keeps the invariant and the sequence.
LEMMA StepKeepsInv ==
    ASSUME Inv, [Next]_vars
    PROVE  Inv' /\ NextSequence' >= NextSequence
<1>1. ASSUME rows' = rows PROVE NextSequence' >= NextSequence
  <2>1. NextSequence' = NextSequence
    BY <1>1 DEF NextSequence, LatestId, IsNewest
  <2>2. NextSequence \in Nat
    BY NextIsAbove DEF Inv
  <2> QED BY <2>1, <2>2
<1>2. CASE UNCHANGED vars
  <2>1. /\ snaps' = snaps /\ source' = source /\ refs' = refs /\ rows' = rows
        /\ writer' = writer /\ pruner' = pruner /\ dropped' = dropped /\ stops' = stops
    BY <1>2 DEF vars
  <2>2. TypeOK' /\ CheckpointsOwn'
    BY <2>1 DEF Inv, TypeOK, CheckpointsOwn, RefsOf
  <2>3. TableOrdered' /\ LineageGrounded' /\ KeptSnapshotsRestorable'
    BY <2>1, TableKept DEF Inv
  <2>4. PrunesOutranked'
    BY <2>1 DEF Inv, PrunesOutranked, PruneOutranked, IsPending, Outranked
  <2> QED BY <1>1, <2>1, <2>2, <2>3, <2>4 DEF Inv
<1>3. ASSUME NEW w \in Writers, CheckpointStep(w)
      PROVE  Inv' /\ NextSequence' >= NextSequence
  <2>1. CASE \E hash \in Hashes : \/ \E pinned \in BOOLEAN : Checkpoint(w, hash, pinned)
                                  \/ CheckpointIfChanged(w, hash)
    <3>1. PICK hash \in Hashes, pinned \in BOOLEAN, pc \in {"import", "compare"} :
             StartCheckpoint(w, hash, pinned, pc)
      BY <2>1 DEF Checkpoint, CheckpointIfChanged
    <3>2. rows' = rows
      BY <3>1 DEF StartCheckpoint
    <3> QED BY <1>1, <3>1, <3>2, StartKeepsInv
  <2>2. CASE InsertSnapshot(w)
    BY <2>2, InsertKeepsInv
  <2>3. CASE \/ CompareLatest(w) \/ ImportSnapshotRefs(w) \/ ReadParent(w)
             \/ DropSourceIndexRef(w) \/ DropSourceWorkRef(w) \/ StopCheckpoint(w)
    <3>1. rows' = rows
      BY <2>3 DEF CompareLatest, ImportSnapshotRefs, ReadParent, DropSourceIndexRef,
                  DropSourceWorkRef, StopCheckpoint
    <3> QED BY <1>1, <2>3, <3>1, QuietStepKeepsInv
  <2> QED BY <1>3, <2>1, <2>2, <2>3 DEF CheckpointStep
<1>4. ASSUME NEW p \in Pruners, PruneStep(p)
      PROVE  Inv' /\ NextSequence' >= NextSequence
  <2>1. CASE DeleteRow(p)
    BY <2>1, DeleteRowKeepsInv
  <2>2. CASE \/ Plan(p) \/ StartPrune(p) \/ CheckNext(p) \/ DeleteIndexRef(p)
             \/ DeleteWorkRef(p) \/ FinishPrune(p) \/ StopPrune(p)
    <3>1. rows' = rows
      BY <2>2 DEF Plan, StartPrune, CheckNext, DeleteIndexRef, DeleteWorkRef,
                  FinishPrune, StopPrune
    <3> QED BY <1>1, <2>2, <3>1, PruneStepKeepsInv
  <2> QED BY <1>4, <2>1, <2>2 DEF PruneStep
<1> QED BY <1>2, <1>3, <1>4 DEF Next

\* The inductive invariant holds throughout.
THEOREM StoreInvariant == Spec => []Inv
<1>1. Init => Inv
  BY InitInv
<1>2. Inv /\ [Next]_vars => Inv'
  BY StepKeepsInv
<1> QED BY <1>1, <1>2, PTL DEF Spec

\* Whatever interleaving of checkpoints, prunes and crashes: the newest and the
\* pinned snapshots of a store have both their refs (store_snapshot,
\* prune_snapshots).
THEOREM KeptSnapshotsRestorableHolds == Spec => []KeptSnapshotsRestorable
<1>1. Inv => KeptSnapshotsRestorable
  BY DEF Inv
<1> QED BY <1>1, StoreInvariant, PTL

\* Every parent is in the table and older than its child (insert_snapshot, the
\* foreign key, prune_snapshots).
THEOREM LineageGroundedHolds == Spec => []LineageGrounded
<1>1. Inv => LineageGrounded
  BY DEF Inv
<1> QED BY <1>1, StoreInvariant, PTL

\* Both of the above: what a row of the table names is there.
THEOREM RowsAreWholeHolds == Spec => []RowsAreWhole
<1>1. Inv => RowsAreWhole
  BY DEF Inv, RowsAreWhole
<1> QED BY <1>1, StoreInvariant, PTL

\* No prune makes insert_snapshot hand out a sequence number again.
THEOREM SequenceNeverFallsBackHolds == Spec => SequenceNeverFallsBack
<1>1. Inv /\ [Next]_vars => [NextSequence' >= NextSequence]_vars
  BY StepKeepsInv
<1> QED BY <1>1, StoreInvariant, PTL DEF Spec, SequenceNeverFallsBack

-----------------------------------------------------------------------------
(* The planner.  A listing it is given is finite, no two of its snapshots  *)
(* share a sequence number, and the sizes are naturals.                     *)
Listing(in) ==
    /\ IsFiniteSet(Listed(in))
    /\ \A i \in Listed(in) : in.entries[i].seq \in Nat /\ in.entries[i].size \in Nat
    /\ \A i, j \in Listed(in) : in.entries[i].seq = in.entries[j].seq => i = j

(* protect_retained_parents: after as many generations as there are        *)
(* snapshots the walk has nothing left to add.                              *)
LEMMA RetainedIsClosed ==
    ASSUME NEW in, Listing(in)
    PROVE  Retained(in) \subseteq Listed(in) /\ ListedParents(in, Retained(in)) \subseteq Retained(in)
<1> DEFINE L == Listed(in)
           Own == RetainedOnTheirOwn(in)
           Up(S) == S \cup ListedParents(in, S)
           up == CHOOSE f : f = [n \in Nat |-> IF n = 0 THEN Own ELSE Up(f[n - 1])]
<1>1. Own \in SUBSET L
  BY DEF RetainedOnTheirOwn, DirectlyProtected, HotSnapshots, LatestPerBucket
<1>2. \A S \in SUBSET L : Up(S) \in SUBSET L BY DEF ListedParents
<1>3. PICK f \in [Nat -> SUBSET L] : f[0] = Own /\ \A n \in Nat : f[n + 1] = Up(f[n])
  <2> DEFINE step == [i \in Nat |-> [S \in SUBSET L |-> Up(S)]]
  <2>1. step \in [Nat -> [SUBSET L -> SUBSET L]] BY <1>2
  <2>2. \A i \in Nat, S \in SUBSET L : step[i][S] = Up(S) OBVIOUS
  <2> HIDE DEF step, Own, Up, L
  <2>3. PICK f \in [Nat -> SUBSET L] : \A n \in Nat : Recurses(Own, step, n, f)
    BY <1>1, <2>1, RecursionExists
  <2>4. f[0] = Own BY <2>3 DEF Recurses
  <2>5. ASSUME NEW n \in Nat PROVE f[n + 1] = Up(f[n])
    <3>1. n + 1 \in 1 .. n + 1 /\ n + 1 \in Nat /\ (n + 1) - 1 = n OBVIOUS
    <3>2. f[n + 1] = step[n + 1][f[(n + 1) - 1]] BY <3>1, <2>3 DEF Recurses
    <3>3. f[n] \in SUBSET L OBVIOUS
    <3> QED BY <3>1, <3>2, <3>3, <2>2
  <2> QED BY <2>4, <2>5
<1> HIDE DEF Own, Up
<1>4. f = [n \in Nat |-> IF n = 0 THEN Own ELSE Up(f[n - 1])]
  <2>1. \A n \in Nat : f[n] = IF n = 0 THEN Own ELSE Up(f[n - 1])
    <3> SUFFICES ASSUME NEW n \in Nat, n # 0 PROVE f[n] = Up(f[n - 1]) BY <1>3
    <3>1. n - 1 \in Nat /\ (n - 1) + 1 = n OBVIOUS
    <3> QED BY <3>1, <1>3
  <2> QED BY <2>1
<1>5. up = [n \in Nat |-> IF n = 0 THEN Own ELSE Up(up[n - 1])] BY <1>4
<1>6. Retained(in) = up[Cardinality(L)] BY DEF Retained, Up, Own
<1> HIDE DEF up
<1>7. up[0] = Own /\ \A n \in Nat : up[n + 1] = Up(up[n])
  <2>1. \A n \in Nat : n + 1 # 0 /\ (n + 1) - 1 = n /\ n + 1 \in Nat OBVIOUS
  <2> QED BY <2>1, <1>5
<1>8. \A n \in Nat : up[n] \in SUBSET L
  <2> DEFINE T == {n \in Nat : up[n] \in SUBSET L}
  <2>1. 0 \in T BY <1>1, <1>7
  <2>2. \A n \in Nat : n \in T => n + 1 \in T BY <1>2, <1>7
  <2> HIDE DEF T
  <2>3. Nat \subseteq T BY <2>1, <2>2, NaturalsGrow
  <2> QED BY <2>3 DEF T
<1>9. \A n \in Nat : Up(up[n]) = up[n] \/ Cardinality(up[n]) >= n
  <2> DEFINE T == {n \in Nat : Up(up[n]) = up[n] \/ Cardinality(up[n]) >= n}
  <2>0. \A n \in Nat : IsFiniteSet(up[n]) /\ Cardinality(up[n]) \in Nat
    BY <1>8, FS_Subset, FS_CardinalityType DEF Listing
  <2>1. 0 \in T BY <2>0
  <2>2. \A n \in Nat : n \in T => n + 1 \in T
    <3> SUFFICES ASSUME NEW n \in Nat, n \in T, Up(up[n + 1]) # up[n + 1]
                 PROVE  Cardinality(up[n + 1]) >= n + 1
      OBVIOUS
    <3>1. Up(up[n]) # up[n] BY <1>7
    <3>2. up[n] \subseteq up[n + 1] /\ up[n] # up[n + 1] BY <3>1, <1>7 DEF Up
    <3>3. Cardinality(up[n]) <= Cardinality(up[n + 1]) /\ Cardinality(up[n]) # Cardinality(up[n + 1])
      BY <2>0, <3>2, FS_Subset
    <3>4. n + 1 \in Nat OBVIOUS
    <3> QED BY <3>1, <3>3, <3>4, <2>0
  <2> HIDE DEF T
  <2>3. Nat \subseteq T BY <2>1, <2>2, NaturalsGrow
  <2> QED BY <2>3 DEF T
<1>10. Cardinality(L) \in Nat BY FS_CardinalityType DEF Listing
<1>11. up[Cardinality(L)] \subseteq L BY <1>8, <1>10
<1>12. Up(up[Cardinality(L)]) = up[Cardinality(L)]
  <2>1. CASE Cardinality(up[Cardinality(L)]) >= Cardinality(L)
    <3>1. up[Cardinality(L)] = L
      BY <1>10, <1>11, <2>1, FS_Subset, FS_CardinalityType DEF Listing
    <3> QED BY <3>1, <1>2 DEF Up
  <2> QED BY <1>9, <1>10, <2>1
<1> QED BY <1>6, <1>11, <1>12 DEF Up

(* What is reclaimed is a sum of sizes, and grows with what is deleted.    *)
Sizes(in) == [i \in Listed(in) |-> in.entries[i].size]

LEMMA ReclaimedIsSum ==
    ASSUME NEW in, Listing(in), NEW S \in SUBSET Listed(in)
    PROVE  Reclaimed(in, S) = SumOver(Sizes(in), S)
<1> DEFINE ByEntry(f) == f = [s \in SUBSET S |->
                IF s = {} THEN 0 ELSE in.entries[Picked(s)].size + f[s \ {Picked(s)}]]
           BySize(f) == f = [s \in SUBSET S |->
                IF s = {} THEN 0 ELSE Sizes(in)[Picked(s)] + f[s \ {Picked(s)}]]
<1>1. Reclaimed(in, S) = (CHOOSE f : ByEntry(f))[S]
  BY DEF Reclaimed, MapThenSumSet, MapThenFoldSet, Picked
<1>2. SumOver(Sizes(in), S) = (CHOOSE f : BySize(f))[S]
  BY DEF SumOver, MapThenSumSet, MapThenFoldSet, Picked
<1>3. \A s \in SUBSET S : s # {} => Sizes(in)[Picked(s)] = in.entries[Picked(s)].size
  BY DEF Sizes, Picked
<1>4. \A f : ByEntry(f) <=> BySize(f)
  <2> SUFFICES ASSUME NEW f PROVE ByEntry(f) <=> BySize(f) OBVIOUS
  <2>1. [s \in SUBSET S |-> IF s = {} THEN 0 ELSE in.entries[Picked(s)].size + f[s \ {Picked(s)}]]
        = [s \in SUBSET S |-> IF s = {} THEN 0 ELSE Sizes(in)[Picked(s)] + f[s \ {Picked(s)}]]
    BY <1>3
  <2> QED BY <2>1
<1> HIDE DEF ByEntry, BySize
<1>5. (CHOOSE f : ByEntry(f)) = (CHOOSE f : BySize(f)) BY <1>4
<1> QED BY <1>1, <1>2, <1>5

LEMMA ReclaimedGrows ==
    ASSUME NEW in, Listing(in), NEW small \in SUBSET Listed(in), NEW large \in SUBSET Listed(in),
           small \subseteq large
    PROVE  /\ Reclaimed(in, small) \in Nat /\ Reclaimed(in, large) \in Nat
           /\ Reclaimed(in, small) <= Reclaimed(in, large)
<1>1. Sizes(in) \in [Listed(in) -> Nat] BY DEF Listing, Sizes
<1>2. /\ Reclaimed(in, small) = SumOver(Sizes(in), small)
      /\ Reclaimed(in, large) = SumOver(Sizes(in), large)
  BY ReclaimedIsSum
<1>3. SumUnfolds(Sizes(in), small) /\ SumUnfolds(Sizes(in), large) BY <1>1, SumsUnfold DEF Listing
<1>4. SumOver(Sizes(in), small) <= SumOver(Sizes(in), large) BY <1>1, SumGrows DEF Listing
<1> QED BY <1>2, <1>3, <1>4 DEF SumUnfolds

(* The pressure loop: what it deletes, and what it has reclaimed before.   *)
Measured(in, kept, outside, pressed, target) ==
    /\ pressed \subseteq kept \ HardRetained(in, kept)
    /\ \/ Reclaimed(in, outside \cup pressed) >= target
       \/ pressed = kept \ HardRetained(in, kept)
    /\ \A i \in pressed :
          (\A j \in pressed : in.entries[j].seq <= in.entries[i].seq)
             => Reclaimed(in, (outside \cup pressed) \ {i}) < target

LEMMA PressureMeasured ==
    ASSUME NEW in, Listing(in), NEW target \in Nat, target = TargetReclaim(in),
           NEW kept, kept = Retained(in), NEW outside, outside = Listed(in) \ kept,
           NEW pressed, pressed = PressureDeletes(in)
    PROVE  Measured(in, kept, outside, pressed, target)
<1> SUFFICES /\ pressed \subseteq kept \ HardRetained(in, kept)
             /\ \/ Reclaimed(in, outside \cup pressed) >= target
                \/ pressed = kept \ HardRetained(in, kept)
             /\ \A i \in pressed :
                   (\A j \in pressed : in.entries[j].seq <= in.entries[i].seq)
                      => Reclaimed(in, (outside \cup pressed) \ {i}) < target
  BY DEF Measured
<1> DEFINE mild == kept \ HardRetained(in, kept)
           Older(soft, i) == {j \in soft : in.entries[j].seq < in.entries[i].seq}
<1>1. kept \subseteq Listed(in) BY RetainedIsClosed
<1>2. mild \in SUBSET Listed(in) /\ outside \in SUBSET Listed(in) BY <1>1
<1>3. CASE ~(Reclaimed(in, outside) < target)
  <2>1. pressed = {} BY <1>3 DEF PressureDeletes
  <2>2. Reclaimed(in, outside) \in Nat BY <1>2, ReclaimedGrows
  <2>3. outside \cup pressed = outside BY <2>1
  <2>4. Reclaimed(in, outside \cup pressed) >= target BY <1>3, <2>2, <2>3
  <2> QED BY <2>1, <2>4
<1>4. CASE Reclaimed(in, outside) < target
  <2>1. pressed = {i \in mild : Reclaimed(in, outside \cup Older(mild, i)) < target}
    BY <1>4 DEF PressureDeletes
  <2>2. \A i \in mild : in.entries[i].seq \in Nat BY <1>2 DEF Listing
  <2> HIDE DEF mild
  <2>3. ASSUME pressed # mild PROVE Reclaimed(in, outside \cup pressed) >= target
    <3> DEFINE left == mild \ pressed
               numbers == {in.entries[i].seq : i \in left}
    <3>0. PICK soft \in mild : soft \notin pressed BY <2>1, <2>3
    <3>1. numbers \subseteq Nat /\ numbers # {}
      <4>1. in.entries[soft].seq \in numbers BY <3>0
      <4>2. numbers \subseteq Nat BY <2>2
      <4> QED BY <4>1, <4>2
    <3>2. PICK n \in numbers : \A m \in numbers : n <= m BY <3>1, LeastNatural
    <3>3. PICK i \in left : in.entries[i].seq = n BY <3>2
    <3>4. Older(mild, i) \subseteq pressed
      <4> SUFFICES ASSUME NEW j \in mild, in.entries[j].seq < in.entries[i].seq, j \notin pressed PROVE FALSE
        OBVIOUS
      <4>1. n <= in.entries[j].seq BY <3>2
      <4> QED BY <4>1, <3>3, <2>2
    <3>5. i \in mild /\ ~(Reclaimed(in, outside \cup Older(mild, i)) < target) BY <2>1, <3>3
    <3> DEFINE few == outside \cup Older(mild, i)
               all == outside \cup pressed
    <3>6. few \in SUBSET Listed(in) /\ all \in SUBSET Listed(in) /\ few \subseteq all BY <1>2, <2>1, <3>4
    <3> HIDE DEF few, all
    <3>7. Reclaimed(in, few) \in Nat /\ Reclaimed(in, all) \in Nat /\ Reclaimed(in, few) <= Reclaimed(in, all)
      BY <3>6, ReclaimedGrows
    <3>8. ~(Reclaimed(in, few) < target) BY <3>5 DEF few
    <3>9. Reclaimed(in, all) >= target BY <3>7, <3>8
    <3> QED BY <3>9 DEF all
  <2>4. ASSUME NEW i \in pressed, \A j \in pressed : in.entries[j].seq <= in.entries[i].seq
        PROVE  Reclaimed(in, (outside \cup pressed) \ {i}) < target
    <3> DEFINE few == (outside \cup pressed) \ {i}
               all == outside \cup Older(mild, i)
    <3>1. \A j \in pressed \ {i} : in.entries[j].seq < in.entries[i].seq
      <4> SUFFICES ASSUME NEW j \in pressed \ {i} PROVE in.entries[j].seq < in.entries[i].seq OBVIOUS
      <4>1. i \in Listed(in) /\ j \in Listed(in) BY <1>2, <2>1
      <4>2. in.entries[j].seq # in.entries[i].seq BY <4>1 DEF Listing
      <4>3. in.entries[j].seq \in Nat /\ in.entries[i].seq \in Nat BY <4>1 DEF Listing
      <4> QED BY <2>4, <4>2, <4>3
    <3>2. few \subseteq all BY <2>1, <3>1
    <3>3. few \in SUBSET Listed(in) /\ all \in SUBSET Listed(in) BY <1>2, <2>1
    <3>4. Reclaimed(in, all) < target BY <2>1
    <3> HIDE DEF few, all
    <3>5. Reclaimed(in, few) \in Nat /\ Reclaimed(in, all) \in Nat /\ Reclaimed(in, few) <= Reclaimed(in, all)
      BY <3>2, <3>3, ReclaimedGrows
    <3>6. Reclaimed(in, few) < target BY <3>4, <3>5
    <3> QED BY <3>6 DEF few
  <2>5. pressed \subseteq mild BY <2>1
  <2> QED BY <2>3, <2>4, <2>5 DEF mild
<1> QED BY <1>3, <1>4

(* Every input that the planner is given is such a listing.                *)
LEMMA InputsAreListings ==
    ASSUME TypeOK, TableOrdered, NEW in \in PlanInputs
    PROVE  /\ Listing(in) /\ TargetReclaim(in) \in Nat
           /\ Listed(in) = DOMAIN rows
           /\ \A i \in DOMAIN rows : /\ in.entries[i].seq = rows[i].seq
                                     /\ in.entries[i].parent = rows[i].parent
<1>1. in.entries = Entries /\ in.usage \in Nat /\ in.free \in Nat
  BY StoreAssumption DEF PlanInputs
<1>2. /\ Listed(in) = DOMAIN rows
      /\ \A i \in DOMAIN rows : /\ in.entries[i].seq = rows[i].seq
                                /\ in.entries[i].parent = rows[i].parent
                                /\ in.entries[i].size = SizeOf[i]
  BY <1>1 DEF Listed, Entries
<1>3. IsFiniteSet(DOMAIN rows)
  <2>1. Len(snaps) \in Nat BY DEF TypeOK
  <2>2. IsFiniteSet(1 .. Len(snaps)) BY <2>1, FS_Interval
  <2> QED BY <2>2, FS_Subset DEF TypeOK
<1>4. DOMAIN rows \subseteq 1 .. MaxSnapshots BY StoreAssumption DEF TypeOK
<1>5. \A i \in DOMAIN rows : rows[i].seq \in Nat /\ SizeOf[i] \in Nat
  BY <1>4, StoreAssumption DEF TypeOK
<1>6. Listing(in)
  <2>1. \A i, j \in Listed(in) : in.entries[i].seq = in.entries[j].seq => i = j
    BY <1>2 DEF TableOrdered
  <2>2. \A i \in Listed(in) : in.entries[i].seq \in Nat /\ in.entries[i].size \in Nat
    BY <1>2, <1>5
  <2> QED BY <1>2, <1>3, <2>1, <2>2 DEF Listing
<1>7. TargetReclaim(in) \in Nat
  <2> DEFINE a == IF Quota = None THEN 0 ELSE SaturatingSub(in.usage, Quota)
             b == SaturatingSub(HardStop, in.free)
  <2>1. a \in Nat /\ b \in Nat BY <1>1, RetentionAssumption DEF SaturatingSub
  <2>2. TargetReclaim(in) = Max({a, b}) BY DEF TargetReclaim
  <2> HIDE DEF a, b
  <2>3. \E m \in {a, b} : \A n \in {a, b} : m >= n BY <2>1
  <2>4. Max({a, b}) \in {a, b} BY <2>3 DEF Max
  <2> QED BY <2>1, <2>2, <2>4
<1> QED BY <1>2, <1>6, <1>7

(* The same for what the planner computes from its input.                  *)
LEMMA PlansAreMeasured ==
    ASSUME NEW in, Listing(in), TargetReclaim(in) \in Nat
    PROVE  Measured(in, Retained(in), OutsideRetention(in), PressureDeletes(in), TargetReclaim(in))
<1>1. PICK target \in Nat : target = TargetReclaim(in) OBVIOUS
<1>2. PICK kept : kept = Retained(in) OBVIOUS
<1>3. PICK pressed : pressed = PressureDeletes(in) OBVIOUS
<1>4. PICK outside : outside = Listed(in) \ kept OBVIOUS
<1>5. Measured(in, kept, outside, pressed, target) BY <1>1, <1>2, <1>3, <1>4, PressureMeasured
<1> QED BY <1>1, <1>2, <1>3, <1>4, <1>5 DEF OutsideRetention

(* What is deleted is what is not retained and what pressure takes.        *)
LEMMA DeletesAreTwoKinds ==
    ASSUME NEW in, Listing(in), TargetReclaim(in) \in Nat
    PROVE  /\ PressureDeletes(in) \subseteq Retained(in) \ HardRetained(in, Retained(in))
           /\ PlannedDeletes(in) = OutsideRetention(in) \cup PressureDeletes(in)
           /\ PlannedDeletes(in) \cap Retained(in) = PressureDeletes(in)
           /\ Listed(in) \ PlannedDeletes(in) = Retained(in) \ PressureDeletes(in)
<1>1. PressureDeletes(in) \subseteq Retained(in) \ HardRetained(in, Retained(in))
  BY PlansAreMeasured DEF Measured
<1>2. Retained(in) \subseteq Listed(in) BY RetainedIsClosed
<1> QED BY <1>1, <1>2 DEF PlannedDeletes, OutsideRetention

(* A parent of a kept snapshot is retained, and no pressure deletes it.    *)
LEMMA KeptLineage == TypeOK /\ TableOrdered /\ LineageGrounded => PlanKeepsLineage
<1> SUFFICES ASSUME TypeOK, TableOrdered, LineageGrounded, NEW in \in PlanInputs,
                    NEW id \in DOMAIN rows \ PlannedDeletes(in),
                    rows[id].parent \in PlannedDeletes(in)
             PROVE  FALSE
  BY DEF PlanKeepsLineage
<1> DEFINE kept == Retained(in)
<1>1. /\ Listing(in) /\ TargetReclaim(in) \in Nat /\ Listed(in) = DOMAIN rows
      /\ in.entries[id].parent = rows[id].parent
  BY InputsAreListings
<1>2. /\ PressureDeletes(in) \subseteq kept \ HardRetained(in, kept)
      /\ PlannedDeletes(in) \cap kept = PressureDeletes(in)
      /\ id \in kept /\ PlannedDeletes(in) \subseteq Listed(in)
  BY <1>1, DeletesAreTwoKinds DEF PlannedDeletes
<1>3. rows[id].parent \in ListedParents(in, kept) BY <1>1, <1>2 DEF ListedParents
<1>4. rows[id].parent \in kept BY <1>1, <1>3, RetainedIsClosed
<1>5. rows[id].parent \in HardRetained(in, kept) BY <1>3 DEF HardRetained
<1> QED BY <1>2, <1>4, <1>5

(* The deletes of a plan meet the target, and the last of them is needed.   *)
LEMMA MetTarget == TypeOK /\ TableOrdered => PlanMeetsTarget
<1> SUFFICES ASSUME TypeOK, TableOrdered, NEW in \in PlanInputs
             PROVE  /\ \/ Reclaimed(in, PlannedDeletes(in)) >= TargetReclaim(in)
                       \/ DOMAIN rows \ PlannedDeletes(in) \subseteq HardRetained(in, Retained(in))
                    /\ \A id \in PlannedDeletes(in) \cap Retained(in) :
                         (\A j \in PlannedDeletes(in) \cap Retained(in) : rows[j].seq <= rows[id].seq)
                            => Reclaimed(in, PlannedDeletes(in) \ {id}) < TargetReclaim(in)
  BY DEF PlanMeetsTarget
<1>1. /\ Listing(in) /\ TargetReclaim(in) \in Nat /\ Listed(in) = DOMAIN rows
      /\ \A i \in DOMAIN rows : in.entries[i].seq = rows[i].seq
  BY InputsAreListings
<1>2. /\ PlannedDeletes(in) = OutsideRetention(in) \cup PressureDeletes(in)
      /\ PlannedDeletes(in) \cap Retained(in) = PressureDeletes(in)
      /\ DOMAIN rows \ PlannedDeletes(in) = Retained(in) \ PressureDeletes(in)
      /\ PressureDeletes(in) \subseteq DOMAIN rows
  BY <1>1, DeletesAreTwoKinds DEF PlannedDeletes
<1>3. Measured(in, Retained(in), OutsideRetention(in), PressureDeletes(in), TargetReclaim(in))
  BY <1>1, PlansAreMeasured
<1>4. \/ Reclaimed(in, PlannedDeletes(in)) >= TargetReclaim(in)
      \/ DOMAIN rows \ PlannedDeletes(in) \subseteq HardRetained(in, Retained(in))
  BY <1>2, <1>3 DEF Measured
<1>5. ASSUME NEW id \in PressureDeletes(in), \A j \in PressureDeletes(in) : rows[j].seq <= rows[id].seq
      PROVE  Reclaimed(in, PlannedDeletes(in) \ {id}) < TargetReclaim(in)
  <2>1. \A j \in PressureDeletes(in) : in.entries[j].seq <= in.entries[id].seq BY <1>1, <1>2, <1>5
  <2> QED BY <1>2, <1>3, <2>1 DEF Measured
<1> QED BY <1>2, <1>4, <1>5

\* Whatever the caller of plan_snapshot_pruning measures and protects, the plan
\* reclaims its target or all that it may, gives up nothing that the target does
\* not need, and leaves no snapshot behind without its parent.
THEOREM PlansAreSoundAlways == Spec => []PlansAreSound
<1>1. Inv => PlansAreSound
  BY KeptLineage, MetTarget DEF Inv, PlansAreSound
<1> QED BY <1>1, StoreInvariant, PTL

-----------------------------------------------------------------------------
(* Captured work is never unreachable.  A ref leaves the source worktree    *)
(* only for a snapshot that was dropped or has both refs in the store, and  *)
(* the store only for one that was dropped.                                 *)

StoredOrDropped(id) == id \in dropped \/ RefsOf(id) \subseteq refs

ReachInv ==
    /\ CapturedWorkReachable
    /\ \A w \in Writers :
         writer[w].pc \in {"drop-index", "drop-work"} => StoredOrDropped(writer[w].id)
    /\ \A p \in Pruners : pruner[p].pc \in {"index", "work"} => pruner[p].cur \in dropped

LEMMA CheckpointKeepsReach ==
    ASSUME Inv, ReachInv, NEW w \in Writers, CheckpointStep(w)
    PROVE  ReachInv'
<1> USE DEF Inv
<1>0. writer \in [Writers -> WriterState]
  BY DEF TypeOK
<1>1. ASSUME NEW hash, NEW pinned, NEW pc \in {"import", "compare"}, StartCheckpoint(w, hash, pinned, pc)
      PROVE  ReachInv'
  <2>1. Len(snaps') = Len(snaps) + 1 /\ Len(snaps) \in Nat
    BY <1>1 DEF StartCheckpoint, TypeOK
  <2>2. source' = source \cup RefsOf(Len(snaps) + 1) /\ refs' = refs /\ dropped' = dropped /\ pruner' = pruner
    BY <1>1 DEF StartCheckpoint
  <2>3. CapturedWorkReachable'
    BY <2>1, <2>2 DEF ReachInv, CapturedWorkReachable, RefsOf
  <2>4. \A v \in Writers : writer'[v] = IF v = w THEN [pc |-> pc, id |-> Len(snaps) + 1, pinned |-> pinned,
                                                       parent |-> None] ELSE writer[v]
    BY <1>0, <1>1 DEF StartCheckpoint
  <2>5. \A v \in Writers :
          writer'[v].pc \in {"drop-index", "drop-work"} => StoredOrDropped(writer'[v].id)
    BY <2>4 DEF ReachInv
  <2> QED BY <2>2, <2>3, <2>5 DEF ReachInv, StoredOrDropped, RefsOf
<1>2. ASSUME UNCHANGED <<snaps, pruner>>, dropped \subseteq dropped', refs \subseteq refs',
             source \subseteq source' \/ \E ref : source' = source \ {ref} /\ StoredOrDropped(ref[1]),
             \A v \in Writers : \/ writer'[v] = writer[v]
                                \/ writer'[v].pc \notin {"drop-index", "drop-work"}
                                \/ (StoredOrDropped(writer[v].id))'
      PROVE  ReachInv'
  <2> USE DEF ReachInv
  <2>1. CapturedWorkReachable'
    BY <1>2 DEF CapturedWorkReachable, StoredOrDropped, RefsOf
  <2>2. \A v \in Writers :
          writer'[v].pc \in {"drop-index", "drop-work"} => (StoredOrDropped(writer[v].id))'
    BY <1>2 DEF StoredOrDropped, RefsOf
  <2> QED BY <1>2, <2>1, <2>2
<1>3. CASE \E hash \in Hashes : \/ \E pinned \in BOOLEAN : Checkpoint(w, hash, pinned)
                               \/ CheckpointIfChanged(w, hash)
  BY <1>1, <1>3 DEF Checkpoint, CheckpointIfChanged
<1>4. CASE CompareLatest(w)
  <2>1. \A v \in Writers \ {w} : writer'[v] = writer[v]
    BY <1>0, <1>4 DEF CompareLatest
  <2>2. writer'[w].id = writer[w].id /\ (writer'[w].pc = "import" \/ writer[w].id \in dropped')
    BY <1>0, <1>4 DEF CompareLatest, WriterState
  <2>3. UNCHANGED <<snaps, pruner, source, refs>> /\ dropped \subseteq dropped'
    BY <1>4 DEF CompareLatest
  <2>4. writer'[w].pc = "import" \/ (StoredOrDropped(writer[w].id))'
    BY <2>2 DEF StoredOrDropped
  <2> QED BY <1>2, <2>1, <2>3, <2>4
<1>5. CASE ImportSnapshotRefs(w) \/ ReadParent(w)
  <2>1. \A v \in Writers \ {w} : writer'[v] = writer[v]
    BY <1>0, <1>5 DEF ImportSnapshotRefs, ReadParent
  <2>2. writer'[w].pc \in {"parent", "insert"}
    BY <1>0, <1>5 DEF ImportSnapshotRefs, ReadParent, WriterState
  <2>3. UNCHANGED <<snaps, pruner, source, dropped>> /\ refs \subseteq refs'
    BY <1>5 DEF ImportSnapshotRefs, ReadParent
  <2> QED BY <1>2, <2>1, <2>2, <2>3
<1>6. CASE InsertSnapshot(w)
  <2>1. \A v \in Writers \ {w} : writer'[v] = writer[v]
    BY <1>0, <1>6 DEF InsertSnapshot
  <2>2. RefsOf(writer[w].id) \subseteq refs
    BY <1>6 DEF InsertSnapshot, CheckpointsOwn, BeforeInsert
  <2>3. writer'[w].pc = "idle" \/ writer'[w].id = writer[w].id
    BY <1>0, <1>6 DEF InsertSnapshot, WriterState, IdleWriter
  <2>4. UNCHANGED <<snaps, pruner, source, dropped, refs>>
    BY <1>6 DEF InsertSnapshot
  <2>5. writer'[w].pc = "idle" \/ (StoredOrDropped(writer[w].id))'
    BY <2>2, <2>3, <2>4 DEF StoredOrDropped, RefsOf
  <2> QED BY <1>2, <2>1, <2>4, <2>5
<1>7. CASE DropSourceIndexRef(w)
  <2>1. \A v \in Writers \ {w} : writer'[v] = writer[v]
    BY <1>0, <1>7 DEF DropSourceIndexRef
  <2>2. StoredOrDropped(writer[w].id) /\ writer'[w].id = writer[w].id
    BY <1>0, <1>7 DEF DropSourceIndexRef, ReachInv, WriterState
  <2>3. UNCHANGED <<snaps, pruner, dropped, refs>> /\ source' = source \ {<<writer[w].id, "index">>}
    BY <1>7 DEF DropSourceIndexRef
  <2>4. (StoredOrDropped(writer[w].id))'
    BY <2>2, <2>3 DEF StoredOrDropped, RefsOf
  <2> QED BY <1>2, <2>1, <2>2, <2>3, <2>4
<1>8. CASE DropSourceWorkRef(w)
  <2>1. \A v \in Writers \ {w} : writer'[v] = writer[v]
    BY <1>0, <1>8 DEF DropSourceWorkRef
  <2>2. StoredOrDropped(writer[w].id) /\ writer'[w].pc = "idle"
    BY <1>0, <1>8 DEF DropSourceWorkRef, ReachInv, IdleWriter
  <2>3. UNCHANGED <<snaps, pruner, dropped, refs>> /\ source' = source \ {<<writer[w].id, "work">>}
    BY <1>8 DEF DropSourceWorkRef
  <2> QED BY <1>2, <2>1, <2>2, <2>3
<1>9. CASE StopCheckpoint(w)
  <2>1. \A v \in Writers \ {w} : writer'[v] = writer[v]
    BY <1>0, <1>9 DEF StopCheckpoint
  <2>2. writer'[w].pc = "idle"
    BY <1>0, <1>9 DEF StopCheckpoint, IdleWriter
  <2>3. UNCHANGED <<snaps, pruner, source, dropped>> /\ refs \subseteq refs'
    BY <1>9 DEF StopCheckpoint
  <2> QED BY <1>2, <2>1, <2>2, <2>3
<1> QED BY <1>3, <1>4, <1>5, <1>6, <1>7, <1>8, <1>9 DEF CheckpointStep

LEMMA PruneKeepsReach ==
    ASSUME Inv, ReachInv, NEW p \in Pruners, PruneStep(p)
    PROVE  ReachInv'
<1>0. pruner \in [Pruners -> PrunerState]
  BY DEF Inv, TypeOK
<1>2. ASSUME UNCHANGED <<snaps, source, writer>>, dropped \subseteq dropped',
             refs' = refs \/ \E ref : refs' = refs \ {ref} /\ ref[1] \in dropped,
             \A q \in Pruners : \/ pruner'[q] = pruner[q]
                                \/ pruner'[q].pc \notin {"index", "work"}
                                \/ pruner'[q].cur \in dropped'
      PROVE  ReachInv'
  <2> USE DEF ReachInv
  <2>1. CapturedWorkReachable'
    BY <1>2 DEF CapturedWorkReachable, RefsOf
  <2>2. \A id : StoredOrDropped(id) => StoredOrDropped(id)'
    BY <1>2 DEF StoredOrDropped, RefsOf
  <2>3. \A v \in Writers : writer[v].pc \in {"drop-index", "drop-work"} => (StoredOrDropped(writer[v].id))'
    BY <1>2, <2>2 DEF StoredOrDropped
  <2> QED BY <1>2, <2>1, <2>3
<1>3. CASE CheckNext(p)
  <2>1. \A q \in Pruners \ {p} : pruner'[q] = pruner[q]
    BY <1>0, <1>3 DEF CheckNext
  <2>2. pruner'[p].pc = "idle" \/ pruner'[p].cur \in dropped'
    BY <1>0, <1>3 DEF CheckNext, PrunerState, IdlePruner
  <2>3. UNCHANGED <<snaps, source, writer, refs>> /\ dropped \subseteq dropped'
    BY <1>3 DEF CheckNext
  <2> QED BY <1>2, <2>1, <2>2, <2>3
<1>4. CASE DeleteIndexRef(p) \/ DeleteWorkRef(p)
  <2>1. \A q \in Pruners \ {p} : pruner'[q] = pruner[q]
    BY <1>0, <1>4 DEF DeleteIndexRef, DeleteWorkRef
  <2>2. pruner[p].cur \in dropped /\ pruner'[p].cur = pruner[p].cur /\ dropped' = dropped
    BY <1>0, <1>4 DEF DeleteIndexRef, DeleteWorkRef, ReachInv, PrunerState
  <2>3. UNCHANGED <<snaps, source, writer>>
    BY <1>4 DEF DeleteIndexRef, DeleteWorkRef
  <2>4. PICK ref \in {<<pruner[p].cur, "index">>, <<pruner[p].cur, "work">>} : refs' = refs \ {ref}
    BY <1>4 DEF DeleteIndexRef, DeleteWorkRef
  <2>5. refs' = refs \ {ref} /\ ref[1] \in dropped
    BY <2>2, <2>4
  <2> QED BY <1>2, <2>1, <2>2, <2>3, <2>5
<1>5. CASE Plan(p) \/ StartPrune(p) \/ DeleteRow(p) \/ FinishPrune(p) \/ StopPrune(p)
  <2>1. \A q \in Pruners \ {p} : pruner'[q] = pruner[q]
    BY <1>0, <1>5 DEF Plan, StartPrune, DeleteRow, FinishPrune, StopPrune
  <2>2. pruner'[p].pc \in {"idle", "planned", "check"}
    BY <1>0, <1>5 DEF Plan, StartPrune, DeleteRow, FinishPrune, StopPrune, PrunerState, IdlePruner
  <2>3. UNCHANGED <<snaps, source, writer, refs, dropped>>
    BY <1>5 DEF Plan, StartPrune, DeleteRow, FinishPrune, StopPrune
  <2> QED BY <1>2, <2>1, <2>2, <2>3
<1> QED BY <1>3, <1>4, <1>5 DEF PruneStep

\* Every captured snapshot that no checkpoint found unchanged and no prune set
\* out to delete keeps both its commits reachable, at every point where a
\* checkpoint or a prune may stop (store_snapshot, remove_source_snapshot_refs,
\* delete_snapshot_refs).
THEOREM CapturedWorkAlwaysReachable == Spec => []CapturedWorkReachable
<1>1. Init => ReachInv
  BY DEF Init, ReachInv, CapturedWorkReachable, IdleWriter, IdlePruner
<1>2. Inv /\ ReachInv /\ [Next]_vars => ReachInv'
  <2> SUFFICES ASSUME Inv, ReachInv, [Next]_vars PROVE ReachInv'
    OBVIOUS
  <2>1. CASE UNCHANGED vars
    BY <2>1 DEF vars, ReachInv, CapturedWorkReachable, StoredOrDropped, RefsOf
  <2> QED BY <2>1, CheckpointKeepsReach, PruneKeepsReach DEF Next
<1>3. ReachInv => CapturedWorkReachable
  BY DEF ReachInv
<1> QED BY <1>1, <1>2, <1>3, StoreInvariant, PTL DEF Spec

-----------------------------------------------------------------------------
(* SnapshotIdentity: types                                                 *)

Steps == {"idle", "status", "supported", "index", "copied", "updated", "work"}
CaptureType ==
    [pc : Steps, status : {Nothing} \cup {Status(w) : w \in Workspace}, index : Tree, copied : Tree,
     work : Tree, torn : BOOLEAN]

IdentityTypeOK ==
    /\ work \in Workspace
    /\ capture \in CaptureType
    /\ capture.pc # "idle" => capture.status \in {Status(w) : w \in Workspace}
    /\ capture.pc \notin {"idle", "status"} => capture.status.head \in Tree

(* What git status tells of a workspace.                                   *)
LEMMA StatusTells ==
    ASSUME NEW status \in {Status(w) : w \in Workspace}
    PROVE  /\ status.branch \in Branches \cup {Detached}
           /\ status.head \in Tree \cup {Initial}
           /\ status.untracked \subseteq Files
<1> PICK w \in Workspace : status = Status(w)
  OBVIOUS
<1> QED BY DEF Status, Untracked, Workspace

(* What git add makes of the index of a capture and the files is a tree.    *)
LEMMA WithIncludedIsTree ==
    ASSUME NEW tree \in Tree, NEW files \in Tree
    PROVE  WithIncluded(tree, files) \in Tree
BY DEF WithIncluded, Tree

(* A step of the user leaves the store alone and ends the quiet; it leaves *)
(* the index alone too, or the capture remembers that it was changed.      *)
LEMMA UserStep ==
    ASSUME IdentityTypeOK, UserMoves
    PROVE  /\ work' \in Workspace
           /\ quiet' = FALSE
           /\ latest' = latest /\ answer' = answer
           /\ \/ capture' = capture /\ work'.index = work.index
              \/ capture' = [capture EXCEPT !.torn = @ \/ capture.pc # "idle"]
<1> USE DEF UserDoes, IdentityTypeOK
<1>1. CASE \E f \in Files : AddFile(f) \/ RemoveCached(f)
  <2>1. PICK f \in Files : AddFile(f) \/ RemoveCached(f)
    BY <1>1
  <2>2. PICK index \in Tree, operation \in Operations :
             work' = [work EXCEPT !.index = index, !.operation = operation]
    <3>1. /\ [work.index EXCEPT ![f] = work.files[f]] \in Tree
          /\ [work.index EXCEPT ![f] = Absent] \in Tree
      BY DEF Workspace, Tree
    <3>2. \/ work' = [work EXCEPT !.index = [work.index EXCEPT ![f] = work.files[f]], !.operation = work.operation]
          \/ work' = [work EXCEPT !.index = [work.index EXCEPT ![f] = work.files[f]], !.operation = "staged"]
          \/ work' = [work EXCEPT !.index = [work.index EXCEPT ![f] = Absent], !.operation = work.operation]
      BY <2>1 DEF AddFile, RemoveCached, Workspace
    <3> QED BY <3>1, <3>2 DEF Workspace, Operations
  <2> QED BY <2>1, <2>2 DEF AddFile, RemoveCached, IndexTouched, Workspace
<1>2. CASE \E f \in Files, body \in Bodies \cup {Absent} : EditFile(f, body)
  BY <1>2 DEF EditFile, IndexUntouched, Workspace, Tree
<1>3. CASE \E b \in Branches \cup {Detached} : SwitchBranch(b)
  BY <1>3 DEF SwitchBranch, IndexUntouched, Workspace
<1>4. CASE Commit
  BY <1>4 DEF Commit, IndexUntouched, Workspace, Operations
<1>5. CASE BeginOperation
  BY <1>5 DEF BeginOperation, IndexTouched, Workspace, Operations
<1>6. CASE AbortOperation
  <2>1. HeadTree(work) \in Tree
    BY DEF HeadTree, EmptyTree, Workspace, Tree
  <2>2. [f \in Files |-> IF f \in Staged THEN HeadTree(work)[f] ELSE work.files[f]] \in Tree
    BY <2>1 DEF Workspace, Tree
  <2>3. PICK files \in Tree : files = [f \in Files |-> IF f \in Staged THEN HeadTree(work)[f] ELSE work.files[f]]
    BY <2>2
  <2>4. /\ work' = [work EXCEPT !.operation = "none", !.index = HeadTree(work), !.files = files]
        /\ quiet' = FALSE /\ latest' = latest /\ answer' = answer
    BY <1>6, <2>3 DEF AbortOperation
  <2>5. work' \in Workspace
    BY <2>1, <2>4 DEF Workspace, Operations
  <2> QED BY <1>6, <2>4, <2>5 DEF AbortOperation, IndexTouched
<1> QED BY <1>1, <1>2, <1>3, <1>4, <1>5, <1>6 DEF UserMoves

(* Every step keeps the types: before a capture goes on, it knows a commit. *)
LEMMA TypeStep == IdentityTypeOK /\ [IdentityNext]_identityVars => IdentityTypeOK'
<1> SUFFICES ASSUME IdentityTypeOK, [IdentityNext]_identityVars PROVE IdentityTypeOK'
  OBVIOUS
<1> USE DEF IdentityTypeOK, CaptureType, Steps, Captures
<1>0. EmptyTree \in Tree /\ NoCapture \in CaptureType
  BY DEF EmptyTree, Tree, NoCapture
<1>1. CASE UserMoves
  <2>1. work' \in Workspace
    BY <1>1, UserStep
  <2>2. CASE capture' = capture
    BY <2>1, <2>2
  <2>3. CASE capture' = [capture EXCEPT !.torn = @ \/ capture.pc # "idle"]
    <3>1. (capture.torn \/ capture.pc # "idle") \in BOOLEAN
      OBVIOUS
    <3> QED BY <2>1, <2>3, <3>1
  <2> QED BY <1>1, <2>2, <2>3, UserStep
<1>2. CASE ReadStatus
  <2>1. Status(work) \in {Status(w) : w \in Workspace}
    OBVIOUS
  <2> QED BY <1>0, <1>2, <2>1 DEF ReadStatus, NoCapture
<1>3. CASE CaptureFails
  BY <1>0, <1>3 DEF CaptureFails, NoCapture
<1>4. CASE EnsureSupported
  <2>1. capture.status.head \in Tree \cup {Initial}
    BY <1>4, StatusTells DEF EnsureSupported
  <2>2. capture.status.head # Initial
    BY <1>4 DEF EnsureSupported, Supported, StatusSupported, IsInitial
  <2> QED BY <1>4, <2>1, <2>2 DEF EnsureSupported
<1>5. CASE ReadIndexTree
  BY <1>5 DEF ReadIndexTree, Workspace
<1>6. CASE CopyIndex
  BY <1>6 DEF CopyIndex, Workspace
<1>7. CASE UpdateTracked
  <2>1. [f \in Files |-> IF capture.copied[f] # Absent THEN work.files[f] ELSE Absent] \in Tree
    BY DEF Workspace, Tree
  <2> QED BY <1>7, <2>1 DEF UpdateTracked
<1>10. CASE AddIncluded
  <2>1. WithIncluded(capture.work, work.files) \in Tree
    BY WithIncludedIsTree DEF Workspace
  <2> QED BY <1>10, <2>1 DEF AddIncluded
<1>8. CASE CompareWithLatest
  BY <1>0, <1>8 DEF CompareWithLatest, NoCapture
<1>9. CASE UNCHANGED identityVars
  BY <1>9 DEF identityVars
<1> QED BY <1>1, <1>2, <1>3, <1>4, <1>5, <1>6, <1>7, <1>8, <1>9, <1>10 DEF IdentityNext, CaptureSteps

LEMMA TypeInit == IdentityInit => IdentityTypeOK
BY StartAssumption DEF IdentityInit, IdentityTypeOK, CaptureType, Steps, NoCapture, EmptyTree, Tree

(* The workspace and the capture always have their types.                  *)
THEOREM IdentityTypeCorrect == IdentitySpec => []IdentityTypeOK
BY TypeInit, TypeStep, PTL DEF IdentitySpec

-----------------------------------------------------------------------------
(* Only a change of the index tears a capture                              *)

(* What was not tracked when the status was read is still not tracked, and *)
(* the index was the same whenever it was read.                            *)
IndexWasOne ==
    capture.pc # "idle" /\ ~capture.torn =>
        /\ \A f \in capture.status.untracked : work.index[f] = Absent
        /\ capture.pc \in {"index", "copied", "updated", "work"} => capture.index = work.index
        /\ capture.pc \in {"copied", "updated", "work"} => capture.copied = work.index

(* Of what the copied index does not track there is nothing in the tree     *)
(* before the included paths are added, and they all, and only they, after. *)
FilesWereThere ==
    \A f \in Files :
        /\ capture.pc = "updated" /\ capture.copied[f] = Absent => capture.work[f] = Absent
        /\ capture.pc = "work" /\ capture.copied[f] = Absent => (capture.work[f] # Absent <=> f \in Included)

CaptureIsWhole == IndexWasOne /\ FilesWereThere

(* A capture that was not torn verifies when it is applied.                *)
LEMMA WholeCaptureVerifies ==
    ASSUME IdentityTypeOK, CaptureIsWhole, capture.pc = "work", ~capture.torn
    PROVE  Verifies(Applied(Metadata), Metadata)
<1>1. capture.index = capture.copied /\ capture.index = work.index
  BY DEF CaptureIsWhole, IndexWasOne
<1>2. capture.status.untracked \subseteq Files
  BY StatusTells DEF IdentityTypeOK
<1>3. capture.work \in Tree
  BY DEF IdentityTypeOK, CaptureType
<1>4. WorkTree(capture.index, capture.work, Included) = capture.work
  <2>1. \A f \in Files : f \notin Included /\ capture.index[f] = Absent => capture.work[f] = Absent
    BY <1>1 DEF CaptureIsWhole, FilesWereThere
  <2> QED BY <1>3, <2>1 DEF WorkTree, Tree
<1>5. \A f \in Included : capture.work[f] # Absent
  <2> SUFFICES ASSUME NEW f \in Included PROVE capture.work[f] # Absent
    OBVIOUS
  <2>1. f \in Files /\ capture.copied[f] = Absent
    BY <1>1, <1>2 DEF Included, CaptureIsWhole, IndexWasOne
  <2> QED BY <2>1 DEF CaptureIsWhole, FilesWereThere
<1>6. \A f \in Excluded : capture.work[f] = Absent
  <2> SUFFICES ASSUME NEW f \in Excluded PROVE capture.work[f] = Absent
    OBVIOUS
  <2>1. f \in Files /\ f \notin Included /\ capture.copied[f] = Absent
    BY <1>1, <1>2 DEF Excluded, Included, CaptureIsWhole, IndexWasOne
  <2> QED BY <2>1 DEF CaptureIsWhole, FilesWereThere
<1> QED BY <1>4, <1>5, <1>6 DEF Verifies, Applied, Metadata, IncludedThere, ExcludedAbsent

(* The user's steps and those of the capture keep it whole.                *)
LEMMA WholeStep ==
    IdentityTypeOK /\ CaptureIsWhole /\ [IdentityNext]_identityVars => CaptureIsWhole'
<1> SUFFICES ASSUME IdentityTypeOK, CaptureIsWhole, [IdentityNext]_identityVars PROVE CaptureIsWhole'
  OBVIOUS
<1> USE DEF CaptureIsWhole, IndexWasOne, FilesWereThere, Captures
<1>t. capture \in CaptureType /\ work \in Workspace
  BY DEF IdentityTypeOK
<1>0. ASSUME capture' = NoCapture PROVE CaptureIsWhole'
  BY <1>0 DEF NoCapture
<1>1. CASE UserMoves
  <2>1. CASE capture' = capture /\ work'.index = work.index
    BY <2>1 DEF Included
  <2>2. CASE capture' = [capture EXCEPT !.torn = @ \/ capture.pc # "idle"]
    <3>1. /\ capture'.pc = capture.pc /\ capture'.status = capture.status
          /\ capture'.work = capture.work /\ capture'.copied = capture.copied
      BY <1>t, <2>2 DEF CaptureType
    <3>2. capture.pc # "idle" => capture'.torn
      BY <1>t, <2>2, Zenon DEF CaptureType
    <3> QED BY <3>1, <3>2 DEF Included
  <2> QED BY <1>1, <2>1, <2>2, UserStep
<1>2. CASE ReadStatus
  <2>1. /\ capture'.pc = "status" /\ capture'.status = Status(work)
        /\ work' = work
    BY <1>2 DEF ReadStatus, NoCapture
  <2> QED BY <2>1 DEF Status, Untracked
<1>3. CASE CaptureFails
  BY <1>0, <1>3 DEF CaptureFails
<1>4. CASE EnsureSupported
  BY <1>t, <1>4 DEF EnsureSupported, CaptureType
<1>5. CASE ReadIndexTree
  BY <1>t, <1>5 DEF ReadIndexTree, CaptureType
<1>6. CASE CopyIndex
  BY <1>t, <1>6 DEF CopyIndex, CaptureType
<1>7. CASE UpdateTracked
  <2>1. PICK tree : tree = [f \in Files |-> IF capture.copied[f] # Absent THEN work.files[f] ELSE Absent]
    OBVIOUS
  <2>2. /\ capture' = [capture EXCEPT !.pc = "updated", !.work = tree]
        /\ work' = work /\ capture.pc = "copied"
    BY <1>7, <2>1 DEF UpdateTracked
  <2>3. /\ capture'.pc = "updated" /\ capture'.work = tree
        /\ capture'.status = capture.status /\ capture'.torn = capture.torn
        /\ capture'.index = capture.index /\ capture'.copied = capture.copied
    BY <1>t, <2>2 DEF CaptureType
  <2>4. IndexWasOne'
    BY <2>2, <2>3
  <2>5. FilesWereThere'
    BY <2>1, <2>3
  <2> QED BY <2>4, <2>5
<1>10. CASE AddIncluded
  <2>1. PICK tree : tree = WithIncluded(capture.work, work.files)
    OBVIOUS
  <2>2. /\ capture' = [capture EXCEPT !.pc = "work", !.work = tree]
        /\ work' = work /\ capture.pc = "updated"
        /\ \A f \in Included : capture.work[f] # Absent \/ work.files[f] # Absent
    BY <1>10, <2>1 DEF AddIncluded
  <2>3. /\ capture'.pc = "work" /\ capture'.work = tree
        /\ capture'.status = capture.status /\ capture'.torn = capture.torn
        /\ capture'.index = capture.index /\ capture'.copied = capture.copied
    BY <1>t, <2>2 DEF CaptureType
  <2>4. IndexWasOne'
    BY <2>2, <2>3
  <2>5. Included' = Included
    BY <2>3 DEF Included
  <2>6. \A f \in Files : tree[f] = IF f \in Included THEN work.files[f] ELSE capture.work[f]
    BY <2>1 DEF WithIncluded
  <2>7. FilesWereThere'
    BY <2>2, <2>3, <2>5, <2>6
  <2> QED BY <2>4, <2>7
<1>8. CASE CompareWithLatest
  BY <1>0, <1>8 DEF CompareWithLatest
<1>9. CASE UNCHANGED identityVars
  BY <1>9 DEF identityVars, Included
<1> QED BY <1>1, <1>2, <1>3, <1>4, <1>5, <1>6, <1>7, <1>8, <1>9, <1>10 DEF IdentityNext, CaptureSteps

(* The inductive invariant of OnlyIndexChangesTear.                        *)
TearInv == IdentityTypeOK /\ CaptureIsWhole /\ OnlyIndexChangesTear

LEMMA TearInit == IdentityInit => TearInv
<1> SUFFICES ASSUME IdentityInit PROVE TearInv
  OBVIOUS
<1>1. CaptureIsWhole
  BY DEF IdentityInit, CaptureIsWhole, IndexWasOne, FilesWereThere, NoCapture
<1>2. OnlyIndexChangesTear
  BY EarlierAssumption DEF IdentityInit, OnlyIndexChangesTear
<1> QED BY <1>1, <1>2, TypeInit DEF TearInv

LEMMA TearStep == TearInv /\ [IdentityNext]_identityVars => TearInv'
<1> SUFFICES ASSUME TearInv, [IdentityNext]_identityVars PROVE TearInv'
  OBVIOUS
<1>1. IdentityTypeOK' /\ CaptureIsWhole'
  BY TypeStep, WholeStep DEF TearInv
<1>2. OnlyIndexChangesTear'
  <2>1. CASE CompareWithLatest /\ latest' = Metadata
    <3>1. ~Metadata.torn => Verifies(Applied(Metadata), Metadata)
      BY <2>1, WholeCaptureVerifies DEF CompareWithLatest, Metadata, TearInv
    <3> QED BY <2>1, <3>1 DEF OnlyIndexChangesTear
  <2>2. latest' = latest \/ (CompareWithLatest /\ latest' = Metadata)
    BY UserStep DEF TearInv, IdentityNext, CaptureSteps, identityVars, Captures, CaptureFails, ReadStatus,
       EnsureSupported, ReadIndexTree, CopyIndex, UpdateTracked, AddIncluded, CompareWithLatest
  <2>3. CASE latest' = latest
    BY <2>3 DEF TearInv, OnlyIndexChangesTear
  <2> QED BY <2>1, <2>2, <2>3
<1> QED BY <1>1, <1>2 DEF TearInv

(* A snapshot whose capture saw edits, new files, removals, commits and    *)
(* branches come and go can be applied and verified: create_snapshot reads *)
(* the status first, so only a change of the index may tear it.            *)
THEOREM TornOnlyByIndex == IdentitySpec => []OnlyIndexChangesTear
<1>1. TearInv => OnlyIndexChangesTear
  BY DEF TearInv
<1> QED BY <1>1, TearInit, TearStep, PTL DEF IdentitySpec

-----------------------------------------------------------------------------
(* A capture left alone keeps the work                                     *)

(* What a quiet capture has found is the workspace as it is.               *)
CaptureIsCurrent ==
    quiet /\ capture.pc # "idle" =>
        /\ capture.status = Status(work)
        /\ capture.pc # "status" => work.operation = "none"
        /\ capture.pc \in {"index", "copied", "updated", "work"} => capture.index = work.index
        /\ capture.pc \in {"copied", "updated", "work"} => capture.copied = work.index
        /\ capture.pc = "updated" => capture.work = WorkTree(work.index, work.files, {})
        /\ capture.pc = "work" => capture.work = WorkTree(work.index, work.files, Included)

(* Every file but the excluded ones is in the tree of a quiet capture.     *)
KeepsTheWork(m) ==
    /\ m.head = work.head
    /\ m.index = work.index
    /\ \A f \in Files : m.work[f] = IF f \in Untracked(work) \cap Excludes THEN Absent ELSE work.files[f]
    /\ m.capsule = Nothing
    /\ Verifies(Applied(m), m)
AnsweredKeepsTheWork == quiet /\ Answered => KeepsTheWork(latest)

LEMMA QuietCaptureKeeps ==
    ASSUME IdentityTypeOK, CaptureIsCurrent, quiet, capture.pc = "work"
    PROVE  KeepsTheWork(Metadata)
<1>1. /\ capture.status = Status(work) /\ capture.index = work.index
      /\ capture.work = WorkTree(work.index, work.files, Included)
  BY DEF CaptureIsCurrent
<1>2. work.index \in Tree /\ work.files \in Tree
  BY DEF IdentityTypeOK, Workspace
<1>3. Included = {f \in Files : f \in Untracked(work) /\ f \notin Excludes}
  BY <1>1 DEF Included, Status, Untracked
<1>4. Excluded = {f \in Files : f \in Untracked(work) /\ f \in Excludes}
  BY <1>1 DEF Excluded, Status, Untracked
<1>5. \A f \in Files : capture.work[f] = IF f \in Untracked(work) \cap Excludes THEN Absent ELSE work.files[f]
  <2> SUFFICES ASSUME NEW f \in Files
               PROVE  capture.work[f] = IF f \in Untracked(work) \cap Excludes THEN Absent ELSE work.files[f]
    OBVIOUS
  <2>1. capture.work[f] = IF work.index[f] # Absent \/ f \in Included THEN work.files[f] ELSE Absent
    BY <1>1 DEF WorkTree
  <2> QED BY <1>3, <2>1 DEF Untracked
<1>6. WorkTree(capture.index, capture.work, Included) = capture.work
  BY <1>1 DEF WorkTree
<1>7. \A f \in Included : capture.work[f] # Absent
  BY <1>3, <1>5 DEF Untracked
<1>8. \A f \in Excluded : capture.work[f] = Absent
  BY <1>4, <1>5
<1>9. Verifies(Applied(Metadata), Metadata)
  BY <1>6, <1>7, <1>8 DEF Verifies, Applied, Metadata, IncludedThere, ExcludedAbsent
<1>10. Metadata.head = work.head
  BY <1>1 DEF Metadata, Status
<1> QED BY <1>1, <1>5, <1>9, <1>10 DEF KeepsTheWork, Metadata

(* What a capture finds is among what is hashed.                           *)
LEMMA CaptureIsHashed ==
    ASSUME IdentityTypeOK, capture.pc = "work"
    PROVE  Metadata \in CapturedMetadata
<1>1. /\ capture.status.branch \in Branches \cup {Detached}
      /\ capture.status.untracked \subseteq Files
  BY StatusTells DEF IdentityTypeOK
<1>2. /\ capture.status.head \in Tree /\ capture.index \in Tree /\ capture.work \in Tree
      /\ capture.torn \in BOOLEAN
  BY DEF IdentityTypeOK, CaptureType
<1>3. Included \in SUBSET (Files \ Excludes)
  BY <1>1 DEF Included
<1>4. {[path |-> f, reason |-> "excluded"] : f \in Excluded}
        \in {{[path |-> f, reason |-> "excluded"] : f \in names} : names \in SUBSET Excludes}
  BY DEF Excluded
<1> QED BY <1>1, <1>2, <1>3, <1>4 DEF Metadata, CapturedMetadata

(* A snapshot that says the same as what a quiet capture found stands for  *)
(* it: neither the branch nor what the capture saw is asked for.           *)
LEMMA SameSayingKeeps ==
    ASSUME NEW m, NEW n \in CapturedMetadata, SaysTheSame(m, n), KeepsTheWork(n)
    PROVE  KeepsTheWork(m)
<1>1. Said(m) = Said(n)
  BY DEF SaysTheSame
<1>2. /\ Said(n).head = n.head /\ Said(n).index = n.index /\ Said(n).work = n.work
      /\ Said(n).capsule = n.capsule /\ Said(n).included = n.included
      /\ Said(n).excluded = n.excluded /\ Said(n).sidecars = n.sidecars
      /\ DOMAIN Said(n) = {"project", "branch", "head", "index", "work", "capsule", "included",
                           "excluded", "sidecars", "children", "torn"}
  BY DEF Said, CapturedMetadata
<1>3. DOMAIN Said(m) = DOMAIN m
  BY DEF Said
<1>4. /\ Said(m).head = m.head /\ Said(m).index = m.index /\ Said(m).work = m.work
      /\ Said(m).capsule = m.capsule /\ Said(m).included = m.included
      /\ Said(m).excluded = m.excluded /\ Said(m).sidecars = m.sidecars
  BY <1>1, <1>2, <1>3 DEF Said
<1>5. /\ m.head = n.head /\ m.index = n.index /\ m.work = n.work /\ m.capsule = n.capsule
      /\ m.included = n.included /\ m.excluded = n.excluded /\ m.sidecars = n.sidecars
  BY <1>1, <1>2, <1>4
<1> QED BY <1>5 DEF KeepsTheWork, Verifies, Applied, WorkTree, IncludedThere, ExcludedAbsent

(* The inductive invariant of AnsweredWorkIsKept.                          *)
KeptInv ==
    /\ IdentityTypeOK /\ CaptureIsCurrent
    /\ latest \in Hashed \cup {Nothing}
    /\ AnsweredKeepsTheWork

LEMMA KeptInit == IdentityInit => KeptInv
BY TypeInit DEF IdentityInit, KeptInv, CaptureIsCurrent, AnsweredKeepsTheWork, Answered, NoAnswer, NoCapture, Hashed

LEMMA CurrentStep ==
    IdentityTypeOK /\ CaptureIsCurrent /\ [IdentityNext]_identityVars => CaptureIsCurrent'
<1> SUFFICES ASSUME IdentityTypeOK, CaptureIsCurrent, [IdentityNext]_identityVars PROVE CaptureIsCurrent'
  OBVIOUS
<1> USE DEF CaptureIsCurrent, Captures
<1>t. capture \in CaptureType
  BY DEF IdentityTypeOK
<1>0. ASSUME capture' = NoCapture PROVE CaptureIsCurrent'
  BY <1>0 DEF NoCapture
<1>1. CASE UserMoves
  BY <1>1, UserStep
<1>2. CASE ReadStatus
  BY <1>2 DEF ReadStatus, NoCapture, Status, Untracked, HeadTree
<1>3. CASE CaptureFails
  BY <1>0, <1>3 DEF CaptureFails
<1>4. CASE EnsureSupported
  <2>1. /\ capture' = [capture EXCEPT !.pc = "supported"] /\ capture.pc = "status"
        /\ work' = work /\ quiet' = quiet /\ work.operation = "none"
    BY <1>4 DEF EnsureSupported, Supported, UnsupportedOperation
  <2>2. capture'.pc = "supported" /\ capture'.status = capture.status
    BY <1>t, <2>1 DEF CaptureType
  <2> QED BY <2>1, <2>2 DEF Status, Untracked, HeadTree
<1>5. CASE ReadIndexTree
  <2>1. /\ capture' = [capture EXCEPT !.pc = "index", !.index = work.index]
        /\ capture.pc = "supported" /\ work' = work /\ quiet' = quiet
    BY <1>5 DEF ReadIndexTree
  <2>2. capture'.pc = "index" /\ capture'.status = capture.status /\ capture'.index = work.index
    BY <1>t, <2>1 DEF CaptureType
  <2> QED BY <2>1, <2>2 DEF Status, Untracked, HeadTree
<1>6. CASE CopyIndex
  <2>1. /\ capture' = [capture EXCEPT !.pc = "copied", !.copied = work.index]
        /\ capture.pc = "index" /\ work' = work /\ quiet' = quiet
    BY <1>6 DEF CopyIndex
  <2>2. /\ capture'.pc = "copied" /\ capture'.status = capture.status
        /\ capture'.index = capture.index /\ capture'.copied = work.index
    BY <1>t, <2>1 DEF CaptureType
  <2> QED BY <2>1, <2>2 DEF Status, Untracked, HeadTree
<1>7. CASE UpdateTracked
  <2>1. PICK tree : tree = [f \in Files |-> IF capture.copied[f] # Absent THEN work.files[f] ELSE Absent]
    OBVIOUS
  <2>2. /\ capture' = [capture EXCEPT !.pc = "updated", !.work = tree]
        /\ capture.pc = "copied" /\ work' = work /\ quiet' = quiet
    BY <1>7, <2>1 DEF UpdateTracked
  <2>3. /\ capture'.pc = "updated" /\ capture'.work = tree /\ capture'.status = capture.status
        /\ capture'.index = capture.index /\ capture'.copied = capture.copied
    BY <1>t, <2>2 DEF CaptureType
  <2>4. quiet => tree = WorkTree(work.index, work.files, {})
    BY <2>1, <2>2 DEF WorkTree
  <2> QED BY <2>2, <2>3, <2>4 DEF Status, Untracked, HeadTree, WorkTree
<1>10. CASE AddIncluded
  <2>1. PICK tree : tree = WithIncluded(capture.work, work.files)
    OBVIOUS
  <2>2. /\ capture' = [capture EXCEPT !.pc = "work", !.work = tree]
        /\ capture.pc = "updated" /\ work' = work /\ quiet' = quiet
    BY <1>10, <2>1 DEF AddIncluded
  <2>3. /\ capture'.pc = "work" /\ capture'.work = tree /\ capture'.status = capture.status
        /\ capture'.index = capture.index /\ capture'.copied = capture.copied
    BY <1>t, <2>2 DEF CaptureType
  <2>4. quiet => tree = WorkTree(work.index, work.files, Included)
    BY <2>1, <2>2 DEF WithIncluded, WorkTree
  <2> QED BY <2>2, <2>3, <2>4 DEF Status, Untracked, HeadTree, Included, WorkTree
<1>8. CASE CompareWithLatest
  BY <1>0, <1>8 DEF CompareWithLatest
<1>9. CASE UNCHANGED identityVars
  BY <1>9 DEF identityVars, Status, Untracked, HeadTree, Included, WorkTree
<1> QED BY <1>1, <1>2, <1>3, <1>4, <1>5, <1>6, <1>7, <1>8, <1>9, <1>10 DEF IdentityNext, CaptureSteps

(* No two states of which the snapshots differ in more than the branch have *)
(* one hash.  MCSnapshotStore has TLC evaluate it for its constants.     *)
HashTellsStatesApart == \A m, n \in Hashed : StateHash(m) = StateHash(n) => SaysTheSame(m, n)

(* checkpoint_if_changed may keep the snapshot it has: it keeps the work.  *)
LEMMA CompareKeeps ==
    ASSUME HashTellsStatesApart, KeptInv, CompareWithLatest
    PROVE  latest' \in Hashed \cup {Nothing} /\ AnsweredKeepsTheWork'
<1>1. Metadata \in CapturedMetadata
  BY CaptureIsHashed DEF KeptInv, CompareWithLatest
<1>2. latest' = Metadata \/ (latest' = latest /\ latest # Nothing /\ StateHash(latest) = StateHash(Metadata))
  BY DEF CompareWithLatest
<1>3. latest' \in Hashed \cup {Nothing}
  BY <1>1, <1>2 DEF KeptInv, Hashed
<1>4. ASSUME quiet PROVE KeepsTheWork(latest')
  <2>1. KeepsTheWork(Metadata)
    BY <1>4, QuietCaptureKeeps DEF KeptInv, CompareWithLatest
  <2>2. CASE latest' = Metadata
    BY <2>1, <2>2
  <2>3. CASE latest' = latest /\ latest # Nothing /\ StateHash(latest) = StateHash(Metadata)
    <3>1. SaysTheSame(latest, Metadata)
      BY <1>1, <2>3 DEF HashTellsStatesApart, KeptInv, Hashed
    <3> QED BY <1>1, <2>1, <2>3, <3>1, SameSayingKeeps
  <2> QED BY <1>2, <2>2, <2>3
<1>5. work' = work /\ quiet' = quiet
  BY DEF CompareWithLatest
<1>6. quiet' => KeepsTheWork(latest)'
  BY <1>4, <1>5 DEF KeepsTheWork, Untracked
<1> QED BY <1>3, <1>6 DEF AnsweredKeepsTheWork

LEMMA KeptStep ==
    ASSUME HashTellsStatesApart, KeptInv, [IdentityNext]_identityVars
    PROVE  KeptInv'
<1>1. IdentityTypeOK' /\ CaptureIsCurrent'
  BY TypeStep, CurrentStep DEF KeptInv
<1>2. latest' \in Hashed \cup {Nothing} /\ AnsweredKeepsTheWork'
  <2> USE DEF KeptInv, AnsweredKeepsTheWork, Answered, Captures
  <2>1. CASE UserMoves
    BY <2>1, UserStep
  <2>2. CASE ReadStatus
    BY <2>2 DEF ReadStatus, NoAnswer
  <2>3. CASE CaptureFails
    BY <2>3 DEF CaptureFails, Failure
  <2>4. ASSUME UNCHANGED <<work, latest, answer, quiet>> PROVE latest' \in Hashed \cup {Nothing} /\ AnsweredKeepsTheWork'
    BY <2>4 DEF KeepsTheWork, Untracked
  <2>5. CASE EnsureSupported \/ ReadIndexTree \/ CopyIndex \/ UpdateTracked \/ AddIncluded
    BY <2>4, <2>5 DEF EnsureSupported, ReadIndexTree, CopyIndex, UpdateTracked, AddIncluded
  <2>6. CASE CompareWithLatest
    BY <2>6, CompareKeeps
  <2>7. CASE UNCHANGED identityVars
    BY <2>4, <2>7 DEF identityVars
  <2> QED BY <2>1, <2>2, <2>3, <2>5, <2>6, <2>7 DEF IdentityNext, CaptureSteps
<1> QED BY <1>1, <1>2 DEF KeptInv

(* If the hash tells states apart, what checkpoint_if_changed answers is    *)
(* true: after a capture that its user did not disturb, the latest snapshot *)
(* has the commit, the index and every file but the excluded ones, whether  *)
(* it was made now or found to be the same.                                 *)
THEOREM QuietWorkIsKept ==
    ASSUME HashTellsStatesApart
    PROVE  IdentitySpec => []AnsweredWorkIsKept
<1>1. KeptInv => AnsweredWorkIsKept
  BY DEF KeptInv, AnsweredKeepsTheWork, KeepsTheWork, AnsweredWorkIsKept, Applied
<1> QED BY <1>1, KeptInit, KeptStep, PTL DEF IdentitySpec

(* Both: the latest snapshot can be verified unless the index changed      *)
(* beneath its capture, and an undisturbed answer stands for all the work. *)
THEOREM CheckpointsKeepTheWorkAlways ==
    ASSUME HashTellsStatesApart
    PROVE  IdentitySpec => []CheckpointsKeepTheWork
<1>1. OnlyIndexChangesTear /\ AnsweredWorkIsKept => CheckpointsKeepTheWork
  BY DEF CheckpointsKeepTheWork
<1> QED BY <1>1, TornOnlyByIndex, QuietWorkIsKept, PTL
=============================================================================
