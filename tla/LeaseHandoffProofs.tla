------------------------- MODULE LeaseHandoffProofs -------------------------
(* Theorems about LeaseHandoff for every set of devices, leases, handoffs, *)
(* snapshots and recoveries, with their proofs.                            *)
EXTENDS LeaseHandoff, FiniteSetTheorems, TLAPS

USE NoneAssumption, TtlAssumption, BoundAssumption

-----------------------------------------------------------------------------
(* Facts about the helpers the actions are built from.                     *)

\* The sequence number publish assigns is a natural number.
LEMMA NextSequenceType == NextSequence \in Nat
<1>1. IsFiniteSet({s \in Snapshots : Stored(s)})
  BY FiniteAssumption, FS_Subset
<1>2. QED
  BY <1>1, FS_CardinalityType DEF NextSequence

\* insert_handoff_journal keeps the journal a table of phase sequences.
LEMMA RecordType ==
  ASSUME NEW h \in Handoffs, NEW phases \in Seq(JournalPhase),
         journal \in [Handoffs -> Seq(JournalPhase)], Record(h, phases)
  PROVE  journal' \in [Handoffs -> Seq(JournalPhase)]
BY DEF Record

\* Freeing a lease keeps the leases table well-typed.
LEMMA ReleaseLeaseType ==
  ASSUME NEW h \in Handoffs, leases \in [Leases -> Lease], ReleaseLease(h)
  PROVE  leases' \in [Leases -> Lease]
<1>1. ASSUME NEW l \in Leases
      PROVE  [leases[l] EXCEPT !.state = "Active", !.handoff = None] \in Lease
  BY DEF Lease, LeaseState
<1>2. \A l \in Leases : leases[l] \in Lease
  OBVIOUS
<1>3. QED
  BY <1>1, <1>2 DEF ReleaseLease

\* The three ways a handoff ends keep its row and its lease well-typed.
LEMMA EndingsType ==
  ASSUME TypeOK, NEW h \in Handoffs, handoffs[h] \in Handoff,
         \/ AbortWrites(h) /\ UNCHANGED transfers
         \/ CommitRejectWrites(h)
         \/ CommitAcceptWrites(h)
  PROVE  /\ leases' \in [Leases -> Lease]
         /\ handoffs' \in [Handoffs -> Handoff \cup {NoHandoff}]
         /\ journal' \in [Handoffs -> Seq(JournalPhase)]
         /\ transfers' \subseteq Transfer
<1>1. CASE AbortWrites(h) /\ UNCHANGED transfers
  <2>1. <<"Aborted">> \in Seq(JournalPhase)
    BY DEF JournalPhase
  <2>2. QED
    BY <1>1, <2>1, ReleaseLeaseType, RecordType
    DEF AbortWrites, TypeOK, Handoff, PendingStates, TerminalStates
<1>2. CASE CommitRejectWrites(h)
  BY <1>2, ReleaseLeaseType DEF CommitRejectWrites, TypeOK, Handoff, PendingStates, TerminalStates
<1>3. CASE CommitAcceptWrites(h)
  <2>1. <<"LeaseCommitted">> \in Seq(JournalPhase)
    BY DEF JournalPhase
  <2>2. journal' \in [Handoffs -> Seq(JournalPhase)]
    BY <1>3, <2>1, RecordType DEF CommitAcceptWrites, TypeOK
  <2>3. leases' \in [Leases -> Lease]
    BY <1>3 DEF CommitAcceptWrites, TypeOK, Handoff, Lease, LeaseState
  <2>4. handoffs' \in [Handoffs -> Handoff \cup {NoHandoff}]
    BY <1>3 DEF CommitAcceptWrites, TypeOK, Handoff, PendingStates, TerminalStates
  <2>5. transfers' \subseteq Transfer
    BY <1>3 DEF CommitAcceptWrites, TypeOK, Handoff, Transfer
  <2>6. QED
    BY <2>2, <2>3, <2>4, <2>5
<1>4. QED
  BY <1>1, <1>2, <1>3

-----------------------------------------------------------------------------
(* Type correctness                                                        *)

\* The conjunct of TypeOK about the leases table, on its own.
LEMMA LeasesType == TypeOK => leases \in [Leases -> Lease]
BY DEF TypeOK

\* A row that records a pending or terminal state is a handoff record.
LEMMA PresentHandoff ==
  ASSUME TypeOK, NEW h \in Handoffs, handoffs[h].state # "Absent"
  PROVE  handoffs[h] \in Handoff
BY DEF TypeOK, NoHandoff

\* A recovery that is past its read carries a handoff, a generation and a clock.
LEMMA PresentRecovery ==
  ASSUME TypeOK, NEW r \in Recoveries, recoveries[r].phase # "idle"
  PROVE  recoveries[r] \in Recovery
BY DEF TypeOK, NoRecovery

\* Every call of the handoff API keeps the tables well-typed.
LEMMA HandoffCallsType ==
  ASSUME TypeOK, NEW h \in Handoffs,
         \/ \E l \in Leases, s, t \in Devices, g \in Generations, ttl \in Ttls :
              BeginHandoff(h, l, s, t, g, ttl)
         \/ RecordHandoffTargetApply(h)
         \/ MarkHandoffTargetVerified(h)
         \/ MarkHandoffSourceReady(h)
         \/ AbortHandoff(h)
         \/ \E g \in Generations : CommitHandoff(h, g)
  PROVE  TypeOK'
<1>1. ASSUME NEW l \in Leases, NEW s \in Devices, NEW t \in Devices,
             NEW g \in Generations, NEW ttl \in Ttls, BeginHandoff(h, l, s, t, g, ttl)
      PROVE  TypeOK'
  <2>1. <<"Begin", "TargetPrepare">> \in Seq(JournalPhase)
    BY DEF JournalPhase
  <2>2. journal' \in [Handoffs -> Seq(JournalPhase)]
    BY <1>1, <2>1, RecordType DEF BeginHandoff, TypeOK
  <2>3. leases' \in [Leases -> Lease]
    BY <1>1, LeasesType DEF BeginHandoff, Lease, LeaseState
  <2>4. now + (IF ttl = 0 THEN 1 ELSE ttl) \in Nat
    BY DEF TypeOK
  <2>5. leases[l].epoch \in Nat
    BY DEF TypeOK, Lease
  <2>6. handoffs' \in [Handoffs -> Handoff \cup {NoHandoff}]
    BY <1>1, <2>4, <2>5 DEF BeginHandoff, TypeOK, Handoff, PendingStates
  <2>7. QED
    BY <1>1, <2>2, <2>3, <2>6 DEF BeginHandoff, TypeOK
<1>2. CASE RecordHandoffTargetApply(h)
  <2>1. <<"TargetApply">> \in Seq(JournalPhase)
    BY DEF JournalPhase
  <2>2. journal' \in [Handoffs -> Seq(JournalPhase)]
    BY <1>2, <2>1, RecordType DEF RecordHandoffTargetApply, TypeOK
  <2>3. QED
    BY <1>2, <2>2 DEF RecordHandoffTargetApply, TypeOK
<1>3. ASSUME NEW expected \in {"TargetPrepare", "TargetVerified"},
             NEW next \in {"TargetVerified", "SourceReady"},
             UpdateHandoffState(h, expected, next)
      PROVE  TypeOK'
  <2>1. <<next>> \in Seq(JournalPhase)
    BY DEF JournalPhase
  <2>2. journal' \in [Handoffs -> Seq(JournalPhase)]
    BY <1>3, <2>1, RecordType DEF UpdateHandoffState, TypeOK
  <2>3. handoffs[h] \in Handoff
    BY <1>3, PresentHandoff DEF UpdateHandoffState
  <2>4. handoffs' \in [Handoffs -> Handoff \cup {NoHandoff}]
    BY <1>3, <2>3 DEF UpdateHandoffState, TypeOK, Handoff, PendingStates
  <2>5. QED
    BY <1>3, <2>2, <2>4 DEF UpdateHandoffState, TypeOK
<1>4. CASE AbortHandoff(h)
  <2>1. handoffs[h] \in Handoff
    BY <1>4, PresentHandoff DEF AbortHandoff, IsPending, PendingStates
  <2>2. QED
    BY <1>4, <2>1, EndingsType DEF AbortHandoff, TypeOK
<1>5. ASSUME NEW g \in Generations, CommitHandoff(h, g)
      PROVE  TypeOK'
  <2>1. handoffs[h] \in Handoff
    BY <1>5, PresentHandoff DEF CommitHandoff, CommitRejected, CommitAccepted
  <2>2. CommitRejectWrites(h) \/ CommitAcceptWrites(h)
    BY <1>5 DEF CommitHandoff, CommitRejected, CommitAccepted
  <2>3. QED
    BY <1>5, <2>1, <2>2, EndingsType DEF CommitHandoff, TypeOK
<1>6. QED
  BY <1>1, <1>2, <1>3, <1>4, <1>5 DEF MarkHandoffTargetVerified, MarkHandoffSourceReady

\* Every step of recover_handoff keeps the tables well-typed.
LEMMA RecoveryType ==
  ASSUME TypeOK, NEW r \in Recoveries,
         \/ \E h \in Handoffs, g \in Generations : RecoverRead(r, h, g)
         \/ RecoverAbort(r)
         \/ RecoverCommit(r)
         \/ RecoverEnd(r)
  PROVE  TypeOK'
<1>1. ASSUME NEW h \in Handoffs, NEW g \in Generations, RecoverRead(r, h, g)
      PROVE  TypeOK'
  <2>1. /\ RecoveryChoice(h, now).phase \in {"abort", "commit", "returned"}
        /\ RecoveryChoice(h, now).outcome \in RecoveryOutcome
    BY DEF RecoveryChoice, RecoveryOutcome
  <2>2. recoveries' \in [Recoveries -> Recovery \cup {NoRecovery}]
    BY <1>1, <2>1 DEF RecoverRead, TypeOK, Recovery
  <2>3. QED
    BY <1>1, <2>2 DEF RecoverRead, TypeOK
<1>2. ASSUME recoveries[r] \in Recovery, NEW outcome \in RecoveryOutcome, Return(r, outcome)
      PROVE  recoveries' \in [Recoveries -> Recovery \cup {NoRecovery}]
  BY <1>2 DEF Return, TypeOK, Recovery
<1>3. {"AbortedExpired", "Committed", "Err"} \subseteq RecoveryOutcome
  BY DEF RecoveryOutcome
<1>4. CASE RecoverAbort(r)
  <2> DEFINE h == recoveries[r].handoff
  <2>1. recoveries[r] \in Recovery /\ h \in Handoffs
    BY <1>4, PresentRecovery DEF RecoverAbort, Recovery
  <2>2. recoveries' \in [Recoveries -> Recovery \cup {NoRecovery}]
    BY <1>2, <1>3, <1>4, <2>1 DEF RecoverAbort
  <2>3. CASE IsPending(h) /\ AbortWrites(h) /\ UNCHANGED transfers
    <3>1. handoffs[h] \in Handoff
      BY <2>1, <2>3, PresentHandoff DEF IsPending, PendingStates
    <3>2. QED
      BY <1>4, <2>1, <2>2, <2>3, <3>1, EndingsType DEF RecoverAbort, TypeOK
  <2>4. CASE UNCHANGED <<leases, handoffs, journal, transfers>>
    BY <1>4, <2>2, <2>4 DEF RecoverAbort, TypeOK
  <2>5. QED
    BY <1>4, <2>3, <2>4 DEF RecoverAbort
<1>5. CASE RecoverCommit(r)
  <2> DEFINE h == recoveries[r].handoff
  <2>1. recoveries[r] \in Recovery /\ h \in Handoffs
    BY <1>5, PresentRecovery DEF RecoverCommit, Recovery
  <2>2. recoveries' \in [Recoveries -> Recovery \cup {NoRecovery}]
    BY <1>2, <1>3, <1>5, <2>1 DEF RecoverCommit
  <2>3. CASE handoffs[h].state = "SourceReady" /\ (CommitRejectWrites(h) \/ CommitAcceptWrites(h))
    <3>1. handoffs[h] \in Handoff
      BY <2>1, <2>3, PresentHandoff
    <3>2. QED
      BY <1>5, <2>1, <2>2, <2>3, <3>1, EndingsType DEF RecoverCommit, TypeOK
  <2>4. CASE UNCHANGED <<leases, handoffs, journal, transfers>>
    BY <1>5, <2>2, <2>4 DEF RecoverCommit, TypeOK
  <2>5. QED
    BY <1>5, <2>3, <2>4 DEF RecoverCommit, CommitAccepted, CommitRejected
<1>6. CASE RecoverEnd(r)
  BY <1>6 DEF RecoverEnd, TypeOK
<1>7. QED
  BY <1>1, <1>4, <1>5, <1>6

\* Storing a snapshot keeps the snapshots table well-typed.
LEMMA InsertSnapshotType ==
  ASSUME TypeOK, NEW s \in Snapshots, NEW l \in Leases, NEW d \in Devices,
         NEW kind \in {"canonical", "stale", "fork"}, InsertSnapshot(s, l, d, kind)
  PROVE  snapshots' \in [Snapshots -> Snapshot \cup {NoSnapshot}]
<1>1. leases[l].epoch \in Nat
  BY DEF TypeOK, Lease
<1>2. QED
  BY <1>1, NextSequenceType DEF InsertSnapshot, TypeOK, Snapshot

\* Publishing keeps the tables well-typed.
LEMMA PublishType ==
  ASSUME TypeOK, NEW s \in Snapshots, NEW l \in Leases, NEW d \in Devices,
         \/ \E e, x : PublishSnapshotCanonical(s, l, d, e, x)
         \/ PublishInactiveSnapshotAsFork(s, l, d)
  PROVE  TypeOK'
<1>1. ASSUME NEW e, NEW x, PublishSnapshotCanonical(s, l, d, e, x)
      PROVE  TypeOK'
  <2>1. snapshots' \in [Snapshots -> Snapshot \cup {NoSnapshot}]
    BY <1>1, InsertSnapshotType DEF PublishSnapshotCanonical
  <2>2. leases' \in [Leases -> Lease]
    BY <1>1, LeasesType DEF PublishSnapshotCanonical, Lease
  <2>3. QED
    BY <1>1, <2>1, <2>2 DEF PublishSnapshotCanonical, TypeOK
<1>2. CASE PublishInactiveSnapshotAsFork(s, l, d)
  <2>1. snapshots' \in [Snapshots -> Snapshot \cup {NoSnapshot}]
    BY <1>2, InsertSnapshotType DEF PublishInactiveSnapshotAsFork
  <2>2. leases' \in [Leases -> Lease]
    BY <1>2, LeasesType DEF PublishInactiveSnapshotAsFork, Lease, LeaseState
  <2>3. QED
    BY <1>2, <2>1, <2>2 DEF PublishInactiveSnapshotAsFork, TypeOK
<1>3. QED
  BY <1>1, <1>2

\* The tables are well-typed at first and after every step.
LEMMA TypeInit == Init => TypeOK
<1> SUFFICES ASSUME Init PROVE TypeOK
  OBVIOUS
<1>1. leases \in [Leases -> Lease]
  BY DEF Init, Lease, LeaseState
<1>2. journal \in [Handoffs -> Seq(JournalPhase)]
  BY DEF Init
<1>3. QED
  BY <1>1, <1>2 DEF Init, TypeOK

LEMMA TypeStep ==
  ASSUME TypeOK, [Next]_vars
  PROVE  TypeOK'
<1>1. ASSUME NEW h \in Handoffs,
       \/ \E l \in Leases, s, t \in Devices, g \in Generations, ttl \in Ttls :
            BeginHandoff(h, l, s, t, g, ttl)
       \/ RecordHandoffTargetApply(h)
       \/ MarkHandoffTargetVerified(h)
       \/ MarkHandoffSourceReady(h)
       \/ AbortHandoff(h)
       \/ \E g \in Generations : CommitHandoff(h, g)
      PROVE TypeOK'
  BY <1>1, HandoffCallsType
<1>2. ASSUME NEW r \in Recoveries,
       \/ \E h \in Handoffs, g \in Generations : RecoverRead(r, h, g)
       \/ RecoverAbort(r)
       \/ RecoverCommit(r)
       \/ RecoverEnd(r)
      PROVE TypeOK'
  BY <1>2, RecoveryType
<1>3. ASSUME NEW s \in Snapshots, NEW l \in Leases, NEW d \in Devices,
       \/ \E e, x : PublishSnapshotCanonical(s, l, d, e, x)
       \/ PublishInactiveSnapshotAsFork(s, l, d)
      PROVE TypeOK'
  BY <1>3, PublishType
<1>4. ASSUME NEW d \in Devices, RevokeDevice(d) PROVE TypeOK'
  BY <1>4 DEF RevokeDevice, TypeOK
<1>5. CASE Tick
  BY <1>5 DEF Tick, TypeOK
<1>6. CASE UNCHANGED vars
  BY <1>6 DEF vars, TypeOK
<1>7. QED
  BY <1>1, <1>2, <1>3, <1>4, <1>5, <1>6 DEF Next

\* The tables stay well-typed whatever calls are made, in any order: the rows
\* the MetadataDb methods of storage.rs write are rows its readers accept.
THEOREM TypeCorrect == Spec => []TypeOK
BY TypeInit, TypeStep, PTL DEF Spec

-----------------------------------------------------------------------------
(* The lease and its handoff.  HandoffOwnsLease is inductive together with *)
(* TypeOK: a lease names at most one handoff, so ending one handoff cannot *)
(* touch the lease another one owns.                                       *)

\* Two unfinished handoffs never share a lease.
LEMMA PendingLeasesDiffer ==
  ASSUME HandoffOwnsLease, NEW h \in Handoffs, NEW k \in Handoffs,
         IsPending(h), IsPending(k), h # k
  PROVE  handoffs[h].lease # handoffs[k].lease
BY DEF HandoffOwnsLease

\* A pending handoff is a full row, and names one of the leases.
LEMMA PendingHandoff ==
  ASSUME TypeOK, NEW h \in Handoffs, IsPending(h)
  PROVE  handoffs[h] \in Handoff /\ handoffs[h].lease \in Leases
BY PresentHandoff DEF IsPending, PendingStates, Handoff

\* What ending a handoff does to the two tables: the handoff is finished, its
\* lease is active again, and every other handoff and lease is as it was.
LEMMA EndingsEffect ==
  ASSUME TypeOK, HandoffOwnsLease, NEW h \in Handoffs, IsPending(h),
         AbortWrites(h) \/ CommitRejectWrites(h) \/ CommitAcceptWrites(h)
  PROVE  /\ handoffs'[h].state \in TerminalStates
         /\ \A k \in Handoffs : k # h => handoffs'[k] = handoffs[k]
         /\ leases'[handoffs[h].lease].state = "Active"
         /\ \A l \in Leases : l # handoffs[h].lease => leases'[l] = leases[l]
<1>1. handoffs[h] \in Handoff /\ handoffs[h].lease \in Leases
  BY PendingHandoff
<1>2. leases \in [Leases -> Lease] /\ handoffs \in [Handoffs -> Handoff \cup {NoHandoff}]
  BY DEF TypeOK
<1>3. leases[handoffs[h].lease].handoff = h
  BY DEF HandoffOwnsLease
<1>4. CASE AbortWrites(h) \/ CommitRejectWrites(h)
  <2>1. ReleaseLease(h) /\ handoffs' = [handoffs EXCEPT ![h].state = "Aborted"]
    BY <1>4 DEF AbortWrites, CommitRejectWrites
  <2>2. /\ leases'[handoffs[h].lease].state = "Active"
        /\ \A l \in Leases : l # handoffs[h].lease => leases'[l] = leases[l]
    BY <1>1, <1>2, <1>3, <2>1 DEF ReleaseLease, Lease
  <2>3. /\ handoffs'[h].state \in TerminalStates
        /\ \A k \in Handoffs : k # h => handoffs'[k] = handoffs[k]
    BY <1>1, <1>2, <2>1 DEF Handoff, TerminalStates
  <2>4. QED
    BY <2>2, <2>3
<1>5. CASE CommitAcceptWrites(h)
  BY <1>1, <1>2, <1>5 DEF CommitAcceptWrites, Handoff, Lease, TerminalStates
<1>6. QED
  BY <1>4, <1>5

\* Ending a handoff preserves HandoffOwnsLease.
LEMMA EndingsOwn ==
  ASSUME TypeOK, HandoffOwnsLease, NEW h \in Handoffs, IsPending(h),
         AbortWrites(h) \/ CommitRejectWrites(h) \/ CommitAcceptWrites(h)
  PROVE  HandoffOwnsLease'
<1>1. \A k \in Handoffs : IsPending(k)' <=> k # h /\ IsPending(k)
  BY EndingsEffect DEF IsPending, PendingStates, TerminalStates
<1>2. ASSUME NEW k \in Handoffs, k # h, IsPending(k)
      PROVE  /\ handoffs'[k] = handoffs[k]
             /\ handoffs[k].lease \in Leases
             /\ leases'[handoffs[k].lease] = leases[handoffs[k].lease]
  BY <1>2, EndingsEffect, PendingHandoff, PendingLeasesDiffer
<1>3. ASSUME NEW l \in Leases, leases'[l].state = "HandoffPending"
      PROVE  l # handoffs[h].lease /\ leases[l].state = "HandoffPending"
  BY <1>3, EndingsEffect
<1>4. ASSUME NEW l \in Leases, leases'[l].state = "HandoffPending"
      PROVE  \E k \in Handoffs : IsPending(k)' /\ handoffs'[k].lease = l
  <2>1. PICK k \in Handoffs : IsPending(k) /\ handoffs[k].lease = l
    BY <1>3, <1>4 DEF HandoffOwnsLease
  <2>2. k # h
    BY <1>3, <1>4, <2>1
  <2>3. QED
    BY <1>1, <1>2, <2>1, <2>2
<1>5. QED
  BY <1>1, <1>2, <1>4 DEF HandoffOwnsLease

\* Beginning a handoff preserves HandoffOwnsLease: the lease was active, so no
\* unfinished handoff owned it.
LEMMA BeginOwns ==
  ASSUME TypeOK, HandoffOwnsLease, NEW h \in Handoffs, NEW l \in Leases,
         NEW s, NEW t, NEW g, NEW ttl, BeginHandoff(h, l, s, t, g, ttl)
  PROVE  HandoffOwnsLease'
<1>1. leases \in [Leases -> Lease] /\ handoffs \in [Handoffs -> Handoff \cup {NoHandoff}]
  BY DEF TypeOK
<1>2. /\ IsPending(h)'
      /\ handoffs'[h].lease = l
      /\ handoffs'[h].expectedEpoch = leases[l].epoch
      /\ handoffs'[h].source = leases[l].holder
      /\ \A k \in Handoffs : k # h => handoffs'[k] = handoffs[k]
  BY <1>1 DEF BeginHandoff, IsPending, PendingStates
<1>3. /\ leases'[l].state = "HandoffPending"
      /\ leases'[l].handoff = h
      /\ leases'[l].epoch = leases[l].epoch
      /\ leases'[l].holder = leases[l].holder
      /\ \A m \in Leases : m # l => leases'[m] = leases[m]
  BY <1>1 DEF BeginHandoff, Lease
<1>4. ASSUME NEW k \in Handoffs, k # h, IsPending(k)
      PROVE  handoffs[k].lease \in Leases /\ handoffs[k].lease # l
  BY <1>4, PendingHandoff DEF BeginHandoff
<1>5. \A k \in Handoffs : k # h => (IsPending(k)' <=> IsPending(k))
  BY <1>2 DEF IsPending
<1>6. ASSUME NEW m \in Leases, leases'[m].state = "HandoffPending"
      PROVE  \E k \in Handoffs : IsPending(k)' /\ handoffs'[k].lease = m
  <2>1. CASE m = l
    BY <1>2, <2>1
  <2>2. CASE m # l
    <3>1. PICK k \in Handoffs : IsPending(k) /\ handoffs[k].lease = m
      BY <1>3, <1>6, <2>2 DEF HandoffOwnsLease
    <3>2. k # h
      BY <3>1 DEF BeginHandoff, IsPending, PendingStates
    <3>3. QED
      BY <1>2, <1>5, <3>1, <3>2
  <2>3. QED
    BY <2>1, <2>2
<1>7. ASSUME NEW k \in Handoffs, IsPending(k)'
      PROVE  LET m == handoffs'[k].lease IN
             /\ leases'[m].state = "HandoffPending"
             /\ leases'[m].handoff = k
             /\ leases'[m].epoch = handoffs'[k].expectedEpoch
             /\ leases'[m].holder = handoffs'[k].source
  <2>1. CASE k = h
    BY <1>2, <1>3, <2>1
  <2>2. CASE k # h
    <3>1. IsPending(k) /\ handoffs'[k] = handoffs[k]
      BY <1>2, <1>5, <1>7, <2>2
    <3>2. leases'[handoffs[k].lease] = leases[handoffs[k].lease]
      BY <1>3, <1>4, <2>2, <3>1
    <3>3. QED
      BY <3>1, <3>2 DEF HandoffOwnsLease
  <2>3. QED
    BY <2>1, <2>2
<1>8. QED
  BY <1>6, <1>7 DEF HandoffOwnsLease

\* A step that leaves every handoff's data and the leases' ownership columns as
\* they are, and no handoff's pendingness changed, preserves HandoffOwnsLease.
LEMMA SameOwnership ==
  ASSUME TypeOK, HandoffOwnsLease,
         \A k \in Handoffs : /\ IsPending(k)' <=> IsPending(k)
                             /\ IsPending(k) => /\ handoffs'[k].lease = handoffs[k].lease
                                                /\ handoffs'[k].source = handoffs[k].source
                                                /\ handoffs'[k].expectedEpoch = handoffs[k].expectedEpoch,
         \A l \in Leases : /\ leases'[l].state = "HandoffPending" <=> leases[l].state = "HandoffPending"
                           /\ leases'[l].handoff = leases[l].handoff
                           /\ leases'[l].epoch = leases[l].epoch
                           /\ leases'[l].holder = leases[l].holder
  PROVE  HandoffOwnsLease'
<1>1. \A k \in Handoffs : IsPending(k) => handoffs[k].lease \in Leases
  BY PendingHandoff
<1>2. QED
  BY <1>1 DEF HandoffOwnsLease

\* One step of the system changes leases and handoffs in one of these ways only.
\* The proofs below split on it instead of on the actions of Next.
LEMMA StepShapes ==
  ASSUME TypeOK, [Next]_vars
  PROVE  \/ \E h \in Handoffs, l \in Leases, s, t \in Devices, g \in Generations, ttl \in Ttls :
              BeginHandoff(h, l, s, t, g, ttl)
         \/ \E h \in Handoffs : MarkHandoffTargetVerified(h) \/ MarkHandoffSourceReady(h)
         \/ \E h \in Handoffs : /\ IsPending(h)
                                /\ AbortWrites(h) \/ CommitRejectWrites(h)
                                /\ UNCHANGED <<snapshots, revoked, transfers>>
         \/ \E h \in Handoffs : /\ handoffs[h].state = "SourceReady"
                                /\ NotRevoked(handoffs[h].target)
                                /\ CommitAcceptWrites(h)
                                /\ UNCHANGED <<snapshots, revoked>>
         \/ \E s \in Snapshots, l \in Leases, d \in Devices : \E e, x :
              PublishSnapshotCanonical(s, l, d, e, x)
         \/ \E s \in Snapshots, l \in Leases, d \in Devices :
              PublishInactiveSnapshotAsFork(s, l, d)
         \/ \E d \in Devices : RevokeDevice(d)
         \/ UNCHANGED <<leases, handoffs, snapshots, revoked, transfers>>
<1>1. ASSUME NEW h \in Handoffs, NEW g \in Generations, CommitHandoff(h, g)
      PROVE  \/ /\ IsPending(h) /\ CommitRejectWrites(h)
                /\ UNCHANGED <<snapshots, revoked, transfers>>
             \/ /\ handoffs[h].state = "SourceReady" /\ NotRevoked(handoffs[h].target)
                /\ CommitAcceptWrites(h) /\ UNCHANGED <<snapshots, revoked>>
  BY <1>1 DEF CommitHandoff, CommitRejected, CommitAccepted, CommitRejectWrites,
              IsPending, PendingStates
<1>2. ASSUME NEW r \in Recoveries, RecoverAbort(r)
      PROVE  \/ \E h \in Handoffs : /\ IsPending(h) /\ AbortWrites(h)
                                    /\ UNCHANGED <<snapshots, revoked, transfers>>
             \/ UNCHANGED <<leases, handoffs, snapshots, revoked, transfers>>
  <2>1. recoveries[r].handoff \in Handoffs
    BY <1>2, PresentRecovery DEF RecoverAbort, Recovery
  <2>2. QED
    BY <1>2, <2>1 DEF RecoverAbort
<1>3. ASSUME NEW r \in Recoveries, RecoverCommit(r)
      PROVE  \/ \E h \in Handoffs : /\ IsPending(h) /\ CommitRejectWrites(h)
                                    /\ UNCHANGED <<snapshots, revoked, transfers>>
             \/ \E h \in Handoffs : /\ handoffs[h].state = "SourceReady"
                                    /\ NotRevoked(handoffs[h].target)
                                    /\ CommitAcceptWrites(h) /\ UNCHANGED <<snapshots, revoked>>
             \/ UNCHANGED <<leases, handoffs, snapshots, revoked, transfers>>
  <2>1. recoveries[r].handoff \in Handoffs
    BY <1>3, PresentRecovery DEF RecoverCommit, Recovery
  <2>2. QED
    BY <1>3, <2>1 DEF RecoverCommit, CommitRejected, CommitAccepted, CommitRejectWrites,
                      IsPending, PendingStates
<1>4. ASSUME NEW h \in Handoffs, AbortHandoff(h)
      PROVE  IsPending(h) /\ AbortWrites(h) /\ UNCHANGED <<snapshots, revoked, transfers>>
  BY <1>4 DEF AbortHandoff
<1>5. ASSUME NEW h \in Handoffs, RecordHandoffTargetApply(h)
      PROVE  UNCHANGED <<leases, handoffs, snapshots, revoked, transfers>>
  BY <1>5 DEF RecordHandoffTargetApply
<1>6. ASSUME NEW r \in Recoveries,
             RecoverEnd(r) \/ \E h \in Handoffs, g \in Generations : RecoverRead(r, h, g)
      PROVE  UNCHANGED <<leases, handoffs, snapshots, revoked, transfers>>
  BY <1>6 DEF RecoverEnd, RecoverRead
<1>7. Tick \/ UNCHANGED vars => UNCHANGED <<leases, handoffs, snapshots, revoked, transfers>>
  BY DEF Tick, vars
<1>8. QED
  BY <1>1, <1>2, <1>3, <1>4, <1>5, <1>6, <1>7 DEF Next

\* Every step preserves HandoffOwnsLease.
LEMMA OwnsLeaseStep ==
  ASSUME TypeOK, HandoffOwnsLease, [Next]_vars
  PROVE  HandoffOwnsLease'
<1>0. leases \in [Leases -> Lease] /\ handoffs \in [Handoffs -> Handoff \cup {NoHandoff}]
  BY DEF TypeOK
<1>1. ASSUME NEW h \in Handoffs, NEW l \in Leases, NEW s \in Devices, NEW t \in Devices,
             NEW g \in Generations, NEW ttl \in Ttls, BeginHandoff(h, l, s, t, g, ttl)
      PROVE  HandoffOwnsLease'
  BY <1>1, BeginOwns
<1>2. ASSUME NEW h \in Handoffs, MarkHandoffTargetVerified(h) \/ MarkHandoffSourceReady(h)
      PROVE  HandoffOwnsLease'
  <2>1. handoffs[h] \in Handoff /\ IsPending(h)
    BY <1>2, PresentHandoff DEF MarkHandoffTargetVerified, MarkHandoffSourceReady,
       UpdateHandoffState, IsPending, PendingStates
  <2>2. PICK next \in PendingStates : handoffs' = [handoffs EXCEPT ![h].state = next]
    BY <1>2 DEF MarkHandoffTargetVerified, MarkHandoffSourceReady, UpdateHandoffState, PendingStates
  <2>3. /\ handoffs'[h].state = next
        /\ handoffs'[h].lease = handoffs[h].lease
        /\ handoffs'[h].source = handoffs[h].source
        /\ handoffs'[h].expectedEpoch = handoffs[h].expectedEpoch
    BY <1>0, <2>1, <2>2 DEF Handoff
  <2>4. \A k \in Handoffs : k # h => handoffs'[k] = handoffs[k]
    BY <1>0, <2>2
  <2>5. UNCHANGED leases
    BY <1>2 DEF MarkHandoffTargetVerified, MarkHandoffSourceReady, UpdateHandoffState
  <2>6. QED
    BY <2>1, <2>3, <2>4, <2>5, SameOwnership DEF IsPending
<1>3. ASSUME NEW h \in Handoffs, IsPending(h), AbortWrites(h) \/ CommitRejectWrites(h)
      PROVE  HandoffOwnsLease'
  BY <1>3, EndingsOwn
<1>4. ASSUME NEW h \in Handoffs, handoffs[h].state = "SourceReady", CommitAcceptWrites(h)
      PROVE  HandoffOwnsLease'
  BY <1>4, EndingsOwn DEF IsPending, PendingStates
<1>5. ASSUME NEW s \in Snapshots, NEW l \in Leases, NEW d \in Devices, NEW e, NEW x,
             PublishSnapshotCanonical(s, l, d, e, x)
      PROVE  HandoffOwnsLease'
  <2>1. UNCHANGED handoffs
    BY <1>5 DEF PublishSnapshotCanonical
  <2>2. \A m \in Leases : /\ leases'[m].state = leases[m].state
                          /\ leases'[m].handoff = leases[m].handoff
                          /\ leases'[m].epoch = leases[m].epoch
                          /\ leases'[m].holder = leases[m].holder
    BY <1>0, <1>5 DEF PublishSnapshotCanonical, Lease
  <2>3. QED
    BY <2>1, <2>2, SameOwnership DEF IsPending
<1>6. ASSUME NEW s \in Snapshots, NEW l \in Leases, NEW d \in Devices,
             PublishInactiveSnapshotAsFork(s, l, d)
      PROVE  HandoffOwnsLease'
  <2>1. UNCHANGED handoffs
    BY <1>6 DEF PublishInactiveSnapshotAsFork
  <2>2. \A m \in Leases : /\ leases'[m].state = "HandoffPending" <=> leases[m].state = "HandoffPending"
                          /\ leases'[m].handoff = leases[m].handoff
                          /\ leases'[m].epoch = leases[m].epoch
                          /\ leases'[m].holder = leases[m].holder
    BY <1>0, <1>6 DEF PublishInactiveSnapshotAsFork, Lease
  <2>3. QED
    BY <2>1, <2>2, SameOwnership DEF IsPending
<1>7. ASSUME UNCHANGED <<leases, handoffs>>
      PROVE  HandoffOwnsLease'
  BY <1>7, SameOwnership DEF IsPending
<1>8. ASSUME NEW d \in Devices, RevokeDevice(d)
      PROVE  HandoffOwnsLease'
  BY <1>7, <1>8 DEF RevokeDevice
<1>9. QED
  BY <1>1, <1>2, <1>3, <1>4, <1>5, <1>6, <1>7, <1>8, StepShapes

\* The lease and the handoff that reserved it always name each other, for any
\* number of leases, handoffs, devices and concurrent recoveries.
THEOREM HandoffOwnsLeaseAlways == Spec => []HandoffOwnsLease
<1>1. Init => HandoffOwnsLease
  BY DEF Init, HandoffOwnsLease, IsPending, PendingStates, NoHandoff
<1>2. TypeOK /\ HandoffOwnsLease /\ [Next]_vars => HandoffOwnsLease'
  BY OwnsLeaseStep
<1>3. QED
  BY <1>1, <1>2, TypeCorrect, PTL DEF Spec

-----------------------------------------------------------------------------
(* What a step may do to one lease.                                        *)

\* Aborting, or rejecting a commit, reopens the handoff's own lease and changes
\* nothing else about any lease.
LEMMA ReleaseKeeps ==
  ASSUME TypeOK, HandoffOwnsLease, NEW h \in Handoffs, IsPending(h), ReleaseLease(h)
  PROVE  LET l == handoffs[h].lease IN
         /\ l \in Leases
         /\ leases[l].state = "HandoffPending"
         /\ leases' = [leases EXCEPT ![l] = [@ EXCEPT !.state = "Active", !.handoff = None]]
<1>1. handoffs[h].lease \in Leases
  BY PendingHandoff
<1>2. /\ leases[handoffs[h].lease].handoff = h
      /\ leases[handoffs[h].lease].state = "HandoffPending"
  BY DEF HandoffOwnsLease
<1>3. leases \in [Leases -> Lease]
  BY DEF TypeOK
<1>4. QED
  BY <1>1, <1>2, <1>3 DEF ReleaseLease

\* The epoch moves by exactly one, exactly when a source-ready handoff commits,
\* and the holder never changes without it.
LEMMA EpochStep ==
  ASSUME TypeOK, HandoffOwnsLease, [Next]_vars, NEW l \in Leases
  PROVE  /\ leases'[l].epoch # leases[l].epoch =>
              /\ leases'[l].epoch = leases[l].epoch + 1
              /\ \E h \in Handoffs : /\ handoffs[h].state = "SourceReady"
                                     /\ handoffs'[h].state = "Committed"
                                     /\ handoffs[h].lease = l
         /\ leases'[l].holder # leases[l].holder => leases'[l].epoch # leases[l].epoch
<1> DEFINE Same == leases'[l].epoch = leases[l].epoch /\ leases'[l].holder = leases[l].holder
<1>0. leases \in [Leases -> Lease] /\ handoffs \in [Handoffs -> Handoff \cup {NoHandoff}]
  BY DEF TypeOK
<1>1. ASSUME NEW h \in Handoffs, NEW m \in Leases, NEW s, NEW t, NEW g, NEW ttl,
             BeginHandoff(h, m, s, t, g, ttl)
      PROVE  Same
  BY <1>0, <1>1 DEF BeginHandoff, Lease
<1>2. ASSUME NEW h \in Handoffs, MarkHandoffTargetVerified(h) \/ MarkHandoffSourceReady(h)
      PROVE  Same
  BY <1>2 DEF MarkHandoffTargetVerified, MarkHandoffSourceReady, UpdateHandoffState
<1>3. ASSUME NEW h \in Handoffs, IsPending(h), AbortWrites(h) \/ CommitRejectWrites(h)
      PROVE  Same
  <2>1. ReleaseLease(h)
    BY <1>3 DEF AbortWrites, CommitRejectWrites
  <2>2. QED
    BY <1>0, <2>1 DEF ReleaseLease, Lease
<1>4. ASSUME NEW h \in Handoffs, handoffs[h].state = "SourceReady", CommitAcceptWrites(h),
             l # handoffs[h].lease
      PROVE  Same
  BY <1>0, <1>4 DEF CommitAcceptWrites
<1>5. ASSUME NEW h \in Handoffs, handoffs[h].state = "SourceReady", CommitAcceptWrites(h),
             l = handoffs[h].lease
      PROVE  /\ leases'[l].epoch = leases[l].epoch + 1
             /\ leases[l].epoch \in Nat
             /\ handoffs'[h].state = "Committed"
  <2>1. handoffs[h] \in Handoff
    BY <1>5, PresentHandoff
  <2>2. leases'[l].epoch = leases[l].epoch + 1
    BY <1>0, <1>5 DEF CommitAcceptWrites
  <2>3. handoffs'[h].state = "Committed"
    BY <1>0, <1>5, <2>1 DEF CommitAcceptWrites, Handoff
  <2>4. QED
    BY <1>0, <2>2, <2>3 DEF Lease
<1>6. ASSUME NEW s \in Snapshots, NEW m \in Leases, NEW d,
             \/ \E e, x : PublishSnapshotCanonical(s, m, d, e, x)
             \/ PublishInactiveSnapshotAsFork(s, m, d)
      PROVE  Same
  BY <1>0, <1>6 DEF PublishSnapshotCanonical, PublishInactiveSnapshotAsFork, Lease
<1>7. ASSUME NEW d, RevokeDevice(d)
      PROVE  Same
  BY <1>7 DEF RevokeDevice
<1>8. UNCHANGED leases => Same
  OBVIOUS
<1>9. \A h \in Handoffs : handoffs[h].state = "SourceReady" => IsPending(h)
  BY DEF IsPending, PendingStates
<1>10. Same \/ \E h \in Handoffs : /\ handoffs[h].state = "SourceReady"
                                   /\ CommitAcceptWrites(h) /\ l = handoffs[h].lease
  BY <1>1, <1>2, <1>3, <1>4, <1>6, <1>7, <1>8, StepShapes
<1>11. QED
  BY <1>5, <1>10

\* The epoch of a lease is a fencing token: monotone, moved by one at each
\* commit and by nothing else, and no change of holder goes without it.
THEOREM EpochFencesHolderAlways == Spec => EpochFencesHolder
<1>1. TypeOK /\ HandoffOwnsLease /\ [Next]_vars =>
        [\A l \in Leases :
           /\ leases'[l].epoch # leases[l].epoch =>
                /\ leases'[l].epoch = leases[l].epoch + 1
                /\ \E h \in Handoffs : /\ handoffs[h].state = "SourceReady"
                                       /\ handoffs'[h].state = "Committed"
                                       /\ handoffs[h].lease = l
           /\ leases'[l].holder # leases[l].holder => leases'[l].epoch # leases[l].epoch]_vars
  BY EpochStep
<1>2. QED
  BY <1>1, TypeCorrect, HandoffOwnsLeaseAlways, PTL DEF Spec, EpochFencesHolder

-----------------------------------------------------------------------------
(* The tables implement SingleWriter.                                      *)

\* The abstract state, as the refinement mapping computes it.
AbsWriter == [l \in Leases |-> leases[l].holder]
AbsEpoch == [l \in Leases |-> leases[l].epoch]
AbsLatest == [l \in Leases |-> leases[l].latest]
AbsOpen == [l \in Leases |-> leases[l].state = "Active"]
AbsKept == {s \in Snapshots : Stored(s)}

\* Every step is an abstract step or leaves the abstract state alone.
LEMMA WriterStep ==
  ASSUME TypeOK, HandoffOwnsLease, [Next]_vars
  PROVE  [Writer!Next]_(Writer!vars)
<1> USE DEF Writer!Next, Writer!vars, Writer!Close, Writer!Reopen, Writer!PassOn,
            Writer!Advance, Writer!KeepAside, Writer!Bar
<1>0. leases \in [Leases -> Lease] /\ handoffs \in [Handoffs -> Handoff \cup {NoHandoff}]
  BY DEF TypeOK
<1>1. ASSUME NEW h \in Handoffs, NEW l \in Leases, NEW s \in Devices, NEW t \in Devices,
             NEW g \in Generations, NEW ttl \in Ttls, BeginHandoff(h, l, s, t, g, ttl)
      PROVE  Writer!Close(l)
  <2>1. leases[l].state = "Active" /\ UNCHANGED <<snapshots, revoked>>
    BY <1>1 DEF BeginHandoff
  <2>2. leases' = [leases EXCEPT ![l].state = "HandoffPending", ![l].handoff = h]
    BY <1>1 DEF BeginHandoff
  <2>3. /\ leases'[l].state = "HandoffPending"
        /\ \A m \in Leases : m # l => leases'[m] = leases[m]
        /\ \A m \in Leases : /\ leases'[m].holder = leases[m].holder
                             /\ leases'[m].epoch = leases[m].epoch
                             /\ leases'[m].latest = leases[m].latest
    BY <1>0, <2>2 DEF Lease
  <2>4. AbsOpen' = [AbsOpen EXCEPT ![l] = FALSE]
    BY <2>3 DEF AbsOpen
  <2>5. UNCHANGED <<AbsWriter, AbsEpoch, AbsLatest, AbsKept>>
    BY <2>1, <2>3 DEF AbsWriter, AbsEpoch, AbsLatest, AbsKept, Stored
  <2>6. QED
    BY <2>1, <2>4, <2>5 DEF AbsOpen, AbsWriter, AbsEpoch, AbsLatest, AbsKept
<1>2. ASSUME NEW h \in Handoffs, MarkHandoffTargetVerified(h) \/ MarkHandoffSourceReady(h)
      PROVE  UNCHANGED Writer!vars
  <2>1. UNCHANGED <<leases, snapshots, revoked>>
    BY <1>2 DEF MarkHandoffTargetVerified, MarkHandoffSourceReady, UpdateHandoffState
  <2>2. QED
    BY <2>1 DEF Stored
<1>3. ASSUME NEW h \in Handoffs, IsPending(h), AbortWrites(h) \/ CommitRejectWrites(h),
             UNCHANGED <<snapshots, revoked, transfers>>
      PROVE  \E l \in Leases : Writer!Reopen(l)
  <2> DEFINE l == handoffs[h].lease
  <2>1. ReleaseLease(h)
    BY <1>3 DEF AbortWrites, CommitRejectWrites
  <2>2. /\ l \in Leases
        /\ leases[l].state = "HandoffPending"
        /\ leases' = [leases EXCEPT ![l] = [@ EXCEPT !.state = "Active", !.handoff = None]]
    BY <1>3, <2>1, ReleaseKeeps
  <2>3. /\ leases'[l].state = "Active"
        /\ \A m \in Leases : m # l => leases'[m] = leases[m]
        /\ \A m \in Leases : /\ leases'[m].holder = leases[m].holder
                             /\ leases'[m].epoch = leases[m].epoch
                             /\ leases'[m].latest = leases[m].latest
    BY <1>0, <2>2 DEF Lease
  <2>4. AbsOpen' = [AbsOpen EXCEPT ![l] = TRUE]
    BY <2>2, <2>3 DEF AbsOpen
  <2>5. UNCHANGED <<AbsWriter, AbsEpoch, AbsLatest, AbsKept>>
    BY <1>3, <2>3 DEF AbsWriter, AbsEpoch, AbsLatest, AbsKept, Stored
  <2>6. Writer!Reopen(l)
    BY <1>3, <2>2, <2>4, <2>5 DEF AbsOpen, AbsWriter, AbsEpoch, AbsLatest, AbsKept
  <2>7. QED
    BY <2>2, <2>6
<1>4. ASSUME NEW h \in Handoffs, handoffs[h].state = "SourceReady", NotRevoked(handoffs[h].target),
             CommitAcceptWrites(h), UNCHANGED <<snapshots, revoked>>
      PROVE  \E l \in Leases, d \in Devices : Writer!PassOn(l, d)
  <2> DEFINE l == handoffs[h].lease
             d == handoffs[h].target
  <2>1. l \in Leases /\ d \in Devices /\ IsPending(h)
    BY <1>4, PresentHandoff DEF Handoff, IsPending, PendingStates
  <2>2. leases[l].state = "HandoffPending" /\ leases[l].epoch = handoffs[h].expectedEpoch
    BY <2>1 DEF HandoffOwnsLease
  <2>3. /\ leases'[l].state = "Active"
        /\ leases'[l].holder = d
        /\ leases'[l].epoch = leases[l].epoch + 1
        /\ leases'[l].latest = leases[l].latest
        /\ \A m \in Leases : m # l => leases'[m] = leases[m]
    BY <1>0, <1>4, <2>1 DEF CommitAcceptWrites
  <2>4. /\ AbsOpen' = [AbsOpen EXCEPT ![l] = TRUE]
        /\ AbsWriter' = [AbsWriter EXCEPT ![l] = d]
        /\ AbsEpoch' = [AbsEpoch EXCEPT ![l] = @ + 1]
    BY <2>1, <2>3 DEF AbsOpen, AbsWriter, AbsEpoch
  <2>5. UNCHANGED <<AbsLatest, AbsKept>>
    BY <1>4, <2>1, <2>3 DEF AbsLatest, AbsKept, Stored
  <2>6. Writer!PassOn(l, d)
    BY <1>4, <2>1, <2>2, <2>4, <2>5 DEF AbsOpen, AbsWriter, AbsEpoch, AbsLatest, AbsKept, NotRevoked
  <2>7. QED
    BY <2>1, <2>6
<1>5. ASSUME NEW s \in Snapshots, ~ Stored(s), NEW l, NEW d, NEW kind \in {"canonical", "stale", "fork"},
             InsertSnapshot(s, l, d, kind)
      PROVE  s \notin AbsKept /\ AbsKept' = AbsKept \cup {s}
  <2>1. snapshots'[s].kind # "Absent" /\ \A u \in Snapshots : u # s => snapshots'[u] = snapshots[u]
    BY <1>5 DEF InsertSnapshot, TypeOK
  <2>2. QED
    BY <1>5, <2>1 DEF AbsKept, Stored
<1>6. ASSUME NEW s \in Snapshots, NEW l \in Leases, NEW d \in Devices, NEW e, NEW x,
             PublishSnapshotCanonical(s, l, d, e, x)
      PROVE  Writer!Advance(l, s) \/ Writer!KeepAside(s)
  <2>1. CASE InsertSnapshot(s, l, d, "canonical") /\ leases' = [leases EXCEPT ![l].latest = s]
    <3>1. /\ leases[l].state = "Active" /\ leases[l].holder \notin revoked
          /\ ~ Stored(s) /\ UNCHANGED revoked
      BY <1>6 DEF PublishSnapshotCanonical, NotRevoked
    <3>2. s \notin AbsKept /\ AbsKept' = AbsKept \cup {s}
      BY <1>5, <2>1, <3>1
    <3>3. \A m \in Leases : /\ leases'[m].holder = leases[m].holder
                            /\ leases'[m].epoch = leases[m].epoch
                            /\ leases'[m].state = leases[m].state
                            /\ leases'[m].latest = IF m = l THEN s ELSE leases[m].latest
      BY <1>0, <2>1 DEF Lease
    <3>4. /\ AbsLatest' = [AbsLatest EXCEPT ![l] = s]
          /\ UNCHANGED <<AbsWriter, AbsEpoch, AbsOpen>>
      BY <3>3 DEF AbsLatest, AbsWriter, AbsEpoch, AbsOpen
    <3>5. QED
      BY <3>1, <3>2, <3>4 DEF AbsOpen, AbsWriter, AbsEpoch, AbsLatest, AbsKept
  <2>2. CASE InsertSnapshot(s, l, d, "stale") /\ UNCHANGED leases
    <3>1. ~ Stored(s) /\ UNCHANGED revoked
      BY <1>6 DEF PublishSnapshotCanonical
    <3>2. s \notin AbsKept /\ AbsKept' = AbsKept \cup {s}
      BY <1>5, <2>2, <3>1
    <3>3. QED
      BY <2>2, <3>1, <3>2 DEF AbsKept
  <2>3. QED
    BY <1>6, <2>1, <2>2 DEF PublishSnapshotCanonical
<1>7. ASSUME NEW s \in Snapshots, NEW l \in Leases, NEW d \in Devices,
             PublishInactiveSnapshotAsFork(s, l, d)
      PROVE  Writer!KeepAside(s)
  <2>1. s \notin AbsKept /\ AbsKept' = AbsKept \cup {s}
    BY <1>5, <1>7 DEF PublishInactiveSnapshotAsFork
  <2>2. leases[l].state = "Inactive" /\ leases' = [leases EXCEPT ![l].state = "Forked"] /\ UNCHANGED revoked
    BY <1>7 DEF PublishInactiveSnapshotAsFork
  <2>3. \A m \in Leases : /\ leases'[m].holder = leases[m].holder
                          /\ leases'[m].epoch = leases[m].epoch
                          /\ leases'[m].latest = leases[m].latest
                          /\ leases'[m].state = "Active" <=> leases[m].state = "Active"
    BY <1>0, <2>2 DEF Lease
  <2>4. UNCHANGED <<AbsWriter, AbsEpoch, AbsLatest, AbsOpen>>
    BY <2>3 DEF AbsWriter, AbsEpoch, AbsLatest, AbsOpen
  <2>5. QED
    BY <2>1, <2>2, <2>4 DEF AbsOpen, AbsWriter, AbsEpoch, AbsLatest, AbsKept
<1>8. ASSUME NEW d \in Devices, RevokeDevice(d)
      PROVE  Writer!Bar(d)
  BY <1>8 DEF RevokeDevice, Stored
<1>9. ASSUME UNCHANGED <<leases, handoffs, snapshots, revoked, transfers>>
      PROVE  UNCHANGED Writer!vars
  BY <1>9 DEF Stored
<1> HIDE DEF Writer!vars, Writer!Close, Writer!Reopen, Writer!PassOn, Writer!Advance,
             Writer!KeepAside, Writer!Bar
<1>10. QED
  BY <1>1, <1>2, <1>3, <1>4, <1>6, <1>7, <1>8, <1>9, StepShapes

\* Handoffs, recoveries and publishes, however they interleave, give every lease
\* the single fenced writer of SingleWriter.
THEOREM ImplementsSingleWriterAlways == Spec => ImplementsSingleWriter
<1>1. Init => Writer!Init
  BY DEF Init, Writer!Init, Stored, NoSnapshot
<1>2. TypeOK /\ HandoffOwnsLease /\ [Next]_vars => [Writer!Next]_(Writer!vars)
  BY WriterStep
<1>3. QED
  BY <1>1, <1>2, TypeCorrect, HandoffOwnsLeaseAlways, PTL DEF Spec, ImplementsSingleWriter, Writer!Spec

-----------------------------------------------------------------------------
(* What a step may do to latest, and to whom it may give a lease.          *)

\* latest moves only by a publish, which finds the lease active and its holder
\* not revoked.
LEMMA LatestStep ==
  ASSUME TypeOK, [Next]_vars, NEW l \in Leases, leases'[l].latest # leases[l].latest
  PROVE  leases[l].state = "Active" /\ leases[l].holder \notin revoked
<1> DEFINE Same == leases'[l].latest = leases[l].latest
<1>0. leases \in [Leases -> Lease] /\ handoffs \in [Handoffs -> Handoff \cup {NoHandoff}]
  BY DEF TypeOK
<1>1. ASSUME NEW h \in Handoffs, NEW m \in Leases, NEW s, NEW t, NEW g, NEW ttl,
             BeginHandoff(h, m, s, t, g, ttl)
      PROVE  Same
  BY <1>0, <1>1 DEF BeginHandoff, Lease
<1>2. ASSUME NEW h \in Handoffs, MarkHandoffTargetVerified(h) \/ MarkHandoffSourceReady(h)
      PROVE  Same
  BY <1>2 DEF MarkHandoffTargetVerified, MarkHandoffSourceReady, UpdateHandoffState
<1>3. ASSUME NEW h \in Handoffs, AbortWrites(h) \/ CommitRejectWrites(h)
      PROVE  Same
  <2>1. ReleaseLease(h)
    BY <1>3 DEF AbortWrites, CommitRejectWrites
  <2>2. QED
    BY <1>0, <2>1 DEF ReleaseLease, Lease
<1>4. ASSUME NEW h \in Handoffs, CommitAcceptWrites(h)
      PROVE  Same
  BY <1>0, <1>4 DEF CommitAcceptWrites
<1>5. ASSUME NEW s \in Snapshots, NEW m \in Leases, NEW d, NEW e, NEW x,
             PublishSnapshotCanonical(s, m, d, e, x)
      PROVE  leases[l].state = "Active" /\ leases[l].holder \notin revoked
  <2>1. m = l
    BY <1>0, <1>5 DEF PublishSnapshotCanonical
  <2>2. QED
    BY <1>5, <2>1 DEF PublishSnapshotCanonical, NotRevoked
<1>6. ASSUME NEW s \in Snapshots, NEW m \in Leases, NEW d, PublishInactiveSnapshotAsFork(s, m, d)
      PROVE  Same
  BY <1>0, <1>6 DEF PublishInactiveSnapshotAsFork, Lease
<1>7. ASSUME NEW d, RevokeDevice(d)
      PROVE  Same
  BY <1>7 DEF RevokeDevice
<1>8. UNCHANGED leases => Same
  OBVIOUS
<1>9. QED
  BY <1>1, <1>2, <1>3, <1>4, <1>5, <1>6, <1>7, <1>8, StepShapes

\* A new holder is not revoked: a commit checks its target, and nothing else
\* changes a holder.
LEMMA HolderStep ==
  ASSUME TypeOK, HandoffOwnsLease, [Next]_vars, NEW l \in Leases,
         leases'[l].holder # leases[l].holder
  PROVE  leases'[l].holder \notin revoked
<1> DEFINE Same == leases'[l].holder = leases[l].holder
<1>0. leases \in [Leases -> Lease] /\ handoffs \in [Handoffs -> Handoff \cup {NoHandoff}]
  BY DEF TypeOK
<1>1. ASSUME NEW h \in Handoffs, NEW m \in Leases, NEW s, NEW t, NEW g, NEW ttl,
             BeginHandoff(h, m, s, t, g, ttl)
      PROVE  Same
  BY <1>0, <1>1 DEF BeginHandoff, Lease
<1>2. ASSUME NEW h \in Handoffs, MarkHandoffTargetVerified(h) \/ MarkHandoffSourceReady(h)
      PROVE  Same
  BY <1>2 DEF MarkHandoffTargetVerified, MarkHandoffSourceReady, UpdateHandoffState
<1>3. ASSUME NEW h \in Handoffs, AbortWrites(h) \/ CommitRejectWrites(h)
      PROVE  Same
  <2>1. ReleaseLease(h)
    BY <1>3 DEF AbortWrites, CommitRejectWrites
  <2>2. QED
    BY <1>0, <2>1 DEF ReleaseLease, Lease
<1>4. ASSUME NEW h \in Handoffs, NotRevoked(handoffs[h].target), CommitAcceptWrites(h)
      PROVE  leases'[l].holder \notin revoked
  <2>1. CASE l = handoffs[h].lease
    BY <1>0, <1>4, <2>1 DEF CommitAcceptWrites, NotRevoked
  <2>2. CASE l # handoffs[h].lease
    BY <1>0, <1>4, <2>2 DEF CommitAcceptWrites
  <2>3. QED
    BY <2>1, <2>2
<1>5. ASSUME NEW s \in Snapshots, NEW m \in Leases, NEW d,
             \/ \E e, x : PublishSnapshotCanonical(s, m, d, e, x)
             \/ PublishInactiveSnapshotAsFork(s, m, d)
      PROVE  Same
  BY <1>0, <1>5 DEF PublishSnapshotCanonical, PublishInactiveSnapshotAsFork, Lease
<1>6. ASSUME NEW d, RevokeDevice(d)
      PROVE  Same
  BY <1>6 DEF RevokeDevice
<1>7. UNCHANGED leases => Same
  OBVIOUS
<1>8. QED
  BY <1>1, <1>2, <1>3, <1>4, <1>5, <1>6, <1>7, StepShapes

\* While a handoff is pending, latest of its lease stays what the target was
\* shown: publish finds the lease pending and refuses.
THEOREM HandoffFreezesLatestAlways == Spec => HandoffFreezesLatest
<1>1. TypeOK /\ HandoffOwnsLease /\ [Next]_vars =>
        [\A h \in Handoffs : IsPending(h) =>
           leases'[handoffs[h].lease].latest = leases[handoffs[h].lease].latest]_vars
  <2> SUFFICES ASSUME TypeOK, HandoffOwnsLease, [Next]_vars, NEW h \in Handoffs, IsPending(h)
               PROVE  leases'[handoffs[h].lease].latest = leases[handoffs[h].lease].latest
    OBVIOUS
  <2>1. handoffs[h].lease \in Leases
    BY PendingHandoff
  <2>2. leases[handoffs[h].lease].state = "HandoffPending"
    BY DEF HandoffOwnsLease
  <2>3. QED
    BY <2>1, <2>2, LatestStep
<1>2. QED
  BY <1>1, TypeCorrect, HandoffOwnsLeaseAlways, PTL DEF Spec, HandoffFreezesLatest

\* A device that has been revoked is never made the writer, and while it still
\* is the writer its lease's latest does not move.
THEOREM RevokedNeverGainsAlways == Spec => RevokedNeverGains
<1>1. TypeOK /\ HandoffOwnsLease /\ [Next]_vars =>
        [\A l \in Leases :
           /\ leases'[l].holder # leases[l].holder => leases'[l].holder \notin revoked
           /\ leases'[l].latest # leases[l].latest => leases[l].holder \notin revoked]_vars
  BY LatestStep, HolderStep
<1>2. QED
  BY <1>1, TypeCorrect, HandoffOwnsLeaseAlways, PTL DEF Spec, RevokedNeverGains

-----------------------------------------------------------------------------
(* What recovery reported.  A finished handoff stays as it finished, so an *)
(* answer that was true when it was given stays true.                      *)

\* Once committed or aborted, a handoff keeps that state.
LEMMA EndingsFinal ==
  ASSUME TypeOK, [Next]_vars, NEW h \in Handoffs, IsTerminal(h)
  PROVE  handoffs'[h].state = handoffs[h].state
<1>0. handoffs \in [Handoffs -> Handoff \cup {NoHandoff}]
  BY DEF TypeOK
<1>1. handoffs[h].state \in {"Committed", "Aborted"} /\ ~ IsPending(h)
  BY DEF IsTerminal, TerminalStates, IsPending, PendingStates
<1>2. ASSUME NEW k \in Handoffs, NEW m \in Leases, NEW s, NEW t, NEW g, NEW ttl,
             BeginHandoff(k, m, s, t, g, ttl)
      PROVE  handoffs'[h] = handoffs[h]
  BY <1>0, <1>1, <1>2 DEF BeginHandoff
<1>3. ASSUME NEW k \in Handoffs, MarkHandoffTargetVerified(k) \/ MarkHandoffSourceReady(k)
      PROVE  handoffs'[h] = handoffs[h]
  BY <1>0, <1>1, <1>3 DEF MarkHandoffTargetVerified, MarkHandoffSourceReady, UpdateHandoffState
<1>4. ASSUME NEW k \in Handoffs, IsPending(k), AbortWrites(k) \/ CommitRejectWrites(k)
      PROVE  handoffs'[h] = handoffs[h]
  BY <1>0, <1>1, <1>4 DEF AbortWrites, CommitRejectWrites
<1>5. ASSUME NEW k \in Handoffs, handoffs[k].state = "SourceReady", CommitAcceptWrites(k)
      PROVE  handoffs'[h] = handoffs[h]
  BY <1>0, <1>1, <1>5 DEF CommitAcceptWrites
<1>6. ASSUME NEW s \in Snapshots, NEW m \in Leases, NEW d,
             \/ \E e, x : PublishSnapshotCanonical(s, m, d, e, x)
             \/ PublishInactiveSnapshotAsFork(s, m, d)
      PROVE  handoffs'[h] = handoffs[h]
  BY <1>6 DEF PublishSnapshotCanonical, PublishInactiveSnapshotAsFork
<1>7. ASSUME NEW d, RevokeDevice(d)
      PROVE  handoffs'[h] = handoffs[h]
  BY <1>7 DEF RevokeDevice
<1>8. UNCHANGED handoffs => handoffs'[h] = handoffs[h]
  OBVIOUS
<1>9. QED
  BY <1>2, <1>3, <1>4, <1>5, <1>6, <1>7, <1>8, StepShapes

\* What one recovery's answer promises about its handoff.
Truthful(r) ==
    recoveries[r].phase = "returned" =>
      LET h == recoveries[r].handoff IN
      /\ recoveries[r].outcome \in {"Committed", "AlreadyCommitted"} => handoffs[h].state = "Committed"
      /\ recoveries[r].outcome \in {"AbortedExpired", "AlreadyAborted"} => handoffs[h].state = "Aborted"

\* An answer that is not touched stays true.
LEMMA AnswerStays ==
  ASSUME TypeOK, [Next]_vars, NEW r \in Recoveries, Truthful(r), recoveries'[r] = recoveries[r]
  PROVE  Truthful(r)'
<1>1. CASE recoveries[r].phase = "returned"
  <2> DEFINE h == recoveries[r].handoff
  <2>1. h \in Handoffs
    BY <1>1, PresentRecovery DEF Recovery
  <2>2. IsTerminal(h) => handoffs'[h].state = handoffs[h].state
    BY <2>1, EndingsFinal
  <2>3. QED
    BY <1>1, <2>2 DEF Truthful, IsTerminal, TerminalStates
<1>2. CASE recoveries[r].phase # "returned"
  BY <1>2 DEF Truthful
<1>3. QED
  BY <1>1, <1>2

\* A recovery answers only what it has read or done.
LEMMA AnswerTrue ==
  ASSUME TypeOK, NEW r \in Recoveries,
         \/ \E h \in Handoffs, g \in Generations : RecoverRead(r, h, g)
         \/ RecoverAbort(r)
         \/ RecoverCommit(r)
         \/ RecoverEnd(r)
  PROVE  Truthful(r)'
<1>0. /\ recoveries \in [Recoveries -> Recovery \cup {NoRecovery}]
      /\ handoffs \in [Handoffs -> Handoff \cup {NoHandoff}]
  BY DEF TypeOK
<1>1. ASSUME NEW h \in Handoffs, NEW g \in Generations, RecoverRead(r, h, g)
      PROVE  Truthful(r)'
  <2>1. /\ RecoveryChoice(h, now).outcome = "AlreadyCommitted" => handoffs[h].state = "Committed"
        /\ RecoveryChoice(h, now).outcome = "AlreadyAborted" => handoffs[h].state = "Aborted"
        /\ RecoveryChoice(h, now).outcome \notin {"Committed", "AbortedExpired"}
    BY DEF RecoveryChoice
  <2>2. /\ recoveries'[r].handoff = h
        /\ recoveries'[r].outcome = RecoveryChoice(h, now).outcome
        /\ handoffs' = handoffs
    BY <1>0, <1>1 DEF RecoverRead
  <2>3. QED
    BY <2>1, <2>2 DEF Truthful
<1>2. ASSUME recoveries[r] \in Recovery, NEW outcome, Return(r, outcome)
      PROVE  recoveries'[r].outcome = outcome /\ recoveries'[r].handoff = recoveries[r].handoff
  BY <1>0, <1>2 DEF Return, Recovery
<1>3. ASSUME NEW h \in Handoffs, handoffs[h] \in Handoff, NEW state,
             handoffs' = [handoffs EXCEPT ![h].state = state]
      PROVE  handoffs'[h].state = state
  BY <1>0, <1>3 DEF Handoff
<1>4. CASE RecoverAbort(r)
  <2> DEFINE h == recoveries[r].handoff
  <2>1. recoveries[r] \in Recovery /\ h \in Handoffs
    BY <1>4, PresentRecovery DEF RecoverAbort, Recovery
  <2>2. CASE IsPending(h) /\ AbortWrites(h) /\ Return(r, "AbortedExpired")
    <3>1. handoffs[h] \in Handoff
      BY <2>1, <2>2, PendingHandoff
    <3>2. handoffs'[h].state = "Aborted"
      BY <1>3, <2>1, <2>2, <3>1 DEF AbortWrites
    <3>3. QED
      BY <1>2, <2>1, <2>2, <3>2 DEF Truthful
  <2>3. CASE handoffs[h].state = "Aborted" /\ Return(r, "AbortedExpired") /\ UNCHANGED handoffs
    BY <1>2, <2>1, <2>3 DEF Truthful
  <2>4. CASE Return(r, "Err")
    BY <1>2, <2>1, <2>4 DEF Truthful
  <2>5. QED
    BY <1>4, <2>2, <2>3, <2>4 DEF RecoverAbort
<1>5. CASE RecoverCommit(r)
  <2> DEFINE h == recoveries[r].handoff
  <2>1. recoveries[r] \in Recovery /\ h \in Handoffs
    BY <1>5, PresentRecovery DEF RecoverCommit, Recovery
  <2>2. CASE handoffs[h].state = "SourceReady" /\ CommitAcceptWrites(h) /\ Return(r, "Committed")
    <3>1. handoffs[h] \in Handoff
      BY <2>1, <2>2, PresentHandoff
    <3>2. handoffs'[h].state = "Committed"
      BY <1>3, <2>1, <2>2, <3>1 DEF CommitAcceptWrites
    <3>3. QED
      BY <1>2, <2>1, <2>2, <3>2 DEF Truthful
  <2>3. CASE Return(r, "Err")
    BY <1>2, <2>1, <2>3 DEF Truthful
  <2>4. QED
    BY <1>5, <2>2, <2>3 DEF RecoverCommit, CommitAccepted
<1>6. CASE RecoverEnd(r)
  BY <1>0, <1>6 DEF RecoverEnd, Truthful, NoRecovery
<1>7. QED
  BY <1>1, <1>4, <1>5, <1>6

\* What recover_handoff told a caller stays true, whatever raced with it and
\* however old the clock and the generation it worked with.
THEOREM RecoveryTellsTheTruthAlways == Spec => []RecoveryTellsTheTruth
<1>1. Init => RecoveryTellsTheTruth
  BY DEF Init, RecoveryTellsTheTruth, NoRecovery
<1>2. TypeOK /\ RecoveryTellsTheTruth /\ [Next]_vars => RecoveryTellsTheTruth'
  <2> SUFFICES ASSUME TypeOK, RecoveryTellsTheTruth, [Next]_vars, NEW r \in Recoveries
               PROVE  Truthful(r)'
    BY DEF RecoveryTellsTheTruth, Truthful
  <2>1. Truthful(r)
    BY DEF RecoveryTellsTheTruth, Truthful
  <2>2. ASSUME NEW q \in Recoveries,
               \/ \E h \in Handoffs, g \in Generations : RecoverRead(q, h, g)
               \/ RecoverAbort(q)
               \/ RecoverCommit(q)
               \/ RecoverEnd(q)
        PROVE  Truthful(r)'
    <3>1. q # r => recoveries'[r] = recoveries[r]
      BY <2>2 DEF TypeOK, RecoverRead, RecoverAbort, RecoverCommit, RecoverEnd, Return
    <3>2. QED
      BY <2>1, <2>2, <3>1, AnswerStays, AnswerTrue
  <2>3. CASE UNCHANGED recoveries
    BY <2>1, <2>3, AnswerStays
  <2>4. UNCHANGED recoveries \/ \E q \in Recoveries :
               \/ \E h \in Handoffs, g \in Generations : RecoverRead(q, h, g)
               \/ RecoverAbort(q)
               \/ RecoverCommit(q)
               \/ RecoverEnd(q)
    <3>1. ASSUME NEW h \in Handoffs,
            \/ \E l \in Leases, s, t \in Devices, g \in Generations, ttl \in Ttls :
                 BeginHandoff(h, l, s, t, g, ttl)
            \/ RecordHandoffTargetApply(h)
            \/ MarkHandoffTargetVerified(h)
            \/ MarkHandoffSourceReady(h)
            \/ AbortHandoff(h)
            \/ \E g \in Generations : CommitHandoff(h, g)
          PROVE  UNCHANGED recoveries
      BY <3>1 DEF BeginHandoff, RecordHandoffTargetApply, MarkHandoffTargetVerified,
                  MarkHandoffSourceReady, UpdateHandoffState, AbortHandoff, CommitHandoff
    <3>2. ASSUME NEW s \in Snapshots, NEW l \in Leases, NEW d \in Devices,
            \/ \E e, x : PublishSnapshotCanonical(s, l, d, e, x)
            \/ PublishInactiveSnapshotAsFork(s, l, d)
          PROVE  UNCHANGED recoveries
      BY <3>2 DEF PublishSnapshotCanonical, PublishInactiveSnapshotAsFork
    <3>3. ASSUME NEW d \in Devices, RevokeDevice(d) PROVE UNCHANGED recoveries
      BY <3>3 DEF RevokeDevice
    <3>4. Tick \/ UNCHANGED vars => UNCHANGED recoveries
      BY DEF Tick, vars
    <3>5. QED
      BY <3>1, <3>2, <3>3, <3>4 DEF Next
  <2>5. QED
    BY <2>2, <2>3, <2>4
<1>3. QED
  BY <1>1, <1>2, TypeCorrect, PTL DEF Spec

-----------------------------------------------------------------------------
(* The history of a lease.  CanonicalHistoryIsFenced is inductive together *)
(* with TypeOK and HandoffOwnsLease and what a commit and a publish need   *)
(* to know of the numbers they give out.                                   *)

\* Epochs begin at InitEpoch, a transfer is one epoch long, and every sequence
\* number given out is below the next one.
NumbersInOrder ==
    /\ \A l \in Leases : leases[l].epoch >= InitEpoch
    /\ \A t \in transfers : t.next = t.previous + 1
    /\ \A s \in Snapshots : Stored(s) => snapshots[s].seq < NextSequence

HistoryInv == NumbersInOrder /\ CanonicalHistoryIsFenced

\* What a canonical snapshot is of its lease.
CanonicalOf(l) == {s \in Snapshots : snapshots[s].kind = "canonical" /\ snapshots[s].lease = l}

\* A canonical row is a full row, of one of the leases.
LEMMA CanonicalRow ==
  ASSUME TypeOK, NEW s \in Snapshots, Stored(s)
  PROVE  snapshots[s] \in Snapshot /\ snapshots[s].lease \in Leases
BY DEF TypeOK, Stored, Snapshot, NoSnapshot

\* A step that leaves the columns of the history alone preserves it.
LEMMA HistorySame ==
  ASSUME TypeOK, HistoryInv, UNCHANGED <<snapshots, transfers>>,
         \A l \in Leases : /\ leases'[l].epoch = leases[l].epoch
                           /\ leases'[l].holder = leases[l].holder
                           /\ leases'[l].latest = leases[l].latest
  PROVE  HistoryInv'
<1>1. NumbersInOrder'
  BY DEF HistoryInv, NumbersInOrder, NextSequence, Stored
<1>2. TransfersExplainHolder'
  BY DEF HistoryInv, CanonicalHistoryIsFenced, TransfersExplainHolder
<1>3. \A s \in Snapshots : snapshots[s].kind = "canonical" => snapshots[s].lease \in Leases
  BY CanonicalRow DEF Stored
<1>4. CanonicalByEpochHolder'
  BY <1>3 DEF HistoryInv, CanonicalHistoryIsFenced, CanonicalByEpochHolder
<1>5. LatestIsNewestCanonical'
  BY DEF HistoryInv, CanonicalHistoryIsFenced, LatestIsNewestCanonical
<1>6. QED
  BY <1>1, <1>2, <1>4, <1>5 DEF HistoryInv, CanonicalHistoryIsFenced

\* A commit adds to the story the transfer from the holder it found to the
\* target, one epoch on.
LEMMA CommitHistory ==
  ASSUME TypeOK, HandoffOwnsLease, HistoryInv, NEW h \in Handoffs,
         handoffs[h].state = "SourceReady", CommitAcceptWrites(h), UNCHANGED snapshots
  PROVE  HistoryInv'
<1> DEFINE m == handoffs[h].lease
           e == leases[m].epoch
           new == [lease |-> m, handoff |-> h, from |-> handoffs[h].source,
                   to |-> handoffs[h].target, previous |-> handoffs[h].expectedEpoch,
                   next |-> handoffs[h].expectedEpoch + 1]
<1>1. IsPending(h)
  BY DEF IsPending, PendingStates
<1>2. /\ m \in Leases
      /\ e = handoffs[h].expectedEpoch
      /\ leases[m].holder = handoffs[h].source
  BY <1>1, PendingHandoff DEF HandoffOwnsLease
<1>3. /\ e \in Nat
      /\ e >= InitEpoch
  BY <1>2 DEF TypeOK, Lease, HistoryInv, NumbersInOrder
<1>4. /\ transfers' = transfers \cup {new}
      /\ leases'[m].epoch = e + 1
      /\ leases'[m].holder = handoffs[h].target
      /\ leases'[m].latest = leases[m].latest
      /\ \A l \in Leases : l # m => leases'[l] = leases[l]
  BY <1>2 DEF CommitAcceptWrites, TypeOK
<1>5. /\ new.lease = m
      /\ new.from = leases[m].holder
      /\ new.to = handoffs[h].target
      /\ new.previous = e
      /\ new.next = e + 1
  BY <1>2
<1>6. \A t \in transfers : /\ t.previous \in Nat
                           /\ t.next = t.previous + 1
                           /\ t.lease \in Leases
                           /\ t.next \in (InitEpoch + 1) .. leases[t.lease].epoch
  <2> TAKE t \in transfers
  <2>1. t.previous \in Nat /\ t.lease \in Leases /\ t.next = t.previous + 1
    BY DEF TypeOK, Transfer, HistoryInv, NumbersInOrder
  <2>2. t.next \in (InitEpoch + 1) .. leases[t.lease].epoch
    BY <2>1 DEF HistoryInv, CanonicalHistoryIsFenced, TransfersExplainHolder
  <2>3. QED
    BY <2>1, <2>2
<1> HIDE DEF new, m, e
<1>7. NumbersInOrder'
  <2>1. \A t \in transfers' : t.next = t.previous + 1
    BY <1>4, <1>5, <1>6
  <2>2. \A l \in Leases : leases'[l].epoch >= InitEpoch
    BY <1>3, <1>4 DEF HistoryInv, NumbersInOrder
  <2>3. QED
    BY <2>1, <2>2 DEF HistoryInv, NumbersInOrder, NextSequence, Stored
<1>8. TransfersExplainHolder'
  <2> SUFFICES ASSUME NEW l \in Leases
               PROVE  LET log == {t \in transfers' : t.lease = l} IN
                      /\ {t.next : t \in log} = (InitEpoch + 1) .. leases'[l].epoch
                      /\ \A t, u \in log : t.next = u.next => t = u
                      /\ \A t, u \in log : t.next = u.previous => t.to = u.from
                      /\ \A t \in log : t.next = leases'[l].epoch => t.to = leases'[l].holder
    BY DEF TransfersExplainHolder
  <2> DEFINE before == {t \in transfers : t.lease = l}
  <2>1. /\ {t.next : t \in before} = (InitEpoch + 1) .. leases[l].epoch
        /\ \A t, u \in before : t.next = u.next => t = u
        /\ \A t, u \in before : t.next = u.previous => t.to = u.from
        /\ \A t \in before : t.next = leases[l].epoch => t.to = leases[l].holder
    BY DEF HistoryInv, CanonicalHistoryIsFenced, TransfersExplainHolder
  <2>2. CASE l # m
    <3>1. {t \in transfers' : t.lease = l} = before
      BY <1>4, <1>5, <2>2
    <3>2. QED
      BY <1>4, <2>1, <2>2, <3>1
  <2>3. CASE l = m
    <3>1. {t \in transfers' : t.lease = l} = before \cup {new}
      BY <1>4, <1>5, <2>3
    <3>2. {t.next : t \in before \cup {new}} = {t.next : t \in before} \cup {e + 1}
      BY <1>5
    <3>3. ((InitEpoch + 1) .. e) \cup {e + 1} = (InitEpoch + 1) .. (e + 1)
      BY <1>3
    <3>4. leases[l].epoch = e
      BY <2>3 DEF e
    <3>5. \A t \in before : t.next \in (InitEpoch + 1) .. e /\ t.previous \in Nat /\ t.next = t.previous + 1
      BY <1>6, <2>3, <3>4
    <3>6. {t.next : t \in before \cup {new}} = (InitEpoch + 1) .. leases'[l].epoch
      BY <1>4, <2>1, <2>3, <3>2, <3>3, <3>4
    <3>7. \A t, u \in before \cup {new} : t.next = u.next => t = u
      BY <1>3, <1>5, <2>1, <3>5
    <3>8. \A t, u \in before \cup {new} : t.next = u.previous => t.to = u.from
      <4> SUFFICES ASSUME NEW t \in before \cup {new}, NEW u \in before \cup {new}, t.next = u.previous
                   PROVE  t.to = u.from
        OBVIOUS
      <4>1. CASE t \in before /\ u \in before
        BY <2>1, <4>1
      <4>2. CASE t \in before /\ u = new
        BY <1>5, <2>1, <2>3, <3>4, <4>2
      <4>3. CASE t = new
        <5>1. u.previous = e + 1
          BY <1>5, <4>3
        <5>2. u \notin before
          BY <1>3, <3>5, <5>1
        <5>3. QED
          BY <1>3, <1>5, <5>1, <5>2
      <4>4. QED
        BY <4>1, <4>2, <4>3
    <3>9. \A t \in before \cup {new} : t.next = leases'[l].epoch => t.to = leases'[l].holder
      BY <1>3, <1>4, <1>5, <2>3, <3>5
    <3>10. QED
      BY <3>1, <3>6, <3>7, <3>8, <3>9
  <2>4. QED
    BY <2>2, <2>3
<1>9. CanonicalByEpochHolder'
  <2> SUFFICES ASSUME NEW s \in Snapshots, snapshots[s].kind = "canonical"
               PROVE  LET l == snapshots[s].lease
                          x == snapshots[s].epoch IN
                      /\ x \in InitEpoch .. leases'[l].epoch
                      /\ \A t \in transfers' : t.lease = l =>
                           /\ t.next = x => t.to = snapshots[s].device
                           /\ t.previous = x => t.from = snapshots[s].device
                      /\ x = leases'[l].epoch => snapshots[s].device = leases'[l].holder
    BY DEF CanonicalByEpochHolder
  <2> DEFINE l == snapshots[s].lease
             x == snapshots[s].epoch
  <2>1. l \in Leases /\ x \in Nat
    BY CanonicalRow DEF Stored, Snapshot
  <2>2. /\ x \in InitEpoch .. leases[l].epoch
        /\ \A t \in transfers : t.lease = l =>
             /\ t.next = x => t.to = snapshots[s].device
             /\ t.previous = x => t.from = snapshots[s].device
        /\ x = leases[l].epoch => snapshots[s].device = leases[l].holder
    BY DEF HistoryInv, CanonicalHistoryIsFenced, CanonicalByEpochHolder
  <2> HIDE DEF l, x
  <2>3. CASE l # m
    BY <1>4, <1>5, <2>1, <2>2, <2>3 DEF l, x
  <2>4. CASE l = m
    <3>1. x \in InitEpoch .. e
      BY <2>2, <2>4 DEF e
    <3>2. x \in InitEpoch .. leases'[l].epoch /\ x # leases'[l].epoch
      BY <1>3, <1>4, <2>1, <2>4, <3>1
    <3>3. /\ new.next = x => new.to = snapshots[s].device
          /\ new.previous = x => new.from = snapshots[s].device
      BY <1>3, <1>5, <2>1, <2>2, <2>4, <3>1 DEF e
    <3>4. QED
      BY <1>4, <2>2, <3>2, <3>3 DEF l, x
  <2>5. QED
    BY <2>3, <2>4
<1>10. LatestIsNewestCanonical'
  <2>1. \A l \in Leases : leases'[l].latest = leases[l].latest
    BY <1>4
  <2>2. QED
    BY <2>1 DEF HistoryInv, CanonicalHistoryIsFenced, LatestIsNewestCanonical
<1>11. QED
  BY <1>7, <1>8, <1>9, <1>10 DEF HistoryInv, CanonicalHistoryIsFenced

\* Storing one more snapshot gives it a number above every other one's.
LEMMA InsertNumbers ==
  ASSUME TypeOK, HistoryInv, NEW s \in Snapshots, ~ Stored(s), NEW l \in Leases, NEW d \in Devices,
         NEW kind \in {"canonical", "stale", "fork"}, InsertSnapshot(s, l, d, kind)
  PROVE  /\ snapshots'[s] = [kind |-> kind, lease |-> l, device |-> d,
                             epoch |-> leases[l].epoch, seq |-> NextSequence]
         /\ \A u \in Snapshots : u # s => snapshots'[u] = snapshots[u]
         /\ \A u \in Snapshots : Stored(u)' => snapshots'[u].seq < NextSequence'
         /\ \A u \in Snapshots : Stored(u) => snapshots[u].seq \in Nat /\ snapshots[u].seq < NextSequence
<1> DEFINE before == {u \in Snapshots : Stored(u)}
<1>1. /\ snapshots'[s] = [kind |-> kind, lease |-> l, device |-> d,
                          epoch |-> leases[l].epoch, seq |-> NextSequence]
      /\ \A u \in Snapshots : u # s => snapshots'[u] = snapshots[u]
  BY DEF InsertSnapshot, TypeOK
<1>2. {u \in Snapshots : Stored(u)'} = before \cup {s} /\ s \notin before
  BY <1>1 DEF Stored
<1>3. IsFiniteSet(before)
  BY FiniteAssumption, FS_Subset
<1>4. Cardinality(before \cup {s}) = Cardinality(before) + 1 /\ Cardinality(before) \in Nat
  BY <1>2, <1>3, FS_AddElement, FS_CardinalityType
<1>5. NextSequence' = NextSequence + 1 /\ NextSequence \in Nat
  BY <1>2, <1>4 DEF NextSequence
<1>6. \A u \in Snapshots : Stored(u) => snapshots[u].seq \in Nat /\ snapshots[u].seq < NextSequence
  BY CanonicalRow DEF Snapshot, HistoryInv, NumbersInOrder
<1>7. \A u \in Snapshots : Stored(u)' => snapshots'[u].seq < NextSequence'
  BY <1>1, <1>5, <1>6 DEF Stored
<1>8. QED
  BY <1>1, <1>6, <1>7

\* A snapshot stored beside latest is not part of canonical history.
LEMMA AsideHistory ==
  ASSUME TypeOK, HistoryInv, NEW s \in Snapshots, ~ Stored(s), NEW l \in Leases, NEW d \in Devices,
         NEW kind \in {"stale", "fork"}, InsertSnapshot(s, l, d, kind), UNCHANGED transfers,
         \A m \in Leases : /\ leases'[m].epoch = leases[m].epoch
                           /\ leases'[m].holder = leases[m].holder
                           /\ leases'[m].latest = leases[m].latest
  PROVE  HistoryInv'
<1>1. /\ snapshots'[s].kind = kind
      /\ \A u \in Snapshots : u # s => snapshots'[u] = snapshots[u]
      /\ \A u \in Snapshots : Stored(u)' => snapshots'[u].seq < NextSequence'
  <2>1. kind \in {"canonical", "stale", "fork"}
    OBVIOUS
  <2>2. /\ snapshots'[s] = [kind |-> kind, lease |-> l, device |-> d,
                            epoch |-> leases[l].epoch, seq |-> NextSequence]
        /\ \A u \in Snapshots : u # s => snapshots'[u] = snapshots[u]
        /\ \A u \in Snapshots : Stored(u)' => snapshots'[u].seq < NextSequence'
    BY <2>1, InsertNumbers
  <2>3. QED
    BY <2>2
<1>2. \A u \in Snapshots : /\ snapshots'[u].kind = "canonical" <=> snapshots[u].kind = "canonical"
                           /\ snapshots[u].kind = "canonical" => snapshots'[u] = snapshots[u]
  BY <1>1 DEF Stored
<1>3. NumbersInOrder'
  BY <1>1 DEF HistoryInv, NumbersInOrder
<1>4. TransfersExplainHolder'
  BY DEF HistoryInv, CanonicalHistoryIsFenced, TransfersExplainHolder
<1>5. \A u \in Snapshots : snapshots[u].kind = "canonical" => snapshots[u].lease \in Leases
  BY CanonicalRow DEF Stored
<1>6. CanonicalByEpochHolder'
  BY <1>2, <1>5 DEF HistoryInv, CanonicalHistoryIsFenced, CanonicalByEpochHolder
<1>7. LatestIsNewestCanonical'
  <2> SUFFICES ASSUME NEW m \in Leases
               PROVE  LET canonical == {u \in Snapshots : snapshots'[u].kind = "canonical" /\ snapshots'[u].lease = m} IN
                      /\ leases'[m].latest = None <=> canonical = {}
                      /\ leases'[m].latest # None =>
                           /\ leases'[m].latest \in canonical
                           /\ \A u \in canonical : snapshots'[u].seq <= snapshots'[leases'[m].latest].seq
                      /\ \A u, t \in canonical : snapshots'[u].seq < snapshots'[t].seq =>
                           snapshots'[u].epoch <= snapshots'[t].epoch
    BY DEF LatestIsNewestCanonical
  <2>1. {u \in Snapshots : snapshots'[u].kind = "canonical" /\ snapshots'[u].lease = m} = CanonicalOf(m)
    BY <1>2 DEF CanonicalOf
  <2>2. \A u \in CanonicalOf(m) : snapshots'[u] = snapshots[u]
    BY <1>2 DEF CanonicalOf
  <2>3. /\ leases[m].latest = None <=> CanonicalOf(m) = {}
        /\ leases[m].latest # None =>
             /\ leases[m].latest \in CanonicalOf(m)
             /\ \A u \in CanonicalOf(m) : snapshots[u].seq <= snapshots[leases[m].latest].seq
        /\ \A u, t \in CanonicalOf(m) : snapshots[u].seq < snapshots[t].seq =>
             snapshots[u].epoch <= snapshots[t].epoch
    BY DEF HistoryInv, CanonicalHistoryIsFenced, LatestIsNewestCanonical, CanonicalOf
  <2>4. QED
    BY <2>1, <2>2, <2>3
<1>8. QED
  BY <1>3, <1>4, <1>6, <1>7 DEF HistoryInv, CanonicalHistoryIsFenced

\* A canonical publish is the holder's, in the current epoch, and above all
\* that was published before.
LEMMA AdvanceHistory ==
  ASSUME TypeOK, HistoryInv, NEW s \in Snapshots, ~ Stored(s), NEW l \in Leases,
         InsertSnapshot(s, l, leases[l].holder, "canonical"),
         leases' = [leases EXCEPT ![l].latest = s], UNCHANGED transfers
  PROVE  HistoryInv'
<1> DEFINE d == leases[l].holder
<1>0. d \in Devices /\ leases[l].epoch \in Nat /\ NextSequence \in Nat
  BY NextSequenceType DEF TypeOK, Lease
<1>1. /\ snapshots'[s] = [kind |-> "canonical", lease |-> l, device |-> d,
                          epoch |-> leases[l].epoch, seq |-> NextSequence]
      /\ \A u \in Snapshots : u # s => snapshots'[u] = snapshots[u]
      /\ \A u \in Snapshots : Stored(u)' => snapshots'[u].seq < NextSequence'
      /\ \A u \in Snapshots : Stored(u) => snapshots[u].seq \in Nat /\ snapshots[u].seq < NextSequence
  BY <1>0, InsertNumbers
<1>2. \A m \in Leases : /\ leases'[m].epoch = leases[m].epoch
                        /\ leases'[m].holder = leases[m].holder
                        /\ leases'[m].latest = IF m = l THEN s ELSE leases[m].latest
  BY DEF TypeOK, Lease
<1>3. \A u \in Snapshots : snapshots[u].kind = "canonical" => u # s /\ Stored(u)
  BY DEF Stored
<1>4. NumbersInOrder'
  BY <1>1, <1>2 DEF HistoryInv, NumbersInOrder
<1>5. TransfersExplainHolder'
  BY <1>2 DEF HistoryInv, CanonicalHistoryIsFenced, TransfersExplainHolder
<1>6. \A u \in Snapshots : snapshots[u].kind = "canonical" =>
        /\ snapshots[u].lease \in Leases
        /\ snapshots[u].epoch \in Nat
        /\ snapshots[u].epoch <= leases[snapshots[u].lease].epoch
  <2> SUFFICES ASSUME NEW u \in Snapshots, snapshots[u].kind = "canonical"
               PROVE  /\ snapshots[u].lease \in Leases
                      /\ snapshots[u].epoch \in Nat
                      /\ snapshots[u].epoch <= leases[snapshots[u].lease].epoch
    OBVIOUS
  <2>1. snapshots[u] \in Snapshot /\ snapshots[u].lease \in Leases
    BY CanonicalRow DEF Stored
  <2>2. snapshots[u].epoch \in InitEpoch .. leases[snapshots[u].lease].epoch
    BY DEF HistoryInv, CanonicalHistoryIsFenced, CanonicalByEpochHolder
  <2>3. QED
    BY <2>1, <2>2 DEF Snapshot, TypeOK, Lease
<1>7. CanonicalByEpochHolder'
  <2> SUFFICES ASSUME NEW u \in Snapshots, snapshots'[u].kind = "canonical"
               PROVE  LET m == snapshots'[u].lease
                          x == snapshots'[u].epoch IN
                      /\ x \in InitEpoch .. leases'[m].epoch
                      /\ \A t \in transfers : t.lease = m =>
                           /\ t.next = x => t.to = snapshots'[u].device
                           /\ t.previous = x => t.from = snapshots'[u].device
                      /\ x = leases'[m].epoch => snapshots'[u].device = leases'[m].holder
    BY DEF CanonicalByEpochHolder
  <2>1. CASE u # s
    BY <1>1, <1>2, <1>6, <2>1 DEF HistoryInv, CanonicalHistoryIsFenced, CanonicalByEpochHolder
  <2>2. CASE u = s
    <3>1. /\ snapshots'[u].lease = l
          /\ snapshots'[u].epoch = leases[l].epoch
          /\ snapshots'[u].device = leases[l].holder
      BY <1>1, <2>2
    <3>2. leases[l].epoch \in InitEpoch .. leases'[l].epoch
      BY <1>0, <1>2 DEF HistoryInv, NumbersInOrder
    <3>3. ASSUME NEW t \in transfers, t.lease = l
          PROVE  /\ t.next = leases[l].epoch => t.to = leases[l].holder
                 /\ t.previous # leases[l].epoch
      <4>1. /\ t.next \in (InitEpoch + 1) .. leases[l].epoch
            /\ t.next = leases[l].epoch => t.to = leases[l].holder
        BY <3>3 DEF HistoryInv, CanonicalHistoryIsFenced, TransfersExplainHolder
      <4>2. t.next = t.previous + 1 /\ t.previous \in Nat
        BY DEF HistoryInv, NumbersInOrder, TypeOK, Transfer
      <4>3. QED
        BY <1>0, <4>1, <4>2
    <3>4. QED
      BY <1>2, <3>1, <3>2, <3>3
  <2>3. QED
    BY <2>1, <2>2
<1>8. LatestIsNewestCanonical'
  <2> SUFFICES ASSUME NEW m \in Leases
               PROVE  LET canonical == {u \in Snapshots : snapshots'[u].kind = "canonical" /\ snapshots'[u].lease = m} IN
                      /\ leases'[m].latest = None <=> canonical = {}
                      /\ leases'[m].latest # None =>
                           /\ leases'[m].latest \in canonical
                           /\ \A u \in canonical : snapshots'[u].seq <= snapshots'[leases'[m].latest].seq
                      /\ \A u, t \in canonical : snapshots'[u].seq < snapshots'[t].seq =>
                           snapshots'[u].epoch <= snapshots'[t].epoch
    BY DEF LatestIsNewestCanonical
  <2>1. /\ leases[m].latest = None <=> CanonicalOf(m) = {}
        /\ leases[m].latest # None =>
             /\ leases[m].latest \in CanonicalOf(m)
             /\ \A u \in CanonicalOf(m) : snapshots[u].seq <= snapshots[leases[m].latest].seq
        /\ \A u, t \in CanonicalOf(m) : snapshots[u].seq < snapshots[t].seq =>
             snapshots[u].epoch <= snapshots[t].epoch
    BY DEF HistoryInv, CanonicalHistoryIsFenced, LatestIsNewestCanonical, CanonicalOf
  <2>2. \A u \in CanonicalOf(m) : /\ u \in Snapshots /\ u # s
                                  /\ snapshots'[u] = snapshots[u]
                                  /\ snapshots[u].seq \in Nat
                                  /\ snapshots[u].seq < NextSequence
                                  /\ snapshots[u].epoch \in Nat
                                  /\ snapshots[u].epoch <= leases[m].epoch
    BY <1>1, <1>3, <1>6 DEF CanonicalOf
  <2>3. CASE m # l
    <3>1. {u \in Snapshots : snapshots'[u].kind = "canonical" /\ snapshots'[u].lease = m} = CanonicalOf(m)
      BY <1>1, <1>3, <2>3 DEF CanonicalOf
    <3>2. QED
      BY <1>2, <2>1, <2>2, <2>3, <3>1
  <2>4. CASE m = l
    <3>1. {u \in Snapshots : snapshots'[u].kind = "canonical" /\ snapshots'[u].lease = m} = CanonicalOf(m) \cup {s}
      BY <1>1, <1>3, <2>4 DEF CanonicalOf
    <3>2. leases'[m].latest = s /\ s # None
      BY <1>2, <2>4
    <3>3. snapshots'[s].seq = NextSequence /\ snapshots'[s].epoch = leases[m].epoch
      BY <1>1, <2>4
    <3>4. \A u \in CanonicalOf(m) \cup {s} : snapshots'[u].seq <= snapshots'[s].seq
      BY <1>0, <2>2, <3>3
    <3>5. \A u, t \in CanonicalOf(m) \cup {s} : snapshots'[u].seq < snapshots'[t].seq =>
            snapshots'[u].epoch <= snapshots'[t].epoch
      BY <1>0, <2>1, <2>2, <2>4, <3>3
    <3>6. QED
      BY <3>1, <3>2, <3>4, <3>5
  <2>5. QED
    BY <2>3, <2>4
<1>9. QED
  BY <1>4, <1>5, <1>7, <1>8 DEF HistoryInv, CanonicalHistoryIsFenced

\* Every step keeps the history.
LEMMA HistoryStep ==
  ASSUME TypeOK, HandoffOwnsLease, HistoryInv, [Next]_vars
  PROVE  HistoryInv'
<1>0. leases \in [Leases -> Lease]
  BY DEF TypeOK
<1>1. ASSUME NEW h \in Handoffs, NEW l \in Leases, NEW s, NEW t, NEW g, NEW ttl,
             BeginHandoff(h, l, s, t, g, ttl)
      PROVE  HistoryInv'
  <2>1. \A m \in Leases : /\ leases'[m].epoch = leases[m].epoch
                          /\ leases'[m].holder = leases[m].holder
                          /\ leases'[m].latest = leases[m].latest
    BY <1>0, <1>1 DEF BeginHandoff, Lease
  <2>2. UNCHANGED <<snapshots, transfers>>
    BY <1>1 DEF BeginHandoff
  <2>3. QED
    BY <2>1, <2>2, HistorySame
<1>2. ASSUME UNCHANGED <<leases, snapshots, transfers>>
      PROVE  HistoryInv'
  BY <1>2, HistorySame
<1>3. ASSUME NEW h \in Handoffs, MarkHandoffTargetVerified(h) \/ MarkHandoffSourceReady(h)
      PROVE  HistoryInv'
  BY <1>2, <1>3 DEF MarkHandoffTargetVerified, MarkHandoffSourceReady, UpdateHandoffState
<1>4. ASSUME NEW h \in Handoffs, AbortWrites(h) \/ CommitRejectWrites(h),
             UNCHANGED <<snapshots, revoked, transfers>>
      PROVE  HistoryInv'
  <2>1. ReleaseLease(h)
    BY <1>4 DEF AbortWrites, CommitRejectWrites
  <2>2. \A m \in Leases : /\ leases'[m].epoch = leases[m].epoch
                          /\ leases'[m].holder = leases[m].holder
                          /\ leases'[m].latest = leases[m].latest
    BY <1>0, <2>1 DEF ReleaseLease, Lease
  <2>3. QED
    BY <1>4, <2>2, HistorySame
<1>5. ASSUME NEW h \in Handoffs, handoffs[h].state = "SourceReady", CommitAcceptWrites(h),
             UNCHANGED <<snapshots, revoked>>
      PROVE  HistoryInv'
  BY <1>5, CommitHistory
<1>6. ASSUME NEW s \in Snapshots, NEW l \in Leases, NEW d \in Devices, NEW e, NEW x,
             PublishSnapshotCanonical(s, l, d, e, x)
      PROVE  HistoryInv'
  <2>1. ~ Stored(s) /\ leases[l].holder = d /\ UNCHANGED transfers
    BY <1>6 DEF PublishSnapshotCanonical
  <2>2. CASE InsertSnapshot(s, l, d, "canonical") /\ leases' = [leases EXCEPT ![l].latest = s]
    BY <2>1, <2>2, AdvanceHistory
  <2>3. CASE InsertSnapshot(s, l, d, "stale") /\ UNCHANGED leases
    BY <2>1, <2>3, AsideHistory
  <2>4. QED
    BY <1>6, <2>2, <2>3 DEF PublishSnapshotCanonical
<1>7. ASSUME NEW s \in Snapshots, NEW l \in Leases, NEW d \in Devices,
             PublishInactiveSnapshotAsFork(s, l, d)
      PROVE  HistoryInv'
  <2>1. /\ ~ Stored(s) /\ InsertSnapshot(s, l, d, "fork") /\ UNCHANGED transfers
        /\ leases' = [leases EXCEPT ![l].state = "Forked"]
    BY <1>7 DEF PublishInactiveSnapshotAsFork
  <2>2. \A m \in Leases : /\ leases'[m].epoch = leases[m].epoch
                          /\ leases'[m].holder = leases[m].holder
                          /\ leases'[m].latest = leases[m].latest
    BY <1>0, <2>1 DEF Lease
  <2>3. QED
    BY <2>1, <2>2, AsideHistory
<1>8. ASSUME NEW d, RevokeDevice(d)
      PROVE  HistoryInv'
  BY <1>2, <1>8 DEF RevokeDevice
<1>9. QED
  BY <1>1, <1>2, <1>3, <1>4, <1>5, <1>6, <1>7, <1>8, StepShapes

\* The audit log, the snapshots and the leases tell one history, for any number
\* of handoffs, publishers and recoveries: what commit_handoff, publish and the
\* fork write into three tables always fits together.
THEOREM CanonicalHistoryIsFencedAlways == Spec => []CanonicalHistoryIsFenced
<1>1. Init => HistoryInv
  <2> SUFFICES ASSUME Init PROVE HistoryInv
    OBVIOUS
  <2>1. /\ \A l \in Leases : leases[l].epoch = InitEpoch /\ leases[l].latest = None
        /\ \A s \in Snapshots : snapshots[s].kind = "Absent"
        /\ transfers = {}
    BY DEF Init, NoSnapshot
  <2>2. NumbersInOrder
    BY <2>1 DEF NumbersInOrder, Stored
  <2>3. (InitEpoch + 1) .. InitEpoch = {}
    OBVIOUS
  <2>4. TransfersExplainHolder
    BY <2>1, <2>3 DEF TransfersExplainHolder
  <2>5. CanonicalByEpochHolder /\ LatestIsNewestCanonical
    BY <2>1 DEF CanonicalByEpochHolder, LatestIsNewestCanonical
  <2>6. QED
    BY <2>2, <2>4, <2>5 DEF HistoryInv, CanonicalHistoryIsFenced
<1>2. TypeOK /\ HandoffOwnsLease /\ HistoryInv /\ [Next]_vars => HistoryInv'
  BY HistoryStep
<1>3. HistoryInv => CanonicalHistoryIsFenced
  BY DEF HistoryInv
<1>4. QED
  BY <1>1, <1>2, <1>3, TypeCorrect, HandoffOwnsLeaseAlways, PTL DEF Spec

-----------------------------------------------------------------------------
(* The journal.  Each transaction that moves a handoff appends its phase.  *)

\* What a transaction may write of one handoff, and of no other.
Writes(h, phases, state) ==
    /\ journal' = [journal EXCEPT ![h] = @ \o phases]
    /\ handoffs'[h].state = state
    /\ \A k \in Handoffs \ {h} : handoffs'[k] = handoffs[k]

\* Appending one phase to a journal.
LEMMA AppendedLog ==
  ASSUME NEW log \in Seq(JournalPhase), NEW phase \in JournalPhase, NEW longer,
         longer = log \o <<phase>>
  PROVE  /\ longer \in Seq(JournalPhase)
         /\ Len(longer) = Len(log) + 1
         /\ DOMAIN longer = 1 .. Len(log) + 1
         /\ DOMAIN log = 1 .. Len(log) /\ Len(log) \in Nat
         /\ \A i \in DOMAIN log : longer[i] = log[i]
         /\ longer[Len(log) + 1] = phase
OBVIOUS

\* It records that phase and what was recorded before.
LEMMA AppendedRecorded ==
  ASSUME NEW log \in Seq(JournalPhase), NEW phase \in JournalPhase
  PROVE  Recorded(log \o <<phase>>) = Recorded(log) \cup ({phase} \ {"TargetApply"})
<1> DEFINE longer == log \o <<phase>>
<1> HIDE DEF longer
<1>1. /\ DOMAIN longer = 1 .. Len(log) + 1 /\ DOMAIN log = 1 .. Len(log) /\ Len(log) \in Nat
      /\ \A i \in DOMAIN log : longer[i] = log[i]
      /\ longer[Len(log) + 1] = phase
  BY AppendedLog DEF longer
<1>2. {longer[i] : i \in DOMAIN longer} = {log[i] : i \in DOMAIN log} \cup {phase}
  <2>1. DOMAIN longer = DOMAIN log \cup {Len(log) + 1}
    BY <1>1
  <2> QED BY <1>1, <2>1
<1> QED BY <1>2 DEF Recorded, longer

\* A phase that is new, that comes after the one it follows and that comes
\* after no end keeps the journal in order.
LEMMA AppendedInOrder ==
  ASSUME NEW log \in Seq(JournalPhase), NEW phase \in JournalPhase, InOrder(log),
         phase = "TargetApply" \/ phase \notin Recorded(log),
         phase \in DOMAIN Follows => Follows[phase] \in Recorded(log),
         "LeaseCommitted" \notin Recorded(log), "Aborted" \notin Recorded(log)
  PROVE  InOrder(log \o <<phase>>)
<1> DEFINE longer == log \o <<phase>>
<1> HIDE DEF longer
<1>1. /\ Len(longer) = Len(log) + 1 /\ DOMAIN longer = 1 .. Len(log) + 1
      /\ DOMAIN log = 1 .. Len(log) /\ Len(log) \in Nat
      /\ \A i \in DOMAIN log : longer[i] = log[i]
      /\ longer[Len(log) + 1] = phase
  BY AppendedLog DEF longer
<1>2. \A i \in DOMAIN log : log[i] = "TargetApply" \/ log[i] \in Recorded(log)
  BY DEF Recorded
<1>3. SUFFICES ASSUME NEW i \in DOMAIN longer
               PROVE  /\ \A j \in DOMAIN longer : longer[i] = longer[j] /\ longer[i] # "TargetApply" => i = j
                      /\ longer[i] \in DOMAIN Follows => \E j \in 1 .. i - 1 : longer[j] = Follows[longer[i]]
                      /\ longer[i] \in {"LeaseCommitted", "Aborted"} => i = Len(longer)
  BY DEF InOrder, longer
<1>4. \A j \in DOMAIN longer : longer[i] = longer[j] /\ longer[i] # "TargetApply" => i = j
  <2> SUFFICES ASSUME NEW j \in DOMAIN longer, longer[i] = longer[j], longer[i] # "TargetApply"
               PROVE  i = j
    OBVIOUS
  <2>1. CASE i \in DOMAIN log /\ j \in DOMAIN log
    BY <1>1, <2>1 DEF InOrder
  <2>2. CASE i \in DOMAIN log /\ j = Len(log) + 1
    BY <1>1, <1>2, <2>2
  <2>3. CASE i = Len(log) + 1 /\ j \in DOMAIN log
    BY <1>1, <1>2, <2>3
  <2> QED BY <1>1, <2>1, <2>2, <2>3
<1>5. longer[i] \in DOMAIN Follows => \E j \in 1 .. i - 1 : longer[j] = Follows[longer[i]]
  <2> SUFFICES ASSUME longer[i] \in DOMAIN Follows
               PROVE  \E j \in 1 .. i - 1 : longer[j] = Follows[longer[i]]
    OBVIOUS
  <2>1. CASE i \in DOMAIN log
    <3>1. longer[i] = log[i]
      BY <1>1, <2>1
    <3>2. PICK j \in 1 .. i - 1 : log[j] = Follows[log[i]]
      BY <2>1, <3>1 DEF InOrder
    <3> QED BY <1>1, <2>1, <3>1, <3>2
  <2>2. CASE i = Len(log) + 1
    <3>1. Follows[phase] \in Recorded(log)
      BY <1>1, <2>2
    <3>2. PICK j \in DOMAIN log : log[j] = Follows[phase]
      BY <3>1 DEF Recorded
    <3> QED BY <1>1, <2>2, <3>2
  <2> QED BY <1>1, <2>1, <2>2
<1>6. longer[i] \in {"LeaseCommitted", "Aborted"} => i = Len(longer)
  BY <1>1, <1>2
<1> QED BY <1>4, <1>5, <1>6

\* The three endings write what they are named for.
LEMMA EndingsWrite ==
  ASSUME TypeOK, NEW h \in Handoffs
  PROVE  /\ AbortWrites(h) => Writes(h, <<"Aborted">>, "Aborted")
         /\ CommitAcceptWrites(h) => Writes(h, <<"LeaseCommitted">>, "Committed")
         /\ CommitRejectWrites(h) => /\ journal' = journal /\ handoffs'[h].state = "Aborted"
                                     /\ \A k \in Handoffs \ {h} : handoffs'[k] = handoffs[k]
<1>1. handoffs \in [Handoffs -> Handoff \cup {NoHandoff}]
  BY DEF TypeOK
<1>2. ASSUME NEW state, handoffs' = [handoffs EXCEPT ![h].state = state]
      PROVE  /\ handoffs'[h].state = state
             /\ \A k \in Handoffs \ {h} : handoffs'[k] = handoffs[k]
  BY <1>1, <1>2 DEF Handoff, NoHandoff
<1>3. QED
  BY <1>2 DEF AbortWrites, CommitAcceptWrites, CommitRejectWrites, Writes, Record

\* Every step leaves the journal and the states alone, or moves one handoff.
LEMMA JournalShapes ==
  ASSUME TypeOK, [Next]_vars
  PROVE  \/ UNCHANGED <<handoffs, journal>>
         \/ \E h \in Handoffs :
              \/ handoffs[h].state = "Absent" /\ Writes(h, <<"Begin", "TargetPrepare">>, "TargetPrepare")
              \/ IsPending(h) /\ Writes(h, <<"TargetApply">>, handoffs[h].state)
              \/ handoffs[h].state = "TargetPrepare" /\ Writes(h, <<"TargetVerified">>, "TargetVerified")
              \/ handoffs[h].state = "TargetVerified" /\ Writes(h, <<"SourceReady">>, "SourceReady")
              \/ IsPending(h) /\ Writes(h, <<"Aborted">>, "Aborted")
              \/ handoffs[h].state = "SourceReady" /\ Writes(h, <<"LeaseCommitted">>, "Committed")
              \/ /\ handoffs[h].state = "SourceReady" /\ handoffs'[h].state = "Aborted"
                 /\ journal' = journal /\ \A k \in Handoffs \ {h} : handoffs'[k] = handoffs[k]
<1>t. handoffs \in [Handoffs -> Handoff \cup {NoHandoff}]
  BY DEF TypeOK
<1>1. ASSUME NEW h \in Handoffs, NEW l, NEW s, NEW t, NEW g, NEW ttl, BeginHandoff(h, l, s, t, g, ttl)
      PROVE  handoffs[h].state = "Absent" /\ Writes(h, <<"Begin", "TargetPrepare">>, "TargetPrepare")
  <2>1. /\ handoffs'[h].state = "TargetPrepare"
        /\ \A k \in Handoffs \ {h} : handoffs'[k] = handoffs[k]
    BY <1>t, <1>1 DEF BeginHandoff
  <2>2. QED
    BY <1>1, <2>1 DEF BeginHandoff, Writes, Record
<1>2. ASSUME NEW h \in Handoffs, RecordHandoffTargetApply(h)
      PROVE  IsPending(h) /\ Writes(h, <<"TargetApply">>, handoffs[h].state)
  BY <1>2 DEF RecordHandoffTargetApply, Writes, Record
<1>3. ASSUME NEW h \in Handoffs, NEW expected, NEW next, UpdateHandoffState(h, expected, next)
      PROVE  handoffs[h].state = expected /\ Writes(h, <<next>>, next)
  <2>1. handoffs'[h].state = next /\ \A k \in Handoffs \ {h} : handoffs'[k] = handoffs[k]
    BY <1>t, <1>3 DEF UpdateHandoffState, Handoff, NoHandoff
  <2>2. QED
    BY <1>3, <2>1 DEF UpdateHandoffState, Writes, Record
<1>4. ASSUME NEW h \in Handoffs, MarkHandoffTargetVerified(h) \/ MarkHandoffSourceReady(h)
      PROVE  \/ handoffs[h].state = "TargetPrepare" /\ Writes(h, <<"TargetVerified">>, "TargetVerified")
             \/ handoffs[h].state = "TargetVerified" /\ Writes(h, <<"SourceReady">>, "SourceReady")
  BY <1>3, <1>4 DEF MarkHandoffTargetVerified, MarkHandoffSourceReady
<1>5. ASSUME NEW h \in Handoffs, AbortHandoff(h)
      PROVE  IsPending(h) /\ Writes(h, <<"Aborted">>, "Aborted")
  BY <1>5, EndingsWrite DEF AbortHandoff
<1>6. ASSUME NEW h \in Handoffs, NEW g, NEW at, CommitRejected(h, g, at) \/ CommitAccepted(h, g, at)
      PROVE  /\ handoffs[h].state = "SourceReady"
             /\ \/ Writes(h, <<"LeaseCommitted">>, "Committed")
                \/ /\ handoffs'[h].state = "Aborted" /\ journal' = journal
                   /\ \A k \in Handoffs \ {h} : handoffs'[k] = handoffs[k]
  BY <1>6, EndingsWrite DEF CommitRejected, CommitAccepted
<1>7. ASSUME NEW r \in Recoveries, RecoverAbort(r)
      PROVE  \/ UNCHANGED <<handoffs, journal>>
             \/ \E h \in Handoffs : IsPending(h) /\ Writes(h, <<"Aborted">>, "Aborted")
  <2>1. recoveries[r].handoff \in Handoffs
    BY <1>7, PresentRecovery DEF RecoverAbort, Recovery
  <2>2. QED
    BY <1>7, <2>1, EndingsWrite DEF RecoverAbort
<1>8. ASSUME NEW r \in Recoveries, RecoverCommit(r)
      PROVE  \/ UNCHANGED <<handoffs, journal>>
             \/ \E h \in Handoffs : \E g, at : CommitRejected(h, g, at) \/ CommitAccepted(h, g, at)
  <2>1. recoveries[r].handoff \in Handoffs
    BY <1>8, PresentRecovery DEF RecoverCommit, Recovery
  <2>2. QED
    BY <1>8, <2>1 DEF RecoverCommit
<1>9. ASSUME \/ \E r \in Recoveries :
                  RecoverEnd(r) \/ \E h \in Handoffs, g \in Generations : RecoverRead(r, h, g)
             \/ \E s \in Snapshots, l \in Leases, d \in Devices :
                  \/ \E e, x : PublishSnapshotCanonical(s, l, d, e, x)
                  \/ PublishInactiveSnapshotAsFork(s, l, d)
             \/ \E d \in Devices : RevokeDevice(d)
             \/ Tick \/ UNCHANGED vars
      PROVE  UNCHANGED <<handoffs, journal>>
  BY <1>9 DEF RecoverEnd, RecoverRead, PublishSnapshotCanonical, PublishInactiveSnapshotAsFork,
              RevokeDevice, Tick, vars
<1>10. QED
  BY <1>1, <1>2, <1>4, <1>5, <1>6, <1>7, <1>8, <1>9 DEF Next, CommitHandoff

\* A step that writes one phase of a handoff keeps the journal in order if the
\* phase is the next one and the new state is told.
LEMMA WritesOne ==
  ASSUME TypeOK, JournalInOrder, NEW h \in Handoffs, NEW phase \in JournalPhase, NEW state,
         Writes(h, <<phase>>, state),
         phase = "TargetApply" \/ phase \notin Recorded(journal[h]),
         phase \in DOMAIN Follows => Follows[phase] \in Recorded(journal[h]),
         "LeaseCommitted" \notin Recorded(journal[h]), "Aborted" \notin Recorded(journal[h]),
         TellsState(journal[h] \o <<phase>>, state)
  PROVE  JournalInOrder'
<1>1. journal \in [Handoffs -> Seq(JournalPhase)]
  BY DEF TypeOK
<1>2. journal'[h] = journal[h] \o <<phase>> /\ \A k \in Handoffs \ {h} : journal'[k] = journal[k]
  BY <1>1 DEF Writes
<1>3. InOrder(journal[h] \o <<phase>>)
  BY <1>1, AppendedInOrder DEF JournalInOrder
<1>4. \A k \in Handoffs : InOrder(journal'[k]) /\ TellsState(journal'[k], handoffs'[k].state)
  BY <1>2, <1>3 DEF Writes, JournalInOrder
<1>5. QED
  BY <1>4 DEF JournalInOrder, InOrder, TellsState, Recorded

\* A handoff begins with an empty journal and two phases.
LEMMA BeginWrites ==
  ASSUME TypeOK, JournalInOrder, NEW h \in Handoffs, handoffs[h].state = "Absent",
         Writes(h, <<"Begin", "TargetPrepare">>, "TargetPrepare")
  PROVE  JournalInOrder'
<1> DEFINE log == <<"Begin", "TargetPrepare">>
<1>1. journal \in [Handoffs -> Seq(JournalPhase)]
  BY DEF TypeOK
<1>2. journal[h] = <<>>
  BY DEF JournalInOrder, TellsState
<1>3. journal'[h] = log /\ \A k \in Handoffs \ {h} : journal'[k] = journal[k]
  BY <1>1, <1>2 DEF Writes
<1>4. DOMAIN log = {1, 2} /\ log[1] = "Begin" /\ log[2] = "TargetPrepare" /\ Len(log) = 2
  OBVIOUS
<1>5. InOrder(log)
  <2>1. \A i, j \in DOMAIN log : log[i] = log[j] => i = j
    BY <1>4
  <2>2. \A i \in DOMAIN log : log[i] \in DOMAIN Follows => \E j \in 1 .. i - 1 : log[j] = Follows[log[i]]
    <3>1. SUFFICES \E j \in 1 .. 2 - 1 : log[j] = Follows["TargetPrepare"]
      BY <1>4 DEF Follows
    <3>2. 1 \in 1 .. 2 - 1 /\ log[1] = Follows["TargetPrepare"]
      BY DEF Follows
    <3>3. QED
      BY <3>2
  <2>3. \A i \in DOMAIN log : log[i] \notin {"LeaseCommitted", "Aborted"}
    BY <1>4
  <2>4. QED
    BY <2>1, <2>2, <2>3 DEF InOrder
<1>6. Recorded(log) = {"Begin", "TargetPrepare"}
  <2>1. {log[i] : i \in DOMAIN log} = {"Begin", "TargetPrepare"}
    BY <1>4
  <2>2. QED
    BY <2>1 DEF Recorded
<1>7. TellsState(log, "TargetPrepare")
  BY <1>6 DEF TellsState, PhasesOf
<1>8. \A k \in Handoffs : InOrder(journal'[k]) /\ TellsState(journal'[k], handoffs'[k].state)
  BY <1>3, <1>5, <1>7 DEF Writes, JournalInOrder
<1>9. QED
  BY <1>8 DEF JournalInOrder, InOrder, TellsState, Recorded

\* Before a handoff has ended, its journal has no end.
LEMMA PendingLog ==
  ASSUME JournalInOrder, NEW h \in Handoffs, IsPending(h)
  PROVE  /\ handoffs[h].state \in DOMAIN PhasesOf
         /\ Recorded(journal[h]) = PhasesOf[handoffs[h].state]
         /\ "LeaseCommitted" \notin Recorded(journal[h]) /\ "Aborted" \notin Recorded(journal[h])
         /\ {"Begin", "TargetPrepare"} \subseteq Recorded(journal[h])
BY DEF JournalInOrder, TellsState, PhasesOf, IsPending, PendingStates

\* Every step keeps the journal in order.
LEMMA JournalStep ==
  ASSUME TypeOK, JournalInOrder, [Next]_vars
  PROVE  JournalInOrder'
<1>t. journal \in [Handoffs -> Seq(JournalPhase)]
  BY DEF TypeOK
<1>p. \A phase \in JournalPhase, h \in Handoffs :
        Recorded(journal[h] \o <<phase>>) = Recorded(journal[h]) \cup ({phase} \ {"TargetApply"})
  <2>1. SUFFICES ASSUME NEW phase \in JournalPhase, NEW h \in Handoffs
                 PROVE  Recorded(journal[h] \o <<phase>>)
                          = Recorded(journal[h]) \cup ({phase} \ {"TargetApply"})
    OBVIOUS
  <2>2. journal[h] \in Seq(JournalPhase)
    BY <1>t
  <2>3. QED
    BY <2>2, AppendedRecorded
<1>1. CASE UNCHANGED <<handoffs, journal>>
  <2>1. \A k \in Handoffs : InOrder(journal'[k]) /\ TellsState(journal'[k], handoffs'[k].state)
    BY <1>1 DEF JournalInOrder
  <2>2. QED
    BY <2>1 DEF JournalInOrder, InOrder, TellsState, Recorded
<1>2. ASSUME NEW h \in Handoffs, handoffs[h].state = "Absent",
             Writes(h, <<"Begin", "TargetPrepare">>, "TargetPrepare")
      PROVE  JournalInOrder'
  BY <1>2, BeginWrites
<1>3. ASSUME NEW h \in Handoffs, IsPending(h), Writes(h, <<"TargetApply">>, handoffs[h].state)
      PROVE  JournalInOrder'
  <2>1. "TargetApply" \in JournalPhase /\ "TargetApply" \notin DOMAIN Follows
    BY DEF JournalPhase, Follows
  <2>2. Recorded(journal[h] \o <<"TargetApply">>) = Recorded(journal[h])
    BY <1>p, <2>1
  <2>3. TellsState(journal[h] \o <<"TargetApply">>, handoffs[h].state)
    BY <1>3, <2>2, PendingLog DEF TellsState, IsPending, PendingStates
  <2>4. QED
    BY <1>3, <2>1, <2>3, PendingLog, WritesOne
<1>4. ASSUME NEW h \in Handoffs, IsPending(h), NEW phase, NEW state, Writes(h, <<phase>>, state),
             \/ handoffs[h].state = "TargetPrepare" /\ phase = "TargetVerified" /\ state = phase
             \/ handoffs[h].state = "TargetVerified" /\ phase = "SourceReady" /\ state = phase
             \/ handoffs[h].state = "SourceReady" /\ phase = "LeaseCommitted" /\ state = "Committed"
      PROVE  JournalInOrder'
  <2>1. phase \in JournalPhase
    BY <1>4 DEF JournalPhase
  <2>2. phase \notin Recorded(journal[h]) /\ Follows[phase] \in Recorded(journal[h])
    BY <1>4, PendingLog DEF Follows, PhasesOf
  <2>3. Recorded(journal[h] \o <<phase>>) = Recorded(journal[h]) \cup {phase}
    BY <1>4, <1>p, <2>1
  <2>4. Recorded(journal[h] \o <<phase>>) = PhasesOf[state]
    <3>1. Recorded(journal[h] \o <<phase>>) = PhasesOf[handoffs[h].state] \cup {phase}
      BY <1>4, <2>3, PendingLog
    <3>2. CASE phase = "TargetVerified"
      BY <1>4, <3>1, <3>2 DEF PhasesOf
    <3>3. CASE phase = "SourceReady"
      BY <1>4, <3>1, <3>3 DEF PhasesOf
    <3>4. CASE phase = "LeaseCommitted"
      BY <1>4, <3>1, <3>4 DEF PhasesOf
    <3>5. QED
      BY <1>4, <3>2, <3>3, <3>4
  <2>5. TellsState(journal[h] \o <<phase>>, state)
    BY <1>4, <2>4 DEF TellsState
  <2>6. QED
    BY <1>4, <2>1, <2>2, <2>5, PendingLog, WritesOne
<1>5. ASSUME NEW h \in Handoffs, IsPending(h), Writes(h, <<"Aborted">>, "Aborted")
      PROVE  JournalInOrder'
  <2>1. "Aborted" \in JournalPhase /\ "Aborted" \notin DOMAIN Follows
    BY DEF JournalPhase, Follows
  <2>2. Recorded(journal[h] \o <<"Aborted">>) = Recorded(journal[h]) \cup {"Aborted"}
    BY <1>p, <2>1
  <2>3. TellsState(journal[h] \o <<"Aborted">>, "Aborted")
    BY <1>5, <2>2, PendingLog DEF TellsState, PhasesOf
  <2>4. QED
    BY <1>5, <2>1, <2>3, PendingLog, WritesOne
<1>6. ASSUME NEW h \in Handoffs, handoffs[h].state = "SourceReady", handoffs'[h].state = "Aborted",
             journal' = journal, \A k \in Handoffs \ {h} : handoffs'[k] = handoffs[k]
      PROVE  JournalInOrder'
  <2>1. TellsState(journal[h], "Aborted")
    BY <1>6, PendingLog DEF TellsState, PhasesOf, IsPending, PendingStates
  <2>2. \A k \in Handoffs : InOrder(journal'[k]) /\ TellsState(journal'[k], handoffs'[k].state)
    BY <1>6, <2>1 DEF JournalInOrder
  <2>3. QED
    BY <2>2 DEF JournalInOrder, InOrder, TellsState, Recorded
<1>7. \A h \in Handoffs : handoffs[h].state \in {"TargetPrepare", "TargetVerified", "SourceReady"} => IsPending(h)
  BY DEF IsPending, PendingStates
<1>8. QED
  BY <1>1, <1>2, <1>3, <1>4, <1>5, <1>6, <1>7, JournalShapes

\* handoff_journal tells of every handoff how far it went and how it ended,
\* whichever transactions of handoffs and recoveries interleave.
THEOREM JournalInOrderAlways == Spec => []JournalInOrder
<1>1. Init => JournalInOrder
  BY DEF Init, JournalInOrder, InOrder, TellsState, NoHandoff, PhasesOf, Recorded
<1>2. TypeOK /\ JournalInOrder /\ [Next]_vars => JournalInOrder'
  BY JournalStep
<1>3. QED
  BY <1>1, <1>2, TypeCorrect, PTL DEF Spec

\* Both the journal and the recoveries tell what happened to a handoff.
THEOREM HandoffsAreToldAlways == Spec => []HandoffsAreTold
<1>1. JournalInOrder /\ RecoveryTellsTheTruth => HandoffsAreTold
  BY DEF HandoffsAreTold
<1>2. QED
  BY <1>1, JournalInOrderAlways, RecoveryTellsTheTruthAlways, PTL
=============================================================================
