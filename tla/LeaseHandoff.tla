---------------------------- MODULE LeaseHandoff ----------------------------
(***************************************************************************)
(* The writer lease of a project and the handoff protocol that moves it    *)
(* from one device to another: the leases, handoffs, handoff_journal,      *)
(* snapshots, device_revocations and audit_events tables of MetadataDb     *)
(* (crates/devrelay-core/src/storage.rs).                                  *)
(*                                                                         *)
(* Every MetadataDb method runs in one SQLite transaction, so an action    *)
(* below is one method call that returns after its COMMIT; a call whose    *)
(* checks fail rolls back and changes nothing.  recover_handoff is the     *)
(* exception: it reads in one transaction and acts in another, and other   *)
(* calls, or a crash of the caller, may come between the two.              *)
(***************************************************************************)
EXTENDS Naturals, Sequences, FiniteSets

CONSTANTS
    Devices,      \* device ids
    Leases,       \* lease ids (all of one project)
    Handoffs,     \* the handoff ids generate_handoff_id may return
    Snapshots,    \* snapshot ids
    Generations,  \* source generations (opaque strings compared for equality)
    Recoveries,   \* callers of recover_handoff
    None,         \* SQL NULL / Option::None
    Ttls,         \* ttl_seconds arguments of begin_handoff
    MaxTime,      \* bound on the clock
    MaxApplies,   \* bound on target-apply records per handoff
    InitEpoch     \* epoch of a freshly created lease

ASSUME NoneAssumption == None \notin Handoffs \cup Snapshots
ASSUME TtlAssumption == Ttls \subseteq Nat
ASSUME FiniteAssumption == IsFiniteSet(Snapshots) /\ IsFiniteSet(Handoffs)
ASSUME BoundAssumption == MaxTime \in Nat /\ MaxApplies \in Nat /\ InitEpoch \in Nat

VARIABLES
    leases,       \* leases table
    handoffs,     \* handoffs table
    journal,      \* handoff_journal table: the phases recorded per handoff
    snapshots,    \* snapshots table
    revoked,      \* devices with a device_revocations row
    transfers,    \* the LeaseTransferred rows of audit_events
    recoveries,   \* recover_handoff calls in flight or returned
    now           \* unix_now_seconds()

vars == <<leases, handoffs, journal, snapshots, revoked, transfers, recoveries, now>>

-----------------------------------------------------------------------------
(* Rows                                                                    *)

\* "Committing" and "Archived" are legal values that no MetadataDb operation
\* on leases writes; they are left out of the reachable states.
LeaseState == {"Active", "HandoffPending", "Inactive", "Forked"}

Lease == [state: LeaseState, epoch: Nat, holder: Devices,
          latest: Snapshots \cup {None}, handoff: Handoffs \cup {None}]

PendingStates == {"TargetPrepare", "TargetVerified", "SourceReady"}
TerminalStates == {"Committed", "Aborted"}

Handoff == [state: PendingStates \cup TerminalStates,
            lease: Leases, expectedEpoch: Nat, source: Devices, target: Devices,
            generation: Generations, expires: Nat]

JournalPhase == {"Begin", "TargetPrepare", "TargetApply", "TargetVerified",
                 "SourceReady", "LeaseCommitted", "Aborted"}

\* What the audit row of the publish says: "canonical" advanced latest
\* (AuditOutcome::Succeeded), "stale" and "fork" are stored beside it (Blocked).
Snapshot == [kind: {"canonical", "stale", "fork"}, lease: Leases,
             device: Devices, epoch: Nat, seq: Nat]

Transfer == [lease: Leases, handoff: Handoffs, from: Devices, to: Devices,
             previous: Nat, next: Nat]

\* A table maps an id without a row to the matching one of these.
NoHandoff == [state |-> "Absent"]
NoSnapshot == [kind |-> "Absent"]
NoRecovery == [phase |-> "idle"]

RecoveryOutcome == {"none", "WaitingForTarget", "Committed", "AbortedExpired",
                    "AlreadyCommitted", "AlreadyAborted", "Err"}
Recovery == [phase: {"abort", "commit", "returned"}, handoff: Handoffs, observed: Generations,
             at: Nat, outcome: RecoveryOutcome]

IsTerminal(h) == handoffs[h].state \in TerminalStates
IsPending(h) == handoffs[h].state \in PendingStates
Stored(s) == snapshots[s].kind # "Absent"

\* ensure_device_not_revoked_conn
NotRevoked(d) == d \notin revoked

\* insert_handoff_journal
Record(h, phases) == journal' = [journal EXCEPT ![h] = @ \o phases]

\* SELECT COALESCE(MAX(sequence_number), 0) + 1: no action here deletes a row.
NextSequence == Cardinality({s \in Snapshots : Stored(s)}) + 1

-----------------------------------------------------------------------------
(* handoff.begin                                                           *)

\* Mutant: the holder is not compared with the source.
BeginHandoffAnySource(h, l, source, target, g, ttl) ==
    /\ handoffs[h].state = "Absent"
    /\ ~ \E other \in Handoffs : IsPending(other) /\ handoffs[other].lease = l
    /\ leases[l].state = "Active"
    /\ NotRevoked(source) /\ NotRevoked(target)
    /\ handoffs' = [handoffs EXCEPT ![h] =
                      [state |-> "TargetPrepare", lease |-> l,
                       expectedEpoch |-> leases[l].epoch,
                       source |-> source, target |-> target, generation |-> g,
                       expires |-> now + (IF ttl = 0 THEN 1 ELSE ttl)]]
    /\ Record(h, <<"Begin", "TargetPrepare">>)
    /\ leases' = [leases EXCEPT ![l].state = "HandoffPending", ![l].handoff = h]
    /\ UNCHANGED <<snapshots, revoked, transfers, recoveries, now>>

\* Mutant: the lease is linked to the handoff but stays active.
BeginHandoffStaysActive(h, l, source, target, g, ttl) ==
    /\ handoffs[h].state = "Absent"
    /\ ~ \E other \in Handoffs : IsPending(other) /\ handoffs[other].lease = l
    /\ leases[l].state = "Active"
    /\ leases[l].holder = source
    /\ NotRevoked(source) /\ NotRevoked(target)
    /\ handoffs' = [handoffs EXCEPT ![h] =
                      [state |-> "TargetPrepare", lease |-> l,
                       expectedEpoch |-> leases[l].epoch,
                       source |-> source, target |-> target, generation |-> g,
                       expires |-> now + (IF ttl = 0 THEN 1 ELSE ttl)]]
    /\ Record(h, <<"Begin", "TargetPrepare">>)
    /\ leases' = [leases EXCEPT ![l].handoff = h]
    /\ UNCHANGED <<snapshots, revoked, transfers, recoveries, now>>

BeginHandoff(h, l, source, target, g, ttl) ==
    /\ handoffs[h].state = "Absent"
    /\ ~ \E other \in Handoffs : IsPending(other) /\ handoffs[other].lease = l
    /\ leases[l].state = "Active"
    /\ leases[l].holder = source
    /\ NotRevoked(source)
    /\ NotRevoked(target)
    /\ handoffs' = [handoffs EXCEPT ![h] =
                      [state |-> "TargetPrepare", lease |-> l,
                       expectedEpoch |-> leases[l].epoch,
                       source |-> source, target |-> target, generation |-> g,
                       expires |-> now + (IF ttl = 0 THEN 1 ELSE ttl)]]
    /\ Record(h, <<"Begin", "TargetPrepare">>)
    /\ leases' = [leases EXCEPT ![l].state = "HandoffPending", ![l].handoff = h]
    /\ UNCHANGED <<snapshots, revoked, transfers, recoveries, now>>

RecordHandoffTargetApply(h) ==
    /\ IsPending(h)
    /\ Cardinality({i \in DOMAIN journal[h] : journal[h][i] = "TargetApply"}) < MaxApplies
    /\ Record(h, <<"TargetApply">>)
    /\ UNCHANGED <<leases, handoffs, snapshots, revoked, transfers, recoveries, now>>

UpdateHandoffState(h, expected, next) ==
    /\ handoffs[h].state = expected
    /\ handoffs' = [handoffs EXCEPT ![h].state = next]
    /\ Record(h, <<next>>)
    /\ UNCHANGED <<leases, snapshots, revoked, transfers, recoveries, now>>

MarkHandoffTargetVerified(h) == UpdateHandoffState(h, "TargetPrepare", "TargetVerified")

\* Mutant: source-ready is accepted before the target verified.
SourceReadyUnverified(h) == UpdateHandoffState(h, "TargetPrepare", "SourceReady")

MarkHandoffSourceReady(h) == UpdateHandoffState(h, "TargetVerified", "SourceReady")

-----------------------------------------------------------------------------
(* Ending a handoff.  ReleaseLease and the two endings below are what the  *)
(* abort and commit transactions write; the callers frame the rest.        *)

\* UPDATE leases SET state = active, handoff_id = NULL
\* WHERE lease_id = handoff.lease_id AND handoff_id = handoff
ReleaseLease(h) ==
    leases' = [l \in Leases |->
                 IF l = handoffs[h].lease /\ leases[l].handoff = h
                 THEN [leases[l] EXCEPT !.state = "Active", !.handoff = None]
                 ELSE leases[l]]

\* abort_handoff_at, the branch that writes.
AbortWrites(h) ==
    /\ handoffs' = [handoffs EXCEPT ![h].state = "Aborted"]
    /\ ReleaseLease(h)
    /\ Record(h, <<"Aborted">>)

\* Mutant: a finished handoff can be aborted again.
AbortAnyHandoff(h) ==
    /\ handoffs[h].state # "Absent"
    /\ AbortWrites(h)
    /\ UNCHANGED <<snapshots, revoked, transfers, recoveries, now>>

AbortHandoff(h) ==
    /\ IsPending(h)
    /\ AbortWrites(h)
    /\ UNCHANGED <<snapshots, revoked, transfers, recoveries, now>>

\* commit_handoff_inner's reason to abort instead of committing.
CommitMustAbort(h, observed, at) ==
    \/ at > handoffs[h].expires
    \/ observed # handoffs[h].generation

\* Mutant: the rejected commit does not free the lease.
CommitRejectLeavesLease(h) ==
    /\ handoffs' = [handoffs EXCEPT ![h].state = "Aborted"]
    /\ UNCHANGED <<leases, journal, transfers>>

\* The rejected commit aborts the handoff and frees the lease, then reports
\* an error to its caller.  It adds nothing to the journal.
CommitRejectWrites(h) ==
    /\ handoffs' = [handoffs EXCEPT ![h].state = "Aborted"]
    /\ ReleaseLease(h)
    /\ UNCHANGED <<journal, transfers>>

\* Mutant: the epoch is not incremented.
CommitKeepsEpoch(h) ==
    LET l == handoffs[h].lease IN
    /\ leases[l].epoch = handoffs[h].expectedEpoch
    /\ leases[l].handoff = h
    /\ leases' = [leases EXCEPT ![l] = [@ EXCEPT !.state = "Active", !.handoff = None,
                                                 !.holder = handoffs[h].target]]
    /\ handoffs' = [handoffs EXCEPT ![h].state = "Committed"]
    /\ Record(h, <<"LeaseCommitted">>)
    /\ UNCHANGED transfers

\* The guarded UPDATE that moves the lease, and the rest of its transaction.
CommitAcceptWrites(h) ==
    LET l == handoffs[h].lease IN
    /\ leases[l].epoch = handoffs[h].expectedEpoch
    /\ leases[l].handoff = h
    /\ leases' = [leases EXCEPT ![l] =
                    [state |-> "Active", epoch |-> handoffs[h].expectedEpoch + 1,
                     holder |-> handoffs[h].target, latest |-> leases[l].latest,
                     handoff |-> None]]
    /\ handoffs' = [handoffs EXCEPT ![h].state = "Committed"]
    /\ Record(h, <<"LeaseCommitted">>)
    /\ transfers' = transfers \cup
         {[lease |-> l, handoff |-> h, from |-> handoffs[h].source,
           to |-> handoffs[h].target, previous |-> handoffs[h].expectedEpoch,
           next |-> handoffs[h].expectedEpoch + 1]}

CommitRejected(h, observed, at) ==
    /\ handoffs[h].state = "SourceReady"
    /\ CommitMustAbort(h, observed, at)
    /\ CommitRejectWrites(h)

\* Mutant: the target's revocation is not checked again at commit.
CommitUnchecked(h, observed, at) ==
    /\ handoffs[h].state = "SourceReady"
    /\ ~ CommitMustAbort(h, observed, at)
    /\ CommitAcceptWrites(h)

CommitAccepted(h, observed, at) ==
    /\ handoffs[h].state = "SourceReady"
    /\ ~ CommitMustAbort(h, observed, at)
    /\ NotRevoked(handoffs[h].target)
    /\ CommitAcceptWrites(h)

CommitHandoff(h, observed) ==
    /\ CommitRejected(h, observed, now) \/ CommitAccepted(h, observed, now)
    /\ UNCHANGED <<snapshots, revoked, recoveries, now>>

-----------------------------------------------------------------------------
(* recover_handoff: the read, then the transaction it chose.               *)

RecoveryChoice(h, at) ==
    CASE handoffs[h].state = "Committed" -> [phase |-> "returned", outcome |-> "AlreadyCommitted"]
      [] handoffs[h].state = "Aborted" -> [phase |-> "returned", outcome |-> "AlreadyAborted"]
      [] IsPending(h) /\ at > handoffs[h].expires -> [phase |-> "abort", outcome |-> "none"]
      [] IsPending(h) /\ at <= handoffs[h].expires /\ handoffs[h].state = "SourceReady" ->
           [phase |-> "commit", outcome |-> "none"]
      [] OTHER -> [phase |-> "returned", outcome |-> "WaitingForTarget"]

RecoverRead(r, h, observed) ==
    /\ recoveries[r].phase = "idle"
    /\ handoffs[h].state # "Absent"
    /\ recoveries' = [recoveries EXCEPT ![r] =
                        [phase |-> RecoveryChoice(h, now).phase, handoff |-> h,
                         observed |-> observed, at |-> now,
                         outcome |-> RecoveryChoice(h, now).outcome]]
    /\ UNCHANGED <<leases, handoffs, journal, snapshots, revoked, transfers, now>>

Return(r, outcome) ==
    recoveries' = [recoveries EXCEPT ![r].phase = "returned", ![r].outcome = outcome]

\* Mutant: recovery reports an abort it did not perform.
RecoverAbortBlind(r) ==
    LET h == recoveries[r].handoff IN
    /\ recoveries[r].phase = "abort"
    /\ IF IsPending(h) THEN AbortWrites(h) ELSE UNCHANGED <<leases, handoffs, journal>>
    /\ Return(r, "AbortedExpired")
    /\ UNCHANGED <<transfers, snapshots, revoked, now>>

\* abort_handoff_at(.., "expired during recovery"): an error once committed,
\* nothing to do once aborted.
RecoverAbort(r) ==
    LET h == recoveries[r].handoff IN
    /\ recoveries[r].phase = "abort"
    /\ \/ IsPending(h) /\ AbortWrites(h) /\ UNCHANGED transfers /\ Return(r, "AbortedExpired")
       \/ /\ handoffs[h].state = "Aborted"
          /\ Return(r, "AbortedExpired")
          /\ UNCHANGED <<leases, handoffs, journal, transfers>>
       \/ /\ handoffs[h].state = "Committed"
          /\ Return(r, "Err")
          /\ UNCHANGED <<leases, handoffs, journal, transfers>>
    /\ UNCHANGED <<snapshots, revoked, now>>

\* commit_handoff with the clock and the generation the caller passed in.
RecoverCommit(r) ==
    LET h == recoveries[r].handoff
        observed == recoveries[r].observed
        at == recoveries[r].at IN
    /\ recoveries[r].phase = "commit"
    /\ \/ CommitAccepted(h, observed, at) /\ Return(r, "Committed")
       \/ CommitRejected(h, observed, at) /\ Return(r, "Err")
       \/ /\ \/ handoffs[h].state # "SourceReady"
             \/ ~ CommitMustAbort(h, observed, at) /\ ~ NotRevoked(handoffs[h].target)
          /\ Return(r, "Err")
          /\ UNCHANGED <<leases, handoffs, journal, transfers>>
    /\ UNCHANGED <<snapshots, revoked, now>>

\* The caller goes away (crash, closed connection) or is done with the answer.
RecoverEnd(r) ==
    /\ recoveries[r].phase # "idle"
    /\ recoveries' = [recoveries EXCEPT ![r] = NoRecovery]
    /\ UNCHANGED <<leases, handoffs, journal, snapshots, revoked, transfers, now>>

-----------------------------------------------------------------------------
(* Publishing snapshots                                                    *)

InsertSnapshot(s, l, d, kind) ==
    snapshots' = [snapshots EXCEPT ![s] =
                    [kind |-> kind, lease |-> l, device |-> d,
                     epoch |-> leases[l].epoch, seq |-> NextSequence]]

\* Mutants of publish: no holder check; latest moved by a stale publish; no
\* lease state check.
PublishByAnyone(s, l, d, expectedEpoch, expectedLatest) ==
    /\ ~ Stored(s) /\ NotRevoked(d) /\ leases[l].state = "Active"
    /\ expectedEpoch = leases[l].epoch /\ expectedLatest = leases[l].latest
    /\ InsertSnapshot(s, l, d, "canonical")
    /\ leases' = [leases EXCEPT ![l].latest = s]
    /\ UNCHANGED <<handoffs, journal, revoked, transfers, recoveries, now>>

PublishStaleAdvances(s, l, d, expectedEpoch, expectedLatest) ==
    /\ ~ Stored(s) /\ leases[l].holder = d /\ NotRevoked(d) /\ leases[l].state = "Active"
    /\ InsertSnapshot(s, l, d,
         IF expectedEpoch = leases[l].epoch /\ expectedLatest = leases[l].latest
         THEN "canonical" ELSE "stale")
    /\ leases' = [leases EXCEPT ![l].latest = s]
    /\ UNCHANGED <<handoffs, journal, revoked, transfers, recoveries, now>>

PublishWhilePending(s, l, d, expectedEpoch, expectedLatest) ==
    /\ ~ Stored(s) /\ leases[l].holder = d /\ NotRevoked(d)
    /\ expectedEpoch = leases[l].epoch /\ expectedLatest = leases[l].latest
    /\ InsertSnapshot(s, l, d, "canonical")
    /\ leases' = [leases EXCEPT ![l].latest = s]
    /\ UNCHANGED <<handoffs, journal, revoked, transfers, recoveries, now>>

\* The row is stored whatever the caller believed; latest only moves when the
\* caller's expected epoch and expected latest are the lease's own.
PublishSnapshotCanonical(s, l, d, expectedEpoch, expectedLatest) ==
    /\ ~ Stored(s)
    /\ leases[l].holder = d
    /\ NotRevoked(d)
    /\ leases[l].state = "Active"
    /\ IF expectedEpoch = leases[l].epoch /\ expectedLatest = leases[l].latest
       THEN /\ InsertSnapshot(s, l, d, "canonical")
            /\ leases' = [leases EXCEPT ![l].latest = s]
       ELSE /\ InsertSnapshot(s, l, d, "stale")
            /\ UNCHANGED leases
    /\ UNCHANGED <<handoffs, journal, revoked, transfers, recoveries, now>>

PublishInactiveSnapshotAsFork(s, l, d) ==
    /\ ~ Stored(s)
    /\ leases[l].holder = d
    /\ NotRevoked(d)
    /\ leases[l].state = "Inactive"
    /\ InsertSnapshot(s, l, d, "fork")
    /\ leases' = [leases EXCEPT ![l].state = "Forked"]
    /\ UNCHANGED <<handoffs, journal, revoked, transfers, recoveries, now>>

RevokeDevice(d) ==
    /\ revoked' = revoked \cup {d}
    /\ UNCHANGED <<leases, handoffs, journal, snapshots, transfers, recoveries, now>>

Tick ==
    /\ now < MaxTime
    /\ now' = now + 1
    /\ UNCHANGED <<leases, handoffs, journal, snapshots, revoked, transfers, recoveries>>

-----------------------------------------------------------------------------
Init ==
    /\ leases \in [Leases -> [state: {"Active", "Inactive"}, epoch: {InitEpoch},
                              holder: Devices, latest: {None}, handoff: {None}]]
    /\ handoffs = [h \in Handoffs |-> NoHandoff]
    /\ snapshots = [s \in Snapshots |-> NoSnapshot]
    /\ recoveries = [r \in Recoveries |-> NoRecovery]
    /\ journal = [h \in Handoffs |-> <<>>]
    /\ revoked = {}
    /\ transfers = {}
    /\ now = 0

Next ==
    \/ \E h \in Handoffs :
         \/ \E l \in Leases, s, t \in Devices, g \in Generations, ttl \in Ttls :
              BeginHandoff(h, l, s, t, g, ttl)
         \/ RecordHandoffTargetApply(h)
         \/ MarkHandoffTargetVerified(h)
         \/ MarkHandoffSourceReady(h)
         \/ AbortHandoff(h)
         \/ \E g \in Generations : CommitHandoff(h, g)
    \/ \E r \in Recoveries :
         \/ \E h \in Handoffs, g \in Generations : RecoverRead(r, h, g)
         \/ RecoverAbort(r)
         \/ RecoverCommit(r)
         \/ RecoverEnd(r)
    \/ \E s \in Snapshots, l \in Leases, d \in Devices :
         \/ \E e \in InitEpoch .. InitEpoch + Cardinality(Handoffs), x \in Snapshots \cup {None} :
              PublishSnapshotCanonical(s, l, d, e, x)
         \/ PublishInactiveSnapshotAsFork(s, l, d)
    \/ \E d \in Devices : RevokeDevice(d)
    \/ Tick

Spec == Init /\ [][Next]_vars
-----------------------------------------------------------------------------
(* Properties                                                              *)

(* Every row of the tables is well typed, whatever calls have been made.   *)
TypeOK ==
    /\ leases \in [Leases -> Lease]
    /\ handoffs \in [Handoffs -> Handoff \cup {NoHandoff}]
    /\ journal \in [Handoffs -> Seq(JournalPhase)]
    /\ snapshots \in [Snapshots -> Snapshot \cup {NoSnapshot}]
    /\ revoked \subseteq Devices
    /\ transfers \subseteq Transfer
    /\ recoveries \in [Recoveries -> Recovery \cup {NoRecovery}]
    /\ now \in Nat

(* The lease and the handoff that has reserved it name each other.  A      *)
(* handoff that is not finished owns its lease: the lease is pending on it *)
(* and on nothing else, at the epoch and with the holder the handoff saw;  *)
(* a pending lease has such a handoff.  So two handoffs never compete for  *)
(* one lease, the "lost lease state race" branch of commit_handoff_inner   *)
(* is never taken, and no lease is left pending on a finished handoff.     *)
HandoffOwnsLease ==
    /\ \A h \in Handoffs : IsPending(h) =>
         LET l == handoffs[h].lease IN
         /\ leases[l].state = "HandoffPending"
         /\ leases[l].handoff = h
         /\ leases[l].epoch = handoffs[h].expectedEpoch
         /\ leases[l].holder = handoffs[h].source
    /\ \A l \in Leases : leases[l].state = "HandoffPending" =>
         \E h \in Handoffs : IsPending(h) /\ handoffs[h].lease = l

(* The audit log tells the whole story of a lease: its LeaseTransferred    *)
(* rows cover every epoch from the first to the current one, once each,    *)
(* each starting from the device the one before ended with, and the last   *)
(* one names the device that holds the lease now.                          *)
TransfersExplainHolder ==
    \A l \in Leases :
      LET log == {t \in transfers : t.lease = l} IN
      /\ {t.next : t \in log} = (InitEpoch + 1) .. leases[l].epoch
      /\ \A t, u \in log : t.next = u.next => t = u
      /\ \A t, u \in log : t.next = u.previous => t.to = u.from
      /\ \A t \in log : t.next = leases[l].epoch => t.to = leases[l].holder

(* Every canonical snapshot was published by the device that held the      *)
(* lease at the epoch it was published in, as the transfer log tells it:   *)
(* nobody published on somebody else's turn.                               *)
CanonicalByEpochHolder ==
    \A s \in Snapshots : snapshots[s].kind = "canonical" =>
      LET l == snapshots[s].lease
          e == snapshots[s].epoch IN
      /\ e \in InitEpoch .. leases[l].epoch
      /\ \A t \in transfers : t.lease = l =>
           /\ t.next = e => t.to = snapshots[s].device
           /\ t.previous = e => t.from = snapshots[s].device
      /\ e = leases[l].epoch => snapshots[s].device = leases[l].holder

(* latest is the newest canonical snapshot of its lease, and canonical     *)
(* history never goes back to an earlier epoch: a stale or forked snapshot *)
(* stored later, or a publish by a former holder, never becomes latest.    *)
LatestIsNewestCanonical ==
    \A l \in Leases :
      LET canonical == {s \in Snapshots : snapshots[s].kind = "canonical" /\ snapshots[s].lease = l} IN
      /\ leases[l].latest = None <=> canonical = {}
      /\ leases[l].latest # None =>
           /\ leases[l].latest \in canonical
           /\ \A s \in canonical : snapshots[s].seq <= snapshots[leases[l].latest].seq
      /\ \A s, t \in canonical : snapshots[s].seq < snapshots[t].seq =>
           snapshots[s].epoch <= snapshots[t].epoch

(* The audit log, the snapshots and the lease tell one history: each epoch *)
(* has one writer, who alone published in it, and what was published last  *)
(* is the latest.                                                           *)
CanonicalHistoryIsFenced ==
    TransfersExplainHolder /\ CanonicalByEpochHolder /\ LatestIsNewestCanonical

(* The phases of one handoff are journalled in protocol order: but for the *)
(* target-apply notes each is there once, after the one it follows, the    *)
(* state tells which are there, and nothing comes after a recorded end.    *)
(* Only a commit that was rejected aborts without recording it.            *)
Follows == [TargetPrepare |-> "Begin", TargetVerified |-> "TargetPrepare",
            SourceReady |-> "TargetVerified", LeaseCommitted |-> "SourceReady"]
PhasesOf == [Absent |-> {}, TargetPrepare |-> {"Begin", "TargetPrepare"},
             TargetVerified |-> {"Begin", "TargetPrepare", "TargetVerified"},
             SourceReady |-> {"Begin", "TargetPrepare", "TargetVerified", "SourceReady"},
             Committed |-> {"Begin", "TargetPrepare", "TargetVerified", "SourceReady", "LeaseCommitted"}]
Recorded(log) == {log[i] : i \in DOMAIN log} \ {"TargetApply"}
InOrder(log) ==
    \A i \in DOMAIN log :
      /\ \A j \in DOMAIN log : log[i] = log[j] /\ log[i] # "TargetApply" => i = j
      /\ log[i] \in DOMAIN Follows => \E j \in 1 .. i - 1 : log[j] = Follows[log[i]]
      /\ log[i] \in {"LeaseCommitted", "Aborted"} => i = Len(log)
TellsState(log, state) ==
    /\ state = "Absent" => log = <<>>
    /\ state \in DOMAIN PhasesOf => Recorded(log) = PhasesOf[state]
    /\ state = "Aborted" =>
         /\ {"Begin", "TargetPrepare"} \subseteq Recorded(log)
         /\ "LeaseCommitted" \notin Recorded(log)
         /\ Recorded(log) \cap {"Aborted", "SourceReady"} # {}
JournalInOrder ==
    \A h \in Handoffs : InOrder(journal[h]) /\ TellsState(journal[h], handoffs[h].state)

(* What recover_handoff reported stays true: a caller told Committed (or   *)
(* AlreadyCommitted) has a committed handoff, a caller told AbortedExpired *)
(* or AlreadyAborted an aborted one, whatever raced with the recovery.     *)
RecoveryTellsTheTruth ==
    \A r \in Recoveries : recoveries[r].phase = "returned" =>
      LET h == recoveries[r].handoff IN
      /\ recoveries[r].outcome \in {"Committed", "AlreadyCommitted"} => handoffs[h].state = "Committed"
      /\ recoveries[r].outcome \in {"AbortedExpired", "AlreadyAborted"} => handoffs[h].state = "Aborted"

(* What is told of a handoff, by its journal and by a recovery, is what    *)
(* happened to it.                                                         *)
HandoffsAreTold == JournalInOrder /\ RecoveryTellsTheTruth

(* The doc's "every lease epoch transition is monotonic", with what makes  *)
(* it useful: the epoch moves by exactly one, exactly when a handoff       *)
(* commits, and the holder never changes without it.                       *)
EpochFencesHolder ==
    [][\A l \in Leases :
         /\ leases'[l].epoch # leases[l].epoch =>
              /\ leases'[l].epoch = leases[l].epoch + 1
              /\ \E h \in Handoffs : /\ handoffs[h].state = "SourceReady"
                                     /\ handoffs'[h].state = "Committed"
                                     /\ handoffs[h].lease = l
         /\ leases'[l].holder # leases[l].holder => leases'[l].epoch # leases[l].epoch]_vars

(* While a handoff is pending the snapshot its target was shown stays the  *)
(* canonical latest until the handoff ends: the target never takes over a  *)
(* lease whose latest moved under it.                                      *)
HandoffFreezesLatest ==
    [][\A h \in Handoffs : IsPending(h) =>
         leases'[handoffs[h].lease].latest = leases[handoffs[h].lease].latest]_vars

(* A revoked device never becomes the writer, and the canonical latest     *)
(* never moves while its writer is revoked.                                *)
RevokedNeverGains ==
    [][\A l \in Leases :
         /\ leases'[l].holder # leases[l].holder => leases'[l].holder \notin revoked
         /\ leases'[l].latest # leases[l].latest => leases[l].holder \notin revoked]_vars

-----------------------------------------------------------------------------
(* The lease service these tables implement.  A lease is open for its      *)
(* writer exactly while it is active.                                      *)
Writer == INSTANCE SingleWriter WITH
    writer <- [l \in Leases |-> leases[l].holder],
    epoch  <- [l \in Leases |-> leases[l].epoch],
    latest <- [l \in Leases |-> leases[l].latest],
    open   <- [l \in Leases |-> leases[l].state = "Active"],
    kept   <- {s \in Snapshots : Stored(s)},
    barred <- revoked

(* Handoffs, recoveries and publishes, however they interleave, give every *)
(* lease the single fenced writer that SingleWriter describes.             *)
ImplementsSingleWriter == Writer!Spec
=============================================================================
