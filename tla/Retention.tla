------------------------------ MODULE Retention ------------------------------
(***************************************************************************)
(* The retention planner (retention.rs): a pure function from a listing of  *)
(* the stored snapshots to the snapshots a prune may delete.  Deletion      *)
(* itself is SnapshotStore's business.                                      *)
(*                                                                          *)
(* A plan input is a record                                                 *)
(*   entries      snapshot id -> [parent, seq, pinned, created, size]       *)
(*   canonical    the canonical latest snapshot, or None                    *)
(*   protections  handoff protections, [id, until]                          *)
(*   usage, free  bytes in the cache and bytes free on the disk             *)
(*   now          the planning time                                         *)
(* Warnings and the wording of reasons are left out: they decide nothing.   *)
(***************************************************************************)
EXTENDS Integers, FiniteSets, FiniteSetsExt

CONSTANTS
    None,              \* no snapshot
    HotCount,          \* policy.hot_snapshot_count
    HourSeconds,       \* SECONDS_PER_HOUR
    DaySeconds,        \* SECONDS_PER_DAY
    HourlyHours,       \* policy.hourly_thinning_hours
    DailyDays,         \* policy.daily_thinning_days
    ProtectSeconds,    \* policy.handoff_protection_seconds
    Quota,             \* the quota of the planned scope in bytes, or None
    HardStop           \* policy.free_disk_hard_stop_threshold in bytes

ASSUME RetentionAssumption ==
    /\ {HotCount, HourlyHours, DailyDays, ProtectSeconds, HardStop} \subseteq Nat
    /\ {HourSeconds, DaySeconds} \subseteq Nat \ {0}
    /\ Quota \in Nat \cup {None}

-----------------------------------------------------------------------------
SaturatingSub(a, b) == IF a > b THEN a - b ELSE 0

Listed(in) == DOMAIN in.entries

\* policy.handoff_protection: protected until its time plus the policy's span.
HandoffProtection(id, at) == [id |-> id, until |-> at + ProtectSeconds]

\* The hard reasons that do not depend on other snapshots.
DirectlyProtected(in) ==
    { i \in Listed(in) :
        \/ i = in.canonical
        \/ in.entries[i].pinned
        \/ \E p \in in.protections : p.id = i /\ p.until >= in.now }

\* newest_first(...).take(hot_snapshot_count)
HotSnapshots(in) ==
    { i \in Listed(in) :
        Cardinality({ j \in Listed(in) : in.entries[j].seq > in.entries[i].seq })
            < HotCount }

\* latest_per_bucket: of the snapshots made since the floor, the newest of
\* each bucket of time.
LatestPerBucket(in, floor, len) ==
    LET recent == { i \in Listed(in) : in.entries[i].created >= floor }
        Bucket(i) == in.entries[i].created \div len
    IN  { i \in recent : \A j \in recent :
            Bucket(i) = Bucket(j) => in.entries[j].seq <= in.entries[i].seq }

RetainedOnTheirOwn(in) ==
    DirectlyProtected(in)
        \cup HotSnapshots(in)
        \cup LatestPerBucket(in, SaturatingSub(in.now, HourlyHours * HourSeconds),
                             HourSeconds)
        \cup LatestPerBucket(in, SaturatingSub(in.now, DailyDays * DaySeconds),
                             DaySeconds)

ListedParents(in, S) == { in.entries[i].parent : i \in S } \cap Listed(in)

\* Mutant: the walk stops after the first generation.
RetainedOneGeneration(in) ==
    RetainedOnTheirOwn(in) \cup ListedParents(in, RetainedOnTheirOwn(in))

\* protect_retained_parents: the frontier walk, one generation at a time.
Retained(in) ==
    LET up[n \in Nat] ==
            IF n = 0 THEN RetainedOnTheirOwn(in)
            ELSE LET frontier == up[n - 1]
                 IN  frontier \cup ListedParents(in, frontier)
    IN  up[Cardinality(Listed(in))]

\* is_hard: what no pressure may delete.
HardRetained(in, kept) == DirectlyProtected(in) \cup ListedParents(in, kept)

OutsideRetention(in) == Listed(in) \ Retained(in)

Reclaimed(in, S) == MapThenSumSet(LAMBDA i : in.entries[i].size, S)

TargetReclaim(in) ==
    LET overage == IF Quota = None THEN 0 ELSE SaturatingSub(in.usage, Quota)
    IN  Max({ overage, SaturatingSub(HardStop, in.free) })

\* Mutant: the pressure loop goes on when the target is met exactly.
PressureDeletesOneMore(in) ==
    LET kept == Retained(in)
        outside == Listed(in) \ kept
        target == TargetReclaim(in)
        soft == IF Reclaimed(in, outside) <= target THEN kept \ HardRetained(in, kept)
                                                    ELSE {}
        Older(i) == { j \in soft : in.entries[j].seq < in.entries[i].seq }
    IN  { i \in soft : Reclaimed(in, outside \cup Older(i)) <= target }

\* The pressure loop, entered when the target is not reached yet: the retained
\* snapshots without a hard reason, oldest first, until it is.
PressureDeletes(in) ==
    LET kept == Retained(in)
        outside == Listed(in) \ kept
        target == TargetReclaim(in)
        soft == IF Reclaimed(in, outside) < target THEN kept \ HardRetained(in, kept)
                                                   ELSE {}
        Older(i) == { j \in soft : in.entries[j].seq < in.entries[i].seq }
    IN  { i \in soft : Reclaimed(in, outside \cup Older(i)) < target }

\* One decision per listed snapshot.
PlannedDeletes(in) ==
    Listed(in) \cap (OutsideRetention(in) \cup PressureDeletes(in))
=============================================================================
