--------------------------- MODULE MCLeaseHandoff ---------------------------
(* A small instance of LeaseHandoff for TLC, in two halves: two handoffs    *)
(* among publishers, without the clock, and one handoff with its expiry,    *)
(* repeated applies and recoveries.                                         *)
EXTENDS LeaseHandoff, TLC

VARIABLE half

Symmetry == Permutations(Handoffs) \cup Permutations(Snapshots) \cup Permutations(Generations)
            \cup Permutations(Devices) \cup Permutations(Leases)
            \cup Permutations(Recoveries)

Begun == {h \in Handoffs : handoffs[h].state # "Absent"}

HalvesInit ==
    /\ Init /\ half \in {"publish", "recover"}
    /\ half = "recover" => Cardinality({l \in Leases : leases[l].state = "Active"}) = 1

HalvesNext ==
    /\ Next /\ UNCHANGED half
    /\ half = "publish" => UNCHANGED <<recoveries, now>>
    /\ half = "publish" => \A h \in Handoffs : ~ \E i \in DOMAIN journal'[h] : journal'[h][i] = "TargetApply"
    /\ half = "recover" => UNCHANGED snapshots /\ Cardinality(Begun') <= 1

HalvesSpec == HalvesInit /\ [][HalvesNext]_<<vars, half>>
=============================================================================
