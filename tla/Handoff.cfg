SPECIFICATION HalvesSpec
CONSTANTS
    Devices = {d1, d2}
    Leases = {l1, l2}
    Handoffs = {h1, h2}
    Snapshots = {s1, s2}
    Generations = {g1, g2}
    Recoveries = {r1, r2}
    None = None
    Ttls = {0}
    MaxTime = 2
    MaxApplies = 1
    InitEpoch = 1
SYMMETRY Symmetry
INVARIANTS
    CanonicalHistoryIsFenced
    HandoffOwnsLease
    HandoffsAreTold
PROPERTIES
    HandoffFreezesLatest
    RevokedNeverGains
    ImplementsSingleWriter
