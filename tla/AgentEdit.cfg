SPECIFICATION AgentSpec
CONSTANTS
    Self = d1
    Devices = {d1, d2}
    Leases = {l1}
    Handoffs = {h1}
    Snapshots = {}
    Generations = {0, 1, 9}
    Recoveries = {t1, t2}
    None = None
    Ttls = {0}
    MaxTime = 0
    MaxApplies = 0
    InitEpoch = 1
    LocalOps = {"ready", "commit"}
    RemoteOps = {"begin", "verify", "abort"}
    ContextGeneration = 9
    MaxEdits = 1
    Revocable = {d2}
SYMMETRY Symmetry
INVARIANTS
    TargetAppliedBeforeCommit
    AcknowledgedEditEndsHandoffs
