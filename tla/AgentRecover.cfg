SPECIFICATION AgentSpec
CONSTANTS
    Self = d1
    Devices = {d1, d2}
    Leases = {l1}
    Handoffs = {h1}
    Snapshots = {}
    Generations = {0, 9}
    Recoveries = {t1, t2}
    None = None
    Ttls = {0}
    MaxTime = 2
    MaxApplies = 0
    InitEpoch = 1
    LocalOps = {"ready", "recover"}
    RemoteOps = {"verify", "abort"}
    ContextGeneration = 9
    MaxEdits = 0
    Revocable = {}
SYMMETRY Symmetry
INVARIANTS
    CommittedAnnounced
PROPERTIES
    AgentUsesMetadata
