SPECIFICATION ClientsSpec
CONSTANTS
    c1 = c1
    c2 = c2
    Snapshots = {s1}
    Chunks = {c1, c2}
    Sidecars <- SharedSidecars
    Uploaders = {u1, u2}
    Targets = {laptop}
    MaxStirs = 2
    Windows = {e1, e2}
    Buffers = {b1, b2}
    Sources = {file}
    Chains = {k1, k2}
    MaxBuffers = 2
    AuditWindow = 2
    MaxCommands = 3
    Directories = {d1, d2}
    Restorable = {s1, s2}
    InProgress = {s1}
    Openings = {o1, o2}
    MaxStops = 1
    Transfers = {x1, x2}
    Reporters = {reporter}
    MaxReports = 2
    ProjectCount = 1
    Listings = {l1}
    RowLimit = 2
    AskedLimits = {0, 1, 3}
    MaxRows = 3
    MaxSecond = 2
    AgentProcesses = {a1, a2, a3}
    Calls = {call}
    Large = {f1}
    Objects = {blob}
    MaxWrites = 2
    MaxApplies = 2
    MaxRouteChanges = 3
    Paths <- AlikePaths
    Links <- OneLink
    MaxFiles = 2
    EditorStates <- EditorWindows
    CaptureLimits <- TwoLimits
    Registrable = {1, 2}
    Spaces = {w1}
    NoSpace = NoSpace
    Every = Every
    StoredSessions = {"s1", "s2"}
    PageLimits = {3}
    DefaultLimit = 1
    TopLimit = 2
    Queries = {q1}
    MaxChanges = 3
INVARIANTS
    TablesAreReadTrue
    TargetsGetWholeSnapshots
    RestingPageIsCurrent
    RecoveriesAreTrue
    OneAgentAnswers
    UploadsAreAccounted
PROPERTY EditorStateTravels
CHECK_DEADLOCK FALSE
