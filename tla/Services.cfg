SPECIFICATION ServicesSpec
CONSTANTS
    Hashes = {h1, h2}
    TrustCallers = {t1, t2}
    MaxDecisions = 3
    Commands = {k1, k2, k3}
    Pairings = {session}
    MaxPairTime = 2
    Projects = {project}
    Workspaces = {w1, w2}
    ProjectOf <- OneProject
    RegistryRuns = {cli}
    MaxSessions = 2
    Operations = {o1, o2}
    MaxAppends = 5
    MaxCuts = 2
    Frames = {frame}
    Connections = {n1, n2}
    ReplayWindow = 1
    CertificateEnd = 4
    MaxChannelTime = 3
    stdout = stdout
    stderr = stderr
    Streams = {stdout, stderr}
    SplitAfter <- SplitCharacters
    MaxChunks = 2
    SpoolLimit = 2
    LiveLimit = 2
    TaskRuns = {r1, r2}
    TaskDefinitions = {definition}
    Outputs <- TwoOutputs
    SameOutputs = {"bin"}
    MaxInputs = 2
    TargetDevices = {1, 2}
    Hardware <- TwoDevices
    MaxSignalChanges = 2
    Backups = {b1, b2}
    Works = {work}
    Revocable = {laptop}
    MaxAge = 0
    MaxBackupTime = 1
    Clients = {p1, p2}
    MaxEvents = 2
    MaxAgentRuns = 2
    MaxConnects = 2
    Profiles <- FourProfiles
    TimeLimit = 1
    PipeRoom = 1
    MaxOutput = 2
    MaxElapsed = 2
    top = top
    outer = outer
    inner = inner
    Top = top
    Submodules = {outer, inner}
    Within <- Nested
    Order <- Listed
    MaxDepth = 1
    Checkpointers = {k1, k2}
    MaxChanges = 1
    MaxPins = 1
    TaskFiles = {f1, f2}
    QuotedNames = {f2}
    FileContents = {v1, v2, v3}
    Fragile = {v3}
    Absent = Absent
    DeclaredTests = 1
    MaxTaskSteps = 3
    f1 = f1
    f2 = f2
    ConflictPaths = {f1, f2}
    PathOrder <- TwoPaths
    UsedStages <- ThreeStages
    UsedFiles = {"markers", "none"}
    MaxUserSteps = 1
    Rotations <- SmallLogs
    Messages <- TwoMessages
    MaxLines = 6
    CoreCounts = {1, 5, 12}
    SlotLimits = {0, 6}
    Bandwidths = {0, 3000}
    LoadQuarters = {0, 15}
    MaxMachineChanges = 1
INVARIANTS
    StrainNeverRaisesLimits
    TaskReportsAreTrue
    GitStateTravels
    ApprovalsAreSpentAndCurrent
    PeersArePairedOnce
    AgentAnswersAreSaved
    AppendsAreKept
    RequestsRunOnce
    RestoredAnchorsAreWhole
    StreamsHaveNoGaps
    CleanReportsAreEarned
PROPERTY BetterSignalsKeepTheTask
CHECK_DEADLOCK FALSE
