CONSTANTS
    None = None
    HotCount = 1
    HourSeconds = 2
    DaySeconds = 4
    HourlyHours = 1
    DailyDays = 0
    ProtectSeconds = 0
    Quota = 3
    HardStop = 1
    Writers = {cli, agent}
    Pruners = {pruner}
    Hashes = {h1, h2}
    SizeOf <- MCSizeOf
    Usages = {0, 5}
    FreeDisks = {1}
    MaxSnapshots = 3
    MaxStops = 1
    Absent = absent
    Nothing = Nothing
    Initial = Initial
    Starts <- StartsDef
    Files = {"a", "x"}
    Excludes = {"x"}
    Bodies = {"A", "B"}
    Branches = {"main", "topic"}
    ProjectId = "p1"
    Outside = {".."}
    Earlier <- EarlierAll
    MaxUserMoves = 2
SPECIFICATION SnapshotsSpec
SYMMETRY MCSymmetry
CHECK_DEADLOCK FALSE
INVARIANTS
    RowsAreWhole
    CapturedWorkReachable
    PlansAreSound
    CheckpointsKeepTheWork
    HashesTellStatesApart
PROPERTY
    SequenceNeverFallsBack
