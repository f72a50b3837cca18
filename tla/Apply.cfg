SPECIFICATION Spec
CONSTANTS
  t = t
  n = n
  x = x
  A = A
  B = B
  base = base
  ahead = ahead
  mine = mine
  Absent = Absent
  UserContent = UserContent
  Paths = {t, n, x}
  Excluded = {x}
  Contents = {A, B}
  Commits = {base, ahead, mine}
  TreeOf <- TreeOfDef
  Sources <- SourcesDef
  Starts = {mine}
  Policies = {"Block", "SnapshotAndFork", "NewWorkspace"}
  MaxEdits = 2
  MaxApplies = 2
INVARIANTS QuietApplyVerifies CapturableWorkSurvives
PROPERTIES VerifiedMatchesSource
CHECK_DEADLOCK FALSE
