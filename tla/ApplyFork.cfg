SPECIFICATION Spec
CONSTANTS
  t = t
  n = n
  x = x
  A = A
  B = B
  base = base
  ahead = ahead
  mine = mine
  Absent = Absent
  UserContent = UserContent
  Paths = {t, n, x}
  Excluded = {x}
  Contents = {A, B}
  Commits = {base, ahead, mine}
  TreeOf <- TreeOfDef
  Sources <- OneSourceDef
  Starts = {base, mine}
  Policies = {"SnapshotAndFork"}
  MaxEdits = 1
  MaxApplies = 2
PROPERTIES CleanupHasSnapshot
CHECK_DEADLOCK FALSE
