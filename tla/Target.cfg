CONSTANTS
  c1 = c1
  c2 = c2
  t1 = t1
  t2 = t2
  t3 = t3
  Missing = Missing
  Nothing = Nothing
  Threads = {t1, t2, t3}
  ProcessOf <- TheProcess
  Files = {f1, f2}
  f1 = f1
  f2 = f2
  MishapBound = 1
  Covered = {"a", "b"}
  Runtime = {"x"}
  Installed = {"a"}
  Data = {c1, c2}
  Keep = 1
  SlotBound = 3
  EditBound = 1
  DeathBound = 1
  QuietRelease = TRUE

SPECIFICATION Spec
SYMMETRY Symmetry
INVARIANT LockIsExclusive
PROPERTIES
  SnapshotsAreKept
  ReadingIsOfOneTree
CHECK_DEADLOCK FALSE
