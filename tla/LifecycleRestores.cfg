CONSTANTS
  o1 = o1
  o2 = o2
  o3 = o3
  f = f
  g = g
  a = a
  b = b
  u = u
  Ops = {o1, o2, o3}
  Kind <- MCRestores
  Bundle <- MCBundle
  Paths <- MCPaths
  Contents = {a, b, u}
  None = None
  Capacity = 2
  RefBound = 3
  InitialFiles <- MCUserFile
  Disturbances = {"hold"}
  DriftBound = 0
  DeathBound = 1

SPECIFICATION FairSpec
INVARIANTS
  PlansNameOneCapture
  RecordNamesSetup
PROPERTIES
  CapturedBeforeLoss
  HeldIsKept
  JournalsAreResolved
CHECK_DEADLOCK FALSE
