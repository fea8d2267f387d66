CONSTANTS
  o1 = o1
  o2 = o2
  o3 = o3
  f = f
  g = g
  a = a
  b = b
  u = u
  Ops = {o1, o2, o3}
  Kind <- MCInstalls
  Bundle <- MCBundle
  Paths <- MCPaths
  Contents = {a, b, u}
  None = None
  Capacity = 1
  RefBound = 3
  InitialFiles <- MCUserFile
  Disturbances = {"tear"}
  DriftBound = 1
  DeathBound = 2

SPECIFICATION Spec
INVARIANTS
  IInv
  CommittedIsWhole
PROPERTIES
  CapturedBeforeLoss
  RecoveryReturnsCapture
CHECK_DEADLOCK FALSE
