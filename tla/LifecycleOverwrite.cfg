CONSTANTS
  o1 = o1
  o2 = o2
  o3 = o3
  f = f
  g = g
  a = a
  b = b
  u = u
  Ops = {o1, o2, o3}
  Kind <- MCReturns
  Bundle <- MCBundle
  Paths <- MCPaths
  Contents = {a, b, u}
  None = None
  Capacity = 2
  RefBound = 4
  InitialFiles <- MCUserFiles
  Disturbances = {}
  DriftBound = 1
  DeathBound = 0

SPECIFICATION Spec
PROPERTIES
  CapturedBeforeLoss
CHECK_DEADLOCK FALSE
