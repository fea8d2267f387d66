CONSTANTS
  o1 = o1
  o2 = o2
  Ops = {o1, o2}
  ConfigPaths <- MCConfig
  MetaPaths <- MCMeta
  Data = {"a", "b"}
  NoFile = NoFile
  None = None
  DirIds = {d1}
  User = User
  Legacy = Legacy
  Guard = Guard
  Scope <- MCScope
  Desired <- MCDesired
  InitialFiles <- MCInitialFiles
  DriftBound = 0

SPECIFICATION FairSpec
PROPERTIES
  Settles
  TailsAreCleared
