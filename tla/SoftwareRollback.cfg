CONSTANTS
  o1 = o1
  o2 = o2
  o3 = o3
  v1 = v1
  v2 = v2
  d1 = d1
  d2 = d2
  d3 = d3
  Ops = {o1}
  Kind <- MCInstallKind
  Versions = {v1, v2}
  Version <- MCSameVersion
  TreeIds = {d1, d2, d3}
  None = None
  Foreign = Foreign
  Others = {"changed"}
  Calls = {"apply"}
  InitialPrefixes <- MCInstalls
  DriftBound = 0

SPECIFICATION FairSpec
PROPERTIES
  PromotionIsRolledBack
