CONSTANTS
  o1 = o1
  o2 = o2
  o3 = o3
  v1 = v1
  v2 = v2
  d1 = d1
  d2 = d2
  d3 = d3
  Ops = {o1, o2, o3}
  Kind <- MCThreeKinds
  Versions = {v1, v2}
  Version <- MCOtherVersion
  TreeIds = {d1, d2, d3}
  None = None
  Foreign = Foreign
  Others = {"changed"}
  Calls = {"apply", "cancel", "rollback", "recover"}
  InitialPrefixes <- MCInstalls
  DriftBound = 1

SPECIFICATION Spec
INVARIANTS
  IInv
  QuietPrefixIsCoherent
PROPERTIES
  ForeignIsPreserved
  OutcomesAreTrue
  PredecessorIsKept
