CONSTANTS
  Nothing = Nothing
  Link = Link
  ConfigPaths = {"skill", "agents"}
  ScopedPaths = {"skill"}
  Region = "agents"
  Bundles = {"b0", "b1", "b2"}
  FilesIn <- BundleFilesOf
  Texts = {"own", "blank", "v", "w"}
  Requests <- Asks
  Callers = {"c1"}
  SlotBound = 2
  EditBound = 1

SPECIFICATION Spec
INVARIANTS
  LineIsUnderstood
  BundleIsAsDeclared
  DeadlinesAreExact
PROPERTIES
  PlanIsBinding
  SectionStaysApart
CHECK_DEADLOCK FALSE
