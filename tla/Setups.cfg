CONSTANTS
  User = User
  Broken = Broken
  Other = Other
  Untaken = Untaken
  Global = Global
  Missing = Missing
  Nothing = Nothing
  NotThere = NotThere
  Places <- ThePlaces
  Shelves <- TheShelves
  Embedded <- TheEmbedded
  Surface = {"a", "b"}
  Elsewhere = {"x"}
  Asked = {"s1", "s2"}
  Contents = {"own", "one", "two", "three"}
  CommandBound = 2
  ShelfEditBound = 1
  ShelfDeathBound = 1
  TargetFiles = {"a", "b", "x"}
  Declared = {"a", "b"}
  Setups = {"safe", "full"}
  SetupFiles <- TheSetupFiles
  Stamps <- TheStamps
  Capacity = 2
  Nobody = Nobody
  SlotBound = 3
  HandBound = 1
  StampBound = 1
  p1 = p1
  p2 = p2
  Clients = {p1, p2}
  Commands = {tool}
  Operations = {o1}
  CallBound = 2
  DeathBound = 1
  MeddleBound = 1
  Keys = {"k1", "k2"}
  SetupIds = {"s1", "s2", "s3"}
  Brings <- KeysOf
  Contributes = {"s1"}
  EditBound = 2
  CaptureBound = 2
  Writers = {"compatibility", "forward"}

SPECIFICATION Spec
SYMMETRY Symmetry
PROPERTIES
  CatalogIsTruthful
  PersonCanUndo
  CheckedIsFit
  KeysStayTheirOwners
  RecordsAreSound
  StoreIsAtomic
CHECK_DEADLOCK FALSE
