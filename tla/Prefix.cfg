CONSTANTS
  p1 = p1
  p2 = p2
  r1 = r1
  r2 = r2
  d1 = d1
  d2 = d2
  d3 = d3
  Procs = {p1, p2}
  Requests = {r1, r2}
  Revocable = {r1, r2}
  Dirs = {d1, d2, d3}
  Nobody = Nobody
  MeddleBound = 2
  Launchers = {"l1"}
  Versions = {"v1", "v2"}
  Surfaces = {"skills", "settings"}
  HomeRooted = {"skills"}
  Setups = {"s1"}
  Bindings = {"partial", "documented"}
  Members = {"native"}
  Hosts = {"unix", "windows"}
  EditBound = 2
  Builds = {"b1", "b2", "b3"}
  Pins = {"v1", "v2", "v3"}
  Shas = {"s1u", "s1w", "s2u", "s2w", "s2x", "s3u", "s3w"}
  Platforms = {"unix", "windows"}
  Current <- Newest
  Published <- ReleaseTable
  FirstRow <- FirstRows
  HandBound = 1

SPECIFICATION Spec
CONSTRAINT InOrder
SYMMETRY Symmetry
PROPERTIES
  AllocationIsExclusive
  LaunchesAreBound
  CommandIsAsInstalled
  UnpackingIsExact
CHECK_DEADLOCK FALSE
