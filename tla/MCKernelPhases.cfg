SPECIFICATION Spec
CONSTANTS
  Families = {"text", "action", "video"}
  Layers = 2
  Rows = 3
  ActionRows = 2
  Heads = 2
  Tiles = 2
  Slabs = 3
  Capacities = {2, 4}
  SmallestGrid = 2
INVARIANTS
  OutputComplete
  CachesKept
  ReplayAgrees
  LaunchesAccepted
