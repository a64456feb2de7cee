SPECIFICATION Spec
CONSTANTS
  ChunkSize = 3
  Horizons = {1, 4}
  WindowSize = 1
  MaxTicks = 5
  MaxChunks = 3
  MaxClears = 1
INVARIANTS
  AppendedOnce
  LateByTheRace
  GuidedByActions
  FrozenIsWhatRan
PROPERTIES
  RaceReported
CHECK_DEADLOCK FALSE
