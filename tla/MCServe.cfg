SPECIFICATION ServeSpec
CONSTANTS
  MaxSignals = 2
  MaxFaults = 1
INVARIANTS
  OptionsArrive
  CleanStop
PROPERTIES
  Deploys
  StopEnds
CHECK_DEADLOCK FALSE
