SPECIFICATION Spec
CONSTANTS
  Keys = {1, 2}
  ActionSteps = 2
  MaxRequests = 4
  MaxFaults = 2
INVARIANTS
  OwnInputs
  SeedSequence
PROPERTIES
  EveryRequestReturns
CHECK_DEADLOCK FALSE
