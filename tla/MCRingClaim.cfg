SPECIFICATION Spec
CONSTANTS
  Tasks = {t1, t2, t3}
  Slots = 2
  MaxRequests = 4
  MaxAttempts = 3
  MaxConns = 1
  MaxFaults = 0
  MaxCancels = 0
INVARIANT AnswerIntact
CHECK_DEADLOCK FALSE
