SPECIFICATION IpcSpec
CONSTANTS
  Tasks = {t1, t2}
  Slots = 2
  MaxRequests = 3
  MaxAttempts = 3
  MaxConns = 4
  MaxFaults = 2
  MaxCancels = 2
  MaxTroubles = 3
INVARIANTS
  AnswerOwn
  PayloadsKept
  ExecBound
PROPERTIES
  ServedInTicketOrder
  EveryRequestEnds
CHECK_DEADLOCK FALSE
