SPECIFICATION Spec
CONSTANTS
  Clients = {c1, c2}
  MaxInflight = 2
  MaxMessages = 4
  MaxTotal = 5
INVARIANTS
  OneAnswerEach
  AnswerLead
PROPERTIES
  EveryMessageSettled
CHECK_DEADLOCK FALSE
