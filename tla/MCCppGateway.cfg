SPECIFICATION Spec
CONSTANTS
  Clients = {c1, c2}
  Kinds = {"text", "binary", "bad"}
  Capacity = 1
  MaxMessages = 3
INVARIANTS
  PipelineInOrder
  AnswersMatch
PROPERTIES
  ServedUnlessFull
CHECK_DEADLOCK FALSE
