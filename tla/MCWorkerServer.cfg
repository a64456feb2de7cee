SPECIFICATION Spec
CONSTANTS
  Conns = {c1, c2}
  Kinds = {"infer", "shutdown", "oversize"}
  QueueSize = 1
  MaxFrames = 3
INVARIANTS
  EngineExclusive
  NoFrameLost
PROPERTIES
  EveryFrameSettled
  ShutdownCompletes
  ImplementsConnService
CHECK_DEADLOCK FALSE
