SPECIFICATION CoreSpec
CONSTANTS
  Backends = {"fastwam", "pi05", "smolvla"}
  Layers = 2
  Steps = 2
  Prompts = {1, 2}
  CaptureMayFail = FALSE
  MaxRequests = 2
  MaxFailures = 1
INVARIANTS
  AnswersOwn
  PromptOwn
  ScratchExclusive
