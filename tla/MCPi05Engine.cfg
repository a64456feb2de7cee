SPECIFICATION Spec
CONSTANTS
  RealCams = 2
  EmptyCams = 1
  MaxLang = 5
  LangBucket = 2
  ActionSteps = 2
  MaxCaptures = 5
INVARIANTS
  ConstantsAlive
  ShapesBounded
  PackedAlike
