SPECIFICATION Spec
CONSTANTS
    RowUnit = 16
    ColUnit = 32
    MaxRows = 5
    MaxKeys = 9
    MaxCols = 5
INVARIANTS
  AttendsExactly
  GemmsExact
