SPECIFICATION Spec
CONSTANTS
  Times = {0, 2, 3, 4, 5, 6, 8}
  MaxInputs = 4
  Sizes = {1, 2}
  Words = 2
  Gap_flush = 2
  Modes <- ContinuedModes
CHECK_DEADLOCK FALSE
INVARIANTS
  NoneForgotten
