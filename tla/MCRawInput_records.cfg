SPECIFICATION Spec
CONSTANTS
  Times = {0, 2, 3, 5, 8}
  MaxInputs = 5
  Sizes = {1, 2}
  Words = 2
  Gap_flush = 2
  Modes <- MCModes
CHECK_DEADLOCK FALSE
INVARIANTS
  Conserved
  NoGapInside
  LabelOfWord
  InOrder
  NothingLeft
