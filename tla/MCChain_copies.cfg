SPECIFICATION FairSpec
CONSTANTS
  MaxRec = 3
  Hold = 2
  NetSize = 2
  PipeSize = 2
  MaxFails = 3
  Modes <- MCModes
  Start <- MCStart
CHECK_DEADLOCK FALSE
INVARIANTS
  NoGap
  SavedAtEnd
  AgainOnlyAfterLoss
PROPERTY NeverBack
PROPERTY Arrives
PROPERTY ShutdownEnds
