SPECIFICATION Spec
CONSTANTS
  a = a
  b = b
  Stream = {a, b}
  Length <- MCLength
  Gaps = {1}
  FileSize = 2
  MaxFiles = 3
  SeqSize = 13
  Before = {0, 8}
  BlankBufs = 1
  MaxRec = 7
  MaxRestarts = 2
  MaxLost = 1
INVARIANTS
  TimeFinds
  EndsOnlyEmpty
CHECK_DEADLOCK FALSE
