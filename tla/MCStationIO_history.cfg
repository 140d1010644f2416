SPECIFICATION Spec
CONSTANTS
  Client = {c1}
  Kind = {data}
  Blank = Blank
  NBufs = 4
  FileSize = 2
  MaxFiles = 3
  BlankBufs = 2
  SeqGapLimit = 2
  SeqMod = 11
  MaxHeld = 1
  Selection = {{data}}
  Handshake = {TRUE, FALSE}
  Mode = {TRUE}
  MaxRec = 12
  MaxRestarts = 2
  MaxLost = 2
  MinSurvive = 1
INVARIANTS
  QueuesValid
  FIFO
  LabelsRecord
  FilesInv
  DiskCoversMemory
  NumbersNotReused
PROPERTY WindowSpec
