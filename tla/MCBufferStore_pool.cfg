SPECIFICATION Spec
CONSTANTS
  NBufs = 3
  Streams = {1}
  MaxSize = 6
  SeqMod = 8
  BlankBufs = 2
  MaxRec = 10
  EnlargeFull = FALSE
INVARIANTS
  ListIntact
  ReaderInWindow
  NeverFails
PROPERTY WindowSpec
