SPECIFICATION FairSpec
CONSTANTS
  Client = {c1}
  Kind = {data, log}
  Blank = Blank
  NBufs = 2
  FileSize = 1
  MaxFiles = 3
  BlankBufs = 1
  SeqGapLimit = 2
  SeqMod = 6
  MaxHeld = 1
  Selection = {{data}, {data, log}}
  Handshake = {FALSE}
  Mode = {TRUE, FALSE}
  MaxRec = 5
  MaxRestarts = 0
  MaxLost = 0
  MinSurvive = 1
PROPERTY DeliversAll
PROPERTY NoneSkipped
PROPERTY EndMeansAll
