SPECIFICATION FairSpec
CONSTANTS
  Plugin = {p1, p2}
  Timed = {p1}
  Retried = {p1}
  Waited = {p1}
  MaxPackets = 2
  MaxHups = 1
CHECK_DEADLOCK FALSE
INVARIANTS
  OneChild
PROPERTY NothingLost
PROPERTY Restarted
PROPERTY ToldGoes
