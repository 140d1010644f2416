SPECIFICATION Spec
CONSTANTS
  c1 = c1
  c2 = c2
  c3 = c3
  c4 = c4
  c5 = c5
  here = here
  there = there
  Conn <- MCConn
  Addr = {here, there}
  IpOf <- MCIpOf
  max_conn = 3
  max_conn_per_ip = 2
  MaxCount = 6
INVARIANTS
  CountsOpen
PROPERTY RefusedOnlyWhenFull
CHECK_DEADLOCK FALSE
