SPECIFICATION Spec
CONSTANTS
  Conns = {c1}
  NoConn = NoConn
  LastOctet = 2
  SendCap = 1
INVARIANT NoPanic
CHECK_DEADLOCK FALSE
