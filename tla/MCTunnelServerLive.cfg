SPECIFICATION FairSpec
CONSTANTS
  Conns = {c1}
  NoConn = NoConn
  LastOctet = 3
  SendCap = 1
PROPERTIES
  AddressReclaimed
  ClosedConnEnds
  RouterReturns
  ShutdownDrains
CHECK_DEADLOCK FALSE
