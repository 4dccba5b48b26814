SPECIFICATION Spec
CONSTANTS
  Conns = {c1, c2}
  NoConn = NoConn
  LastOctet = 2
  SendCap = 1
SYMMETRY ConnSymmetry
INVARIANTS
  TypeOK
  AddressOwnership
  GaugeWithinRegistry
PROPERTIES
  CheckStopsClosed
  DrainedBeforeTeardown
  PoolRefinement
CHECK_DEADLOCK FALSE
