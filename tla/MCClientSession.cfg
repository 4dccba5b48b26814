SPECIFICATION FairSpec
CONSTANTS
  Procs = {p1, p2}
  NoProc = NoProc
INVARIANTS
  TypeOK
  SoleTunnel
  StateFileCleared
PROPERTIES
  SignalEnds
CHECK_DEADLOCK FALSE
