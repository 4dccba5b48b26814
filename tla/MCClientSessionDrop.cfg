SPECIFICATION Spec
CONSTANTS
  Procs = {p1}
  NoProc = NoProc
PROPERTY DropRetried
CHECK_DEADLOCK FALSE
