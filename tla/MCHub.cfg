SPECIFICATION FairSpec
CONSTANTS
  Names = {n1}
  Endpoints = {e1, e2}
  None = None
  Garbled = Garbled
  Reqs = {r1, r2}
  Polls = {q1, q2}
INVARIANTS
  InStepWhenQuiet
PROPERTIES
  StatusConverges
CHECK_DEADLOCK FALSE
