SPECIFICATION DoorSpec
CONSTANTS
  IPs = {i1}
  Conns = {c1, c2, c3}
  MaxAttempts = 3
  Window = 2
  BanDuration = 2
INVARIANTS
  RateBound
PROPERTIES
  BanJustified
