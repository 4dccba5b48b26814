SPECIFICATION Spec
CONSTANTS
  ip1 = ip1
  net1 = net1
  Addrs = {ip1}
  Nets = {net1}
  Within <- OneRange
  Names = {n1}
  Ports = {p1}
  Conns = {c1}
  Listeners = {l1, l2}
  Admins = {a1, a2}
  None = None
INVARIANTS
  TypeOK
  TrackedOrDoomed
  ListenerReachable
  DeletedRuleStops
  ExactEntryKills
SYMMETRY Symmetry
CHECK_DEADLOCK FALSE
