SPECIFICATION Spec
CONSTANTS
  s1 = s1
  s2 = s2
  c1 = c1
  c2 = c2
  ca = ca
  n1 = n1
  Procs = {p1, p2}
  Servers = {s1, s2}
  Certs = {c1, c2, ca}
  Presents <- MCPresents
  CASigned = {ca}
  Profiles = {n1}
  Adds <- MCAdds
  None = None
  Garbled = Garbled
INVARIANTS
  ConnectedAsAgreed
  PinsKept
SYMMETRY Symmetry
