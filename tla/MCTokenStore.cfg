SPECIFICATION Spec
CONSTANTS
  Tokens = {t1, t2}
  NoToken = NoToken
  Names = {n1}
  CLIs = {p1}
  Offered <- OneTime
  MaxLost = 1
SYMMETRY Symmetry
INVARIANTS
  TypeOK
  TokensKept
  AdmitsEntitled
  AdmitsOnceInRun
CHECK_DEADLOCK FALSE
