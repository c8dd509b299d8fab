SPECIFICATION Spec
CONSTANTS
  k1 = k1
  k2 = k2
  Account = {a1}
  Client = {k1}
  Switched = {a1}
  Worker = {w1}
  Chosen = {c1}
  Generated = {g1}
  ResetLink = {l1}
  Initial = c1
  None = None
  MaxTime = 3
  MaxEra = 2
  AccessLife = 2
  RefreshLife = 3
  ResetLife = 1
INVARIANTS
  TypeOK
  NoSessionOutlivesRevocation
  RotatedTokenStaysDead
PROPERTY ImplementsAccountSession
CHECK_DEADLOCK FALSE
