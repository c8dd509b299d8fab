SPECIFICATION Spec
CONSTANTS
  k1 = k1
  k2 = k2
  Account = {a1}
  Client = {k1, k2}
  Switched = {a1}
  Worker = {w1, w2}
  Chosen = {c1}
  Generated = {g1}
  ResetLink = {l1}
  Initial = c1
  None = None
  MaxTime = 1
  MaxEra = 2
  AccessLife = 1
  RefreshLife = 3
  ResetLife = 1
SYMMETRY RequestSymmetry
INVARIANT LogoutFromAllDevices
CHECK_DEADLOCK FALSE
