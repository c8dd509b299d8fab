SPECIFICATION Spec
CONSTANTS
  k1 = k1
  k2 = k2
  Account = {a1}
  Client = {k1, k2}
  Switched = {}
  Worker = {w1, w2}
  Chosen = {c1}
  Generated = {g1, g2}
  ResetLink = {l1, l2}
  Initial = c1
  None = None
  MaxTime = 1
  MaxEra = 2
  AccessLife = 1
  RefreshLife = 3
  ResetLife = 1
SYMMETRY RequestSymmetry
INVARIANTS
  RevocationOnlyOvertaken
  SpentLinkIsDead
  PasswordReachable
PROPERTIES
  CutOffOnlyByNamedCause
  LinkEndsByResetOnly
CHECK_DEADLOCK FALSE
VIEW WithoutUnread
