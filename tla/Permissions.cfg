SPECIFICATION FairSpec
CONSTANTS
  Actor = {a1}
  Employee = {}
  Role = {r1}
  Worker = {w1, w2}
  Service = {}
  p1 = p1
  p2 = p2
  s1 = s1
  None = None
  RoleGrants <- OfRole
  OwnGrants <- OfUser
  Required <- DemandBoth
  Demanded = {r1}
  TTL = 1
  Cap = 2
INVARIANTS
  TypeOK
  CachedRecentlyInForce
  AllowedRecentlyInForce
PROPERTY RevocationTakesEffect
