SPECIFICATION Spec
CONSTANTS
  r1 = r1
  admin = admin
  head = head
  seller = seller
  d1 = d1
  d2 = d2
  h1 = h1
  http = http
  https = https
  None = None
  Root = {r1}
  User = {admin, head, seller}
  Switched = {r1, head}
  Worker = {w1}
  Tree <- Trees
  Level <- Roles
  Domain = {d1, d2}
  Site <- Sites
  Origin <- Origins
  ClientIp <- Clients
  Lan = {2}
  Net <- Nets
  Width = 3
  Loopback4 = 2
  Loopback6 = 5
  Lead <- Leads
INVARIANTS
  TypeOK
  AdmittedOnlyIfHeld
PROPERTY RefusedForCause
