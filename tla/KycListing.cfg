SPECIFICATION FairSpec
CONSTANTS
  r1 = r1
  admin = admin
  head = head
  retailer = retailer
  None = None
  Kind = {"user", "business"}
  Root = {r1}
  User = {admin, head, retailer}
  Tree <- Trees
  Status = {"PENDING", "SUSPENDED"}
  Shown = {"PENDING"}
  Filer = {head, retailer}
  Filter = {None, "SUSPENDED"}
  Limit = 1
  MaxTime = 1
  MaxFiling = 2
INVARIANTS
  TypeOK
  ScopeExact
  ScopeIsDownline
  AnswerConsistent
  MissedOnlyByRemoval
  TwiceOnlyByEntry
PROPERTY WalkEnds
