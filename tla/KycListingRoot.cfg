SPECIFICATION Spec
CONSTANTS
  r1 = r1
  admin = admin
  head = head
  retailer = retailer
  None = None
  Kind = {"user"}
  Root = {r1}
  User = {admin, head, retailer}
  Tree <- Seeded
  Status = {"PENDING", "SUSPENDED"}
  Shown = {"PENDING"}
  Filer = {head, retailer}
  Filter = {None, "SUSPENDED"}
  Limit = 1
  MaxTime = 1
  MaxFiling = 2
INVARIANT RootSeesChildren
