SPECIFICATION Spec
CONSTANTS
  Kind = {"user"}
  StrictSql = FALSE
  PiiColumn = 64
  Failures = FALSE
  User = {u1}
  Worker = {w1}
  street = street
  city = city
  s1 = s1
  s2 = s2
  c1 = c1
  c2 = c2
  Column = {street, city}
  Text = {s1, s2, c1, c2}
  Filing <- TwoPlaces
  Edit <- OneColumn
  Earlier <- NoRow
  None = None
  MaxRequest = 2
SYMMETRY Symmetry
INVARIANTS
  NoConsentLeft
