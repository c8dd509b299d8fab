SPECIFICATION Spec
CONSTANTS
  Kind = {"user", "business"}
  StrictSql = FALSE
  PiiColumn = 64
  Failures = TRUE
  User = {u1}
  Worker = {w1, w2}
  street = street
  city = city
  s1 = s1
  s2 = s2
  c1 = c1
  c2 = c2
  Column = {street, city}
  Text = {s1, s2, c1, c2}
  Filing <- TwoPlaces
  Edit <- OneColumn
  Earlier <- OldRow
  None = None
  MaxRequest = 3
SYMMETRY Symmetry
INVARIANTS
  TypeOK
  DocumentLostOnlyByFailure
  AddressTwiceOnlyByRace
  ConsentOfItsKyc
  WastedOnlyByOverlap
PROPERTY ImplementsKycTable
