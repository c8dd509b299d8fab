SPECIFICATION Spec
CONSTANTS
  Profile = {r1, u1}
  Setting = {t1}
  Worker = {w1, w2}
  Name = {n1, n2}
  DiskName = {d1, d2}
  Foreign = {f1}
  None = None
  MaxTime = 1
  MaxRequest = 3
SYMMETRY Symmetry
INVARIANTS
  TypeOK
  ProfileLostOnlyByFailure
  UploadedLogoLostOnlyByLostAck
  NoStrayObject
