SPECIFICATION Spec
SYMMETRY EditSymmetry
CONSTANTS
  w1 = w1
  w2 = w2
  None = None
  Root = "root"
  Plan <- PartOfPlan
  RoleNames <- PartOfRoles
  RootDomain <- RootPort
  Worker = {w1, w2}
  Editor = {"root", "admin"}
  Wish <- Wishes
  MaxRun = 2
  MaxEdit = 2
INVARIANTS
  TypeOK
  EditLostOnlyByOverlap
  ConflictOnlyByOverlap
  PathBrokenOnlyByInterruption
  SecondRowOnlyAfterThreeEdits
  RefusedOnlyAfterEdit
  CompletedRunEquips
