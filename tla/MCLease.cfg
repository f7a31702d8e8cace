SPECIFICATION Spec
CONSTANTS
  Runs = {r1, r2, r3}
  r1 = r1
  r2 = r2
  r3 = r3
  NoFile = NoFile
  LeaseTimeout = 1
  MaxTime = 2
SYMMETRY MCSymmetry
CHECK_DEADLOCK FALSE
INVARIANTS
  TypeOK
  ActiveRunsBounded
  HolderIsNamed
  NoLeaseLeftBehind
