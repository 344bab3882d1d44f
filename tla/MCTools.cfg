SPECIFICATION Spec
CONSTANTS
  Turns = {t1}
  Admins = {a1, a2}
  Versions = {v1, v2}
  NoVersion = NoVersion
  Keep = 1
  MaxOps = 3
SYMMETRY OpsSymmetry
CHECK_DEADLOCK FALSE
INVARIANTS
  RevocationHonoured
  ApprovedAsSigned
  AuditTrue
