SPECIFICATION Spec
CONSTANTS
  Call = {c1, c2}
  Key = {k1}
  NoKey = NoKey
  BapApp = {b1}
  NoBapApp = NoBapApp
  None = None
  MaxDocs = 1
  Concurrent = TRUE
INVARIANTS
  NoDuplicateApplications
CHECK_DEADLOCK FALSE
