SPECIFICATION Spec
CONSTANTS
  Call = {c1, c2, c3}
  Key = {k1}
  NoKey = NoKey
  BapApp = {b1, b2}
  NoBapApp = NoBapApp
  None = None
  MaxDocs = 1
  Concurrent = FALSE
INVARIANTS
  NoDuplicateApplications
PROPERTIES
  GetOrCreate
CHECK_DEADLOCK FALSE
