SPECIFICATION FairSpec
CONSTANTS
  Call = {c1, c2}
  Key = {k1}
  NoKey = NoKey
  BapApp = {b1}
  NoBapApp = NoBapApp
  None = None
  MaxDocs = 2
  Concurrent = TRUE
INVARIANTS
  IntakeInv
  SequentialRetryIsIdempotent
  CompleteUnlessInterrupted
  StorageMatchesFiles
PROPERTIES
  SentCallEnds
CHECK_DEADLOCK FALSE
