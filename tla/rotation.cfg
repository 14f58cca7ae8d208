SPECIFICATION FairSpec
CONSTANTS
  Write = {w1, w2}
  Stored = Stored
  Empty = Empty
  None = None
  MaxRows = 3
  BatchSize = 2
  MaxRuns = 2
INVARIANTS
  RotationInv
  WriteLostOnlyInBatch
  ReadableAfterRestart
PROPERTIES
  RotationEnds
CHECK_DEADLOCK FALSE
