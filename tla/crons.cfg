SPECIFICATION FairSpec
CONSTANTS
  App = {a1, a2, a3}
  CalcTick = {k1, k2}
  CheckTick = {e1, e2}
  Visit = {v1}
  BatchSize = 2
  None = None
  JobSets = {{"calculation"}, {"check"}}
  Touched = {a1}
  MaxEvents = 2
  MaxBroken = 1
INVARIANTS
  CronsInv
  AgainOnlyByOverlap
  DecisionStaleOnlyByOverlap
PROPERTIES
  WorkableRowsAreProcessed
CHECK_DEADLOCK FALSE
