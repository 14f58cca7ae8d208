SPECIFICATION Spec
CONSTANTS
  App = {a1}
  CalcTick = {}
  CheckTick = {e1}
  Visit = {}
  BatchSize = 2
  None = None
  JobSets = {{"check"}}
  Touched = {}
  MaxEvents = 0
  MaxBroken = 0
INVARIANT DecidedOnApplicantData
CHECK_DEADLOCK FALSE
