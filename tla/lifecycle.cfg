SPECIFICATION Spec
CONSTANTS
  Call = {c1, c2, c3}
  Created = Created
  None = None
  Kinds = {"resubmit", "status", "confirm", "patch", "calculate", "eligibility"}
  Targets = {"approved", "rejected"}
  PatchSets = {{"status"}, {"data"}, {"calculated"}, {"final"}, {"log", "orderId", "eligibility"}}
  MaxDocs = 2
  Concurrent = TRUE
SYMMETRY Symmetry
INVARIANTS
  LifecycleInv
  EntryLostOnlyByOverlap
  DecisionIsAudited
  DerivedStaleOnlyByOverlap
  OrderIdLostOnlyByOverlap
  CompleteSetUnlessInterrupted
CHECK_DEADLOCK FALSE
