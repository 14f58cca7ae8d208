SPECIFICATION VSpec
CONSTANTS
  Call = {c1}
  Created = Created
  None = None
  Kinds = {"resubmit", "eligibility"}
  Targets = {"approved"}
  PatchSets = {}
  MaxDocs = 2
  Concurrent = TRUE
  Verifier = {v1, v2}
  Scopes = {"all"}
SYMMETRY Symmetry
INVARIANTS
  VInv
  VerdictMatchesMarks
  VerifiedUnlessDisturbed
CHECK_DEADLOCK FALSE
