SPECIFICATION VSpec
CONSTANTS
  Call = {c1, c2}
  Created = Created
  None = None
  Kinds = {"resubmit", "eligibility", "patch"}
  Targets = {"approved"}
  PatchSets = {{"documents"}, {"eligibility"}}
  MaxDocs = 2
  Concurrent = TRUE
  Verifier = {v1}
  Scopes = {"all", "some"}
SYMMETRY Symmetry
INVARIANTS
  EligibleOnVerifiedDocuments
CHECK_DEADLOCK FALSE
