SPECIFICATION Spec
CONSTANTS
  b1 = b1
  b2 = b2
  b3 = b3
  Benefit = {b1, b2, b3}
  Published = {b1, b2}
  None = None
  Blank = Blank
  Profiles <- MCProfiles
  RuleSets <- MCRuleSets
  Targets = {"initiated", "approved"}
  PatchedAmounts <- MCPatchedAmounts
  PatchedTotals = {9}
  Filters <- MCFilters
  Limit = 1
  Stored <- MCStored
  MaxRows = 3
  MaxWrites = 2
  MaxBefore = 0
  AllWrites = FALSE
  MaxCalculations = 1
  Clock = 3
SYMMETRY Cards
INVARIANTS
  ReportsInv
  UntouchedRowIsListed
  CardsCountEachOnce
  EveryValueHasItsColumn
  AmountIsSumOfColumns
CHECK_DEADLOCK FALSE
