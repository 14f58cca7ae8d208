SPECIFICATION Spec
CONSTANTS
  Request = {r1, r2, r3}
  BAP = {b1, b2}
  BapApp = {x1, x2}
  Txn = {t1}
  b1 = b1
  fit = fit
  unfit = unfit
  Benefit = {fit, unfit}
  Content <- ContentOf
  NoText = NoText
  Null = Null
  None = None
  Sent <- SentIn
SYMMETRY Symmetry
INVARIANTS
  CatalogueInv
  ForeignBapOnlyByOverlap
  RefusalLeavesNoTrace
  AnswersStand
  SecondRowOnlyByOverlapOrMove
  ItemsShowWholeBenefits
CHECK_DEADLOCK FALSE
