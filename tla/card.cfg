SPECIFICATION Spec
CONSTANTS
  NoRef = NoRef
  Payment = {p1, p2}
  Notice = {n1}
  Caller = {c1, c2}
  Amount = {1, 2}
  Policy <- CardPolicy
  GivesUp = FALSE
  ForgetsHistory = TRUE
  MaxRows = 3
  MaxAsks = 2
  MaxTransactions = 1
  MaxTime = 1
  MaxFailures = 1
SYMMETRY MCSymmetry
CHECK_DEADLOCK FALSE
CONSTRAINT Bounds
INVARIANTS
  ApprovedIsHeld
  NothingHeldAfterClose
  MovedIsCaptured
  HoldsWithinCap
  ApprovedWithinCount
