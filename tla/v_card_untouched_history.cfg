SPECIFICATION Spec
CONSTANTS
  NoRef = NoRef
  Payment = {p1}
  Notice = {n1}
  Caller = {c1, c2}
  Amount = {1, 2, 3}
  Policy <- WidePolicy
  GivesUp = FALSE
  ForgetsHistory = TRUE
  MaxRows = 4
  MaxAsks = 3
  MaxTransactions = 0
  MaxTime = 1
  MaxFailures = 0
SYMMETRY MCSymmetry
CHECK_DEADLOCK FALSE
INVARIANTS
  ApprovedIsHeld
