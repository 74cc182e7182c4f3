SPECIFICATION Spec
CONSTANTS
  Caller = {c1, c2}
  Class = {"public", "loopback"}
  DemoRoutes = FALSE
  MaxHops = 1
  TimeoutMs = 1
  Instrument = {i1}
  Safe = {s1}
  SafeOf <- OneSafe
  Payee = {m1}
  NoPayee = NoPayee
  Atomic = {1, 2, 3}
  Scale = 2
  Limit = 2
  MaxCount = 2
  Verdict = {"ALLOW", "STEP_UP"}
  MaxRows = 2
  MaxNonce = 2
CHECK_DEADLOCK FALSE
INVARIANTS
  OnlyPermittedReached
  MovedWithinBudget
PROPERTIES
  NothingHeldAfterRevoke
  RequestEnds
