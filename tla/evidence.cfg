SPECIFICATION Spec
CONSTANTS
  Caller = {c1, c2}
  Mandates = 2
  Nobody = Nobody
  Null = Null
  MaxEvents = 4
  MaxKeys = 2
  MaxFailures = 1
CHECK_DEADLOCK FALSE
INVARIANTS
  OneChain
  VerifierIsExact
PROPERTIES
  DecisionIsOnRecord
  RequestEnds
