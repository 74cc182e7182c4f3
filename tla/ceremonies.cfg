SPECIFICATION MCSpec
CONSTANTS
  c1 = c1
  c2 = c2
  p1 = p1
  p2 = p2
  m1 = m1
  m2 = m2
  k1 = k1
  k2 = k2
  k3 = k3
  h1 = h1
  Caller = {c1, c2}
  Principal = {p1, p2}
  Mandate = {m1, m2}
  PrincipalOf <- Owners
  HashOf <- PolicyHashes
  Credential = {k1, k2, k3}
  Advancing = {k1}
  None = None
  MaxRows = 5
  MaxSigned = 4

SYMMETRY Interchangeable
CHECK_DEADLOCK FALSE
CONSTRAINT Bounds
INVARIANTS
  OneUsePerChallenge
  EnrolmentIsProved
  ActivationIsSigned
