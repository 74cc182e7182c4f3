SPECIFICATION Spec
CONSTANTS
  m1 = m1
  m2 = m2
  m3 = m3
  c1 = c1
  c2 = c2
  NoKey = NoKey
  Nobody = Nobody
  Mandate = {m1, m2}
  Caller = {c1, c2}
  Key = {}
  Amount = {3}
  RefundTotal = {}
  MaxAuths = 2
  MaxTime = 2
  MaxCrashes = 0
  Unstable = {}
  Policy <- TwoWindowPolicy
SYMMETRY MCSymmetry
INVARIANTS
  WithinCap
