SPECIFICATION Spec
CONSTANTS
  m1 = m1
  m2 = m2
  m3 = m3
  c1 = c1
  c2 = c2
  NoKey = NoKey
  Nobody = Nobody
  Mandate = {m1, m2}
  Caller = {c1, c2}
  Key = {k1}
  Amount = {3}
  RefundTotal = {1, 2, 4}
  MaxAuths = 2
  MaxTime = 0
  MaxCrashes = 0
  Unstable = {}
  Policy <- PairPolicy
SYMMETRY MCSymmetry
INVARIANTS
  NeverNegative
  NoPhantomCredit
  OneDecisionPerKey
