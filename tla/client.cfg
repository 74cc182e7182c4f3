SPECIFICATION Spec
CONSTANTS
  o1 = o1
  a1 = a1
  a2 = a2
  m1 = m1
  m2 = m2
  NoCard = NoCard
  NoKey = NoKey
  Org = {o1}
  Agent = {a1, a2}
  Mandate = {m1, m2}
  Card = {p1}
  Key = {1, 2, 3}
  Calls = 3
  Makes <- MCMakes
  Askers <- MCAskers
  OrgOf <- MCOrgOf
  AgentOf <- MCAgentOf
  MandateOf <- MCMandateOf
  Carries <- MCCarries
  Limit <- MCLimit
  Window <- MCWindow
  attempts = 2
  Amount = {1}
  Verdicts <- MCVerdicts
  Approvers <- MCApprovers
  HoldsWhilePending = {}
  Ttl = 1
  MaxRows = 2
  MaxTime = 1
  MaxOpen = 1
  Unstable = {a2}
CHECK_DEADLOCK FALSE
INVARIANTS
  OneDecisionPerCall
  AnswersStand
  LedgerMatchesStatus
PROPERTIES
  ChargedByItsAgent
