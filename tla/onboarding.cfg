SPECIFICATION MCSpec
CONSTANTS
  o1 = o1
  o2 = o2
  Org = {o1, o2}
  Founders <- MCFounders
  Policy = {"sound", "incoherent"}
  Coherent = {"sound"}
  HandWritten = {"incoherent"}
  maxRepairAttempts = 1
  Bound <- MCBound
  ChecksAgents = FALSE
CHECK_DEADLOCK FALSE
INVARIANTS
  SpentWithinTenant
PROPERTIES
  AgentsGainNothing
  CompileEnds
