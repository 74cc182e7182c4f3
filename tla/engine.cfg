SPECIFICATION Spec
CONSTANTS
  None = None
  Value <- SmallValue
  Directory <- SmallDirectory
  FirstYear = 2019
  LastYear = 2026
  Policies <- SmallPolicies
  Actions <- SmallActions
  Amounts = {1, 2}
  Moment <- SmallMoments
  MinutesInDay = 4
  MaxPaid = 2
CHECK_DEADLOCK FALSE
INVARIANTS
  NoPaymentOnClaims
  FirstPaymentByHuman
  LimitPerRealWindow
