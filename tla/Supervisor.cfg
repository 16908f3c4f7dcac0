SPECIFICATION FairSpec
CONSTANTS
  d1 = d1
  d2 = d2
  q1 = q1
  price = price
  bedrooms = bedrooms
  None = None
  Diags <- TwoDiags
  Requests <- OneRequest
  Fields <- TwoFields
  Configs <- OtherConfigs
  InitialConfig <- Default
  Suggestions <- SomeLists
  Bound <- Events
  EnvKinds = 2
INVARIANTS
  TypeOK
  BudgetOvershoot
  OverridesAccounted
  AppliedIsInForce
  
PROPERTY
  RunCloses
CHECK_DEADLOCK FALSE
