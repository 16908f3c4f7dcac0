SPECIFICATION FairSpec
CONSTANTS
  jalisco = jalisco
  yucatan = yucatan
  colima = colima
  a1 = a1
  STATES <- ThreeStates
  Volumes <- OneTier
  NumPlans = 2
  Reports <- SomeReports
  Requests <- OneRequest
  MaxRetries = 1
  Bound <- Events
  EnvKinds = 1
INVARIANTS
  TypeOK
  AssignmentIsFair
  StatesCoveredOnce
  RunningJobsAccounted
PROPERTIES
  LifecycleKept
  CycleAndTasksEnd
CHECK_DEADLOCK FALSE
