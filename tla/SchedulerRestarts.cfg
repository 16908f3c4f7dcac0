SPECIFICATION Spec
CONSTANTS
  s1 = s1
  s2 = s2
  NoSchedule = NoSchedule
  Schedules <- One
  Seeded <- NoneSeeded
  SortKey <- Keyed
  RateLimited <- One
  MaxRetries <- OneRetry
  MaxConcurrent = 1
  Bound <- Restarts
INVARIANT
  RunningRowsOwned
PROPERTY
  LedgerSpec
CHECK_DEADLOCK FALSE
