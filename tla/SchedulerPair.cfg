SPECIFICATION Spec
CONSTANTS
  s1 = s1
  s2 = s2
  NoSchedule = NoSchedule
  Schedules <- Two
  Seeded <- Two
  SortKey <- SameKey
  RateLimited <- One
  MaxRetries <- OneRetry
  MaxConcurrent = 1
  Bound <- Faults
INVARIANTS
  TypeOK
  SemaphoreAccounting
  RegistryNeverStale
  RetryFollowsFailure
  OverlapsAccounted
  CutsAccounted
CHECK_DEADLOCK FALSE
