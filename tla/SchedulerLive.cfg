SPECIFICATION FairSpec
CONSTANTS
  s1 = s1
  s2 = s2
  NoSchedule = NoSchedule
  Schedules <- Two
  Seeded <- Two
  SortKey <- Keyed
  RateLimited <- One
  MaxRetries <- OneRetry
  MaxConcurrent = 1
  Bound <- Progress
PROPERTIES
  DueIsLaunched
  ShutdownCompletes
CHECK_DEADLOCK FALSE
