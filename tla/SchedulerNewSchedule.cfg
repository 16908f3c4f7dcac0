SPECIFICATION FairSpec
CONSTANTS
  s1 = s1
  s2 = s2
  NoSchedule = NoSchedule
  Schedules <- One
  Seeded <- NoneSeeded
  SortKey <- Keyed
  RateLimited <- One
  MaxRetries <- NoRetries
  MaxConcurrent = 1
  Bound <- EditOnly
PROPERTIES
  EnabledGetsNextRun
CHECK_DEADLOCK FALSE
