SPECIFICATION FairSpec
CONSTANTS
  full = full
  incr = incr
  a = a
  b = b
  c = c
  d = d
  NoListing = NoListing
  Runs <- TwoRuns
  Listings <- Four
  Bad <- OneBad
  Searches = 2
  Mode <- Modes
  PageSize = 2
  MaxPages = 3
  StopKnown = 1
  MinKnown = 1
  UpdateEvery = 2
  InitialFeed <- Feed
  InitialStored <- OldRows
  Bound <- Everything
  EnvKinds = 1
INVARIANTS
  TypeOK
  CleanFullRunIsStored
  FullRunSeesAll
  IncrementalRunSeesNew
PROPERTY
  RunEnds
CHECK_DEADLOCK FALSE
