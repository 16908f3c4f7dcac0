SPECIFICATION Spec
CONSTANTS
  full = full
  incr = incr
  a = a
  b = b
  c = c
  d = d
  NoListing = NoListing
  Runs <- OneRun
  Listings <- Four
  Bad <- NoneBad
  Searches = 1
  Mode <- Modes
  PageSize = 2
  MaxPages = 3
  StopKnown = 1
  MinKnown = 1
  UpdateEvery = 2
  InitialFeed <- Feed
  InitialStored <- OldRows
  Bound <- PublishOnly
  EnvKinds = 1
INVARIANT
  CleanRunIsStored
CHECK_DEADLOCK FALSE
