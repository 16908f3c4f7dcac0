SPECIFICATION Spec
CONSTANTS
  lamudi = lamudi
  icasas = icasas
  cycle = cycle
  rebuild = rebuild
  s1 = s1
  s2 = s2
  flat = flat
  usd = usd
  dearer = dearer
  wild = wild
  NumListings = 3
  PortalOf <- Portals
  Values <- SomeValues
  Says <- Sayings
  RawOf <- Rows
  Pipelines <- Runs
  Rebuilds <- ByHand
  Syncs <- TwoSyncs
  BatchSize = 2
  Bound <- Events
  EnvKinds = 2
INVARIANTS
  TypeOK
  CleanOnce
  PricedIsClean
  ClustersAreWhole
  ArchiveFresh
CHECK_DEADLOCK FALSE
