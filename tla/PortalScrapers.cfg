SPECIFICATION Spec
CONSTANTS
  l1 = l1
  l2 = l2
  l3 = l3
  Listings <- MCListings
  StopKnown = 10
  MinKnown = 1
  RunPortals = {"inmuebles24", "lamudi", "propiedades", "properstar", "vivanuncios", "mercadolibre", "icasas", "properstar_http"}
  Callers = {"runner", "worker", "enrich"}
  Details = {TRUE, FALSE}
  Modes = {"full", "incremental"}
  Known <- MCKnown
  Pages <- MCPages
  PageSize = 3
  States = 2
  Operations = 2
  MaxPages = 2
  Budget = 4
  RotateAfter <- MCRotateAfter
  BlockLimit = 3
  Retries = 2
  StaleLimit = 2
  CallbackEvery = 2
  CallbackTail = 2
  Targets = 2
  Bound <- MCBound
  EnvKinds = 2
INVARIANTS
  TypeOK
  NothingLeftOpen
  StoredAsRead
  WastedFetchesBounded
