SPECIFICATION ControlSpec
CONSTANTS
  Tracks = {1}
  Workers = {w1, w2}
  CacheTTL = 1
  MaxFrame = 2
  MaxReloads = 3
  Clients = {c1, c2}
  AutoRefresh = TRUE
  MaxIds = 1
  MaxRequests = 3
INVARIANTS
  InProgressHasWorker
  LeaksOnlyInFlight
  GalleryFollowsDatabase
  CommittedOnce
SYMMETRY UserSymmetry
CHECK_DEADLOCK FALSE
