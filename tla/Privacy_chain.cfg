SPECIFICATION ChainSpec
CONSTANTS
  TrackBuffer = 1
  MaxTracks = 2
  People = {p, q}
  Nobody = nobody
  Settings <- AllSettings
  CacheTTL = 1
  MaxFrame = 3
INVARIANTS
  ExposureHasCause
  DecisionsFollowTracks
SYMMETRY PeopleSymmetry
CHECK_DEADLOCK FALSE
