SPECIFICATION Spec
CONSTANTS
  Tracks = {1, 2}
  Workers = {w1, w2}
  CacheTTL = 1
  MaxFrame = 4
  MaxReloads = 2
INVARIANTS
  UnknownRemainsAnonymized
CHECK_DEADLOCK FALSE
