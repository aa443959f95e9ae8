SPECIFICATION Spec
CONSTANTS
  MaxMoment = 5
  PendingCap = 2
  TrackBuffer = 1
  MaxTracks = 3
INVARIANTS
  DuplicatesLeaveOne
  PairsInOrder
  NoPairBroken
PROPERTY NoIdReturns
CHECK_DEADLOCK FALSE
