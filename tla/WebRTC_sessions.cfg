SPECIFICATION Spec
CONSTANTS
  StreamKeys = {cam, door}
  Offerers = {h1, h2}
  Manager = manager
  MaxPeers = 1
  MaxSessions = 3
INVARIANTS
  NoOrphanPipeline
  PeersBounded
  HungOnlyIfRemoved
SYMMETRY OffererSymmetry
CHECK_DEADLOCK FALSE
