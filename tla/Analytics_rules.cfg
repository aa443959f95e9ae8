SPECIFICATION Spec
CONSTANTS
  Rules = {gate}
  Tracks = {t1}
  Clients = {c1, c2}
  QueueCapacity = 1
  DropPolicy = "drop_oldest"
  MaxFrames = 3
  MaxRequests = 3
INVARIANTS
  RulesAgreeUnlessRaced
  NoStoredRuleMissing
  EventsMatchEngine
  GhostsOnlyOfLapsedRules
SYMMETRY ClientSymmetry
CHECK_DEADLOCK FALSE
