SPECIFICATION FairClientSpec
CONSTANTS
  MaxCalls = 2
  Pages = {p1, p2}
  Operators = {p1}
  SubscriberCapacity = 1
  MaxVersion = 2
INVARIANTS
  LatestStatusShown
PROPERTY WatchIsRestored
CHECK_DEADLOCK FALSE
