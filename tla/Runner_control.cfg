SPECIFICATION Spec
CONSTANTS
  Configs <- TwoConfigs
  Startable <- TwoConfigs
  Doubled <- DoubledConfigs
  Boot = "boot"
  StreamsOf <- OneStream
  Watchers = {w1}
  SubscriberCapacity = 2
  StreamKeys = {"cam"}
  Offerers = {h1}
  MaxPeers = 1
  MaxSessions = 1
  MaxRuns = 3
INVARIANTS
  NothingAfterStopped
  StatusIsTrue
  FailedReloadKeepsConfig
  SessionsEndWithRun
CHECK_DEADLOCK FALSE
