SPECIFICATION FairSpec
CONSTANTS
  MaxStarts = 2
  MaxPrints = 2
  MaxFails = 1
  StoreMayFail = TRUE
  DrainBeforeRestart = TRUE
  MaxLives = 2
PROPERTIES
  DeadTunnelRestarts
  LatestIsAdvertised
CHECK_DEADLOCK FALSE
