\* The epoch server advances although a server has no batch in the epoch.
SPECIFICATION LedgerSpec
CONSTANTS
  Parts <- ControllersOnly
  Servers = {s1, s2}
  Skips = TRUE
  Lossy = FALSE
  MaxEpochNum = 3
  MaxPerServer = 3
  MaxPerEpoch = 2
  Tx = {1, 2}
  MaxEpoch = 3
  MaxCrashes = 1
  TornNumber = FALSE
INVARIANT EpochChecksHold
CHECK_DEADLOCK FALSE
