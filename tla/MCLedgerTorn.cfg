\* A crash may come between the truncation of block_num.txt and its write.
SPECIFICATION LedgerSpec
CONSTANTS
  Parts <- StorageOnly
  Servers = {s1, s2}
  Skips = FALSE
  Lossy = FALSE
  MaxEpochNum = 3
  MaxPerServer = 3
  MaxPerEpoch = 2
  Tx = {1, 2}
  MaxEpoch = 3
  MaxCrashes = 1
  TornNumber = TRUE
PROPERTY LatestIsMax
CHECK_DEADLOCK FALSE
