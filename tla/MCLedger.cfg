SPECIFICATION LedgerSpec
CONSTANTS
  Parts <- AllParts
  Servers = {s1, s2, s3}
  Skips = FALSE
  Lossy = FALSE
  MaxEpochNum = 3
  MaxPerServer = 3
  MaxPerEpoch = 2
  Tx = {1, 2}
  MaxEpoch = 3
  MaxCrashes = 2
  TornNumber = FALSE
INVARIANTS
  ElementsKept
  BlocksAccounted
  SameEpochs
  HoldsHashes
  TreeCovers
  DigestOfMessage
  DecodesEncoded
  ChainKept
SYMMETRY ServerSymmetry
CHECK_DEADLOCK FALSE
