SPECIFICATION MCSpec
CONSTANTS
  Receivers = {"local", "remote"}
  Local = "local"
  MaxTx = 9
  MaxDelivered = 5
  MaxEpoch = 5
  MaxSize = 2
  MinSize = 2
  FirstEpoch = 3
  StubEpochSize = 3
INVARIANTS TransactionsKept BlocksComplete
PROPERTIES SentInOrder EpochProcessed
CHECK_DEADLOCK FALSE
