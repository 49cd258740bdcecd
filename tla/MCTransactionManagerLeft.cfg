SPECIFICATION MCSpec
CONSTANTS
  Receivers = {"local", "remote"}
  Local = "local"
  MaxTx = 9
  MaxDelivered = 4
  MaxEpoch = 5
  MaxSize = 2
  MinSize = 2
  FirstEpoch = 3
  StubEpochSize = 3
INVARIANT BlockOfEpoch
CHECK_DEADLOCK FALSE
