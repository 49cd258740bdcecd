SPECIFICATION Spec
CONSTANTS
  Receivers = {"local", "remote"}
  Local = "local"
  Digests = {1, 2}
  Signature = 0
  MaxSize = 2
  MaxBatches = 1
INVARIANT TidComputed
CHECK_DEADLOCK FALSE
