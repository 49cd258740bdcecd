SPECIFICATION Spec
CONSTANTS
  w1 = w1
  w2 = w2
  w3 = w3
  k1 = k1
  k2 = k2
  Workers = {w1, w2}
  Keys = {k1, k2}
  MaxTid = 2
  MaxEpoch = 1
  Requests <- Payloads
  Assignments <- TwoWorkers
  Arrival <- ArrivalFirst
INVARIANT
  FirstAccessKept
CHECK_DEADLOCK FALSE
