SPECIFICATION Spec
CONSTANTS
  w1 = w1
  w2 = w2
  w3 = w3
  k1 = k1
  k2 = k2
  Workers = {w1}
  Keys = {k1, k2}
  MaxTid = 2
  MaxEpoch = 1
  Requests <- Payloads
  Assignments <- OnDifferentKeys
  Arrival <- ArrivalFirst
INVARIANT
  CommittedIsStored
CHECK_DEADLOCK FALSE
