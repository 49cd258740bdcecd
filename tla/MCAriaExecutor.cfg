SPECIFICATION Spec
CONSTANTS
  w1 = w1
  w2 = w2
  w3 = w3
  k1 = k1
  k2 = k2
  Workers = {w1, w2, w3}
  Keys = {k1, k2}
  MaxTid = 3
  MaxEpoch = 2
  Requests <- Payloads
  Assignments <- RacingOrAlone
  Arrival <- ArrivalFirst
INVARIANTS ReservationsHold CommitHasEffect SerializableAlone
CHECK_DEADLOCK FALSE
