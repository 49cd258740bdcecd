SPECIFICATION ExchangeSpec
CONSTANTS
  s1 = s1
  s2 = s2
  c1 = c1
  c2 = c2
  Threads = {t1, t2, t3, t4}
  Uses <- MCUses
  Servers = {s1, s2}
  Clients = {c1, c2}
  ServerOf <- MCServerOf
  MaxRequests = 2
  MaxBatch = 2
  TimeGap = 1
  MaxTime = 2
  MaxEpochNum = 3
INVARIANTS
  WaitersCounted
  HandedInOrder
PROPERTIES
  ImplementsBarrier
  ReturnsWhenReleased
  ImplementsNumbering
  AcknowledgedHanded
  EpochDelivered
CHECK_DEADLOCK FALSE
