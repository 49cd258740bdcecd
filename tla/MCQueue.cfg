SPECIFICATION QueueSpec
CONSTANTS
  PoolThreads = {t1, t2}
  Nodes = {n1, n2}
  Null = null
  SHOULD_BE_ON_FREELIST = 8
  HashThreads = {t1, t2}
  invalid_thread_id = null
  HashedId <- SameHash
  INITIAL_IMPLICIT_PRODUCER_HASH_SIZE = 1
  MaxFailures = 2
  Waiters = {w1, w2}
  Signallers = {g1, g2}
  MaxTokens = 2
  MaxMany = 2
  MaxSpins = 1
  Timeouts = {"zero", "some"}
INVARIANTS
  SemaphoreKept
  PoolKept
  OneProducerEach
PROPERTIES
  ImplementsSemaphore
  NoTokenIdle
  ImplementsPool
  CallsReturn
  DequeueReturns
CHECK_DEADLOCK FALSE
