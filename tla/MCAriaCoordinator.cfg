SPECIFICATION EngineSpec
CONSTANTS
  w1 = w1
  w2 = w2
  k1 = k1
  k2 = k2
  MaxTx = 5
  MaxEpoch = 4
  MaxWorkers = 3
  FirstEpoch = 2
  MaxBuffer = 3
  MinPerWorkload = 2
  MaxPerWorkload = 2
  MaxWrapper = 2
INVARIANTS
  TypeOK
  PhaseSeparation
  NoLostWakeup
  NoBufferDeadlock
  EpochComplete
PROPERTIES
  WorkloadUndisturbed
  ImplementsEngine
  FinishNotOverwritten
  EpochFinishes
  Decided
