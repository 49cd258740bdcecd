------------------------------- MODULE MCQueue -------------------------------
(***************************************************************************)
(* Model checking of the concurrent queue's parts, one to a behaviour: the *)
(* semaphore; the free list of blocks ("pool"); the table of the threads'  *)
(* sub-queues ("hash"); and the blocking queue over sub-queues and         *)
(* semaphore.  The sub-queue itself is in MCLedger.                        *)
(***************************************************************************)
EXTENDS LightweightSemaphore, FreeList, ProducerHash, TLC

VARIABLES
  running,           \* the part that runs in this behaviour
  \* Blocking
  tokens, producerList, elements, made, toSignal, dequeuer, overclaimed

blockingVars ==
  <<tokens, producerList, elements, made, toSignal, dequeuer, overclaimed>>
vars == <<running, semaphoreVars, poolVars, hashVars, blockingVars>>

\* All threads hash to the same place.
SameHash == [t \in HashThreads |-> 3]

Blocking == INSTANCE BlockingQueue WITH
  Producers <- Nodes, Consumers <- PoolThreads, none <- Null, MaxElements <- 2,
  MaxBulk <- 2, local <- dequeuer

QueueInit ==
  /\ running \in {"semaphore", "pool", "hash", "blocking"}
  /\ Init /\ PoolInit /\ HashInit /\ Blocking!Init
  /\ running # "pool" => owned[CHOOSE t \in PoolThreads : TRUE] = Nodes

QueueNext ==
  \/ /\ running = "semaphore" /\ Next
     /\ UNCHANGED <<running, poolVars, hashVars, blockingVars>>
  \/ /\ running = "pool" /\ PoolNext
     /\ UNCHANGED <<running, semaphoreVars, hashVars, blockingVars>>
  \/ /\ running = "hash" /\ HashNext
     /\ UNCHANGED <<running, semaphoreVars, poolVars, blockingVars>>
  \/ /\ running = "blocking" /\ Blocking!Next
     /\ UNCHANGED <<running, semaphoreVars, poolVars, hashVars>>

\* In the initial state of a part, nothing that its fairness forces is enabled.
QueueSpec ==
  /\ QueueInit /\ [][QueueNext]_vars
  /\ Fairness /\ PoolFairness /\ HashFairness /\ Blocking!Fairness

-----------------------------------------------------------------------------
\* A consumer that has tokens gets its elements.
DequeueReturns == Blocking!DequeueReturns
=============================================================================
