-------------------------- MODULE MCAriaCoordinator --------------------------
(***************************************************************************)
(* Model checking of AriaCoordinator (extended), and of AriaExecutor (Exec)*)
(* for its liveness, one of the two to a behaviour.  The cfg file scales   *)
(* the sizes of complie_config.h down; the sizes themselves satisfy the    *)
(* assumptions that the run and the proofs are made under.                 *)
(***************************************************************************)
EXTENDS AriaCoordinator

CONSTANTS w1, w2, k1, k2

ASSUME ConfiguredSizes ==
  LET scale      == 100
      maxBuffer  == 50 * scale   \* COORDINATOR_INPUT_MAX_BUFFER_SIZE
      perWorkMin == 5 * scale    \* COORDINATOR_MIN_TRANSACTION_PER_WORKLOAD
      perWorkMax == 10 * scale   \* COORDINATOR_MAX_TRANSACTION_PER_WORKLOAD
      batchMax   == 5 * scale    \* TR_MGR_GET_BATCH_MAX_SIZE
  IN  /\ batchMax + perWorkMin <= maxBuffer + 1
      /\ perWorkMin <= perWorkMax /\ perWorkMax <= maxBuffer

VARIABLES
  running,           \* the part that runs in this behaviour
  \* Exec; its epoch is currentEpoch
  tableId, tableEpoch, reserved, commitPhase, rwSetBuffer, store,
  currentEpoch, phase, live, todo, assignment, rwset, result,
  pc, cur, table, left, slot, old

executorVars ==
  <<tableId, tableEpoch, reserved, commitPhase, rwSetBuffer, store, currentEpoch,
    phase, live, todo, assignment, rwset, result, pc, cur, table, left, slot, old>>

-----------------------------------------------------------------------------
(* Three transactions, the first and the third on one worker and the       *)
(* second on another, with the requests of the chaincodes: one that it     *)
(* does not know, correct_test and crdt_gcounter on either key, and one    *)
(* that reads a key and writes the other.                                  *)
Access(R, W) == [ok |-> TRUE, rwset |-> ({"read"} \X R) \cup ({"write"} \X W)]
SomeRequests ==
  {[ok |-> FALSE, rwset |-> {}],
   Access({k1}, {k1}), Access({k2}, {k2}), Access({k1}, {k2})}
TwoWorkers == [request : [1..3 -> SomeRequests], home : {<<w1, w2, w1>>}]

Exec == INSTANCE AriaExecutor WITH
  Keys <- {k1, k2}, Workers <- {w1, w2}, MaxTid <- 3, MaxEpoch <- 3,
  Requests <- SomeRequests, Assignments <- TwoWorkers, Arrival <- <<1, 1, 1>>,
  epoch <- currentEpoch

EngineInit ==
  /\ running \in {"coordinator", "executor"}
  /\ Init /\ Exec!Init
  /\ running = "coordinator" => assignment = CHOOSE a \in TwoWorkers : TRUE

(* The executor's part stops when its transactions are decided, which is   *)
(* no deadlock; the coordinator goes on.                                   *)
EngineNext ==
  \/ running = "coordinator" /\ Next /\ UNCHANGED <<running, executorVars>>
  \/ running = "executor" /\ Exec!Next /\ UNCHANGED <<running, vars>>
  \/ running = "executor" /\ UNCHANGED <<running, vars, executorVars>>

\* AriaCoordinator!FairSpec's and AriaExecutor!FairSpec's, each for its own part.
EngineFairness ==
  /\ WF_vars(running = "coordinator" /\ CoordinatorStep)
  /\ \A w \in Workers : WF_vars(running = "coordinator" /\ WorkerStep(w))
  /\ WF_vars(running = "coordinator" /\ (AddTransaction \/ WaitForRoom))
  /\ \A w \in {w1, w2} :
       /\ WF_executorVars(running = "executor" /\ Exec!ExecuteStep(w))
       /\ WF_executorVars(running = "executor" /\ Exec!Commit(w))
  /\ WF_executorVars(running = "executor" /\ Exec!StartCommit)
  /\ WF_executorVars(running = "executor" /\ Exec!NextEpoch)

EngineSpec ==
  EngineInit /\ [][EngineNext]_<<running, vars, executorVars>> /\ EngineFairness

-----------------------------------------------------------------------------
\* Every transaction is decided in the end.
Decided == running = "executor" => Exec!Decided
=============================================================================
