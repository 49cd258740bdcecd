--------------------------- MODULE AriaCoordinator ---------------------------
(***************************************************************************)
(* The epoch engine of a block server: the coordinator thread              *)
(* (AriaCoordinator::run), its worker threads (AriaWorker::run) and the    *)
(* transaction manager thread as far as it drives them                     *)
(* (TransactionManagerImpl::run, wired to the coordinator in server.cpp).  *)
(*                                                                         *)
(* A mutex-protected critical section is one action.  Each condition       *)
(* variable has at most one thread waiting on it, so one set of sleeping   *)
(* threads and the sleepers' program counters tell who waits for what.     *)
(* notify_one takes the waiter out of the set; SpuriousWakeup does the     *)
(* same without a notification.                                            *)
(*                                                                         *)
(* Transactions are the numbers 1..MaxTx in the order in which the manager *)
(* obtains them.  A retried transaction runs a second time in a later      *)
(* epoch and counts as a new one here.                                     *)
(***************************************************************************)
EXTENDS Naturals, SequencesExt

CONSTANTS
  MaxTx,           \* bound: how many transactions are ever sent
  MaxEpoch,        \* bound: the last epoch a transaction may belong to
  MaxWorkers,      \* bound: how many worker threads may be created
  FirstEpoch,      \* the manager's initial epoch, last saved block + 1
  MaxBuffer,       \* COORDINATOR_INPUT_MAX_BUFFER_SIZE
  MinPerWorkload,  \* COORDINATOR_MIN_TRANSACTION_PER_WORKLOAD
  MaxPerWorkload,  \* COORDINATOR_MAX_TRANSACTION_PER_WORKLOAD
  MaxWrapper       \* TR_MGR_GET_BATCH_MAX_SIZE

ASSUME SizesAssumption ==
  /\ MaxTx \in Nat /\ MaxEpoch \in Nat /\ MaxWorkers \in Nat
  /\ FirstEpoch \in Nat \ {0}
  /\ MaxBuffer \in Nat /\ MaxWrapper \in Nat
  /\ MinPerWorkload \in Nat \ {0}
  /\ MaxPerWorkload \in Nat \ {0}

(* The configured sizes, 500 + 500 <= 5000 + 1: a wrapper that does not    *)
(* fit leaves at least one workload's worth of transactions buffered.      *)
ASSUME BufferAssumption == MaxWrapper + MinPerWorkload <= MaxBuffer + 1

Tx      == 1..MaxTx
Workers == 1..MaxWorkers

\* The threads that can sleep on a condition variable: worker w is the number w.
Coordinator == 0
Manager     == MaxWorkers + 1
Threads     == 0..(MaxWorkers + 1)

VARIABLES
  \* the coordinator thread
  cpc,               \* where it is
  cursor,            \* the worker its current loop over `workers' is at
  globalState,       \* AriaCoordinator::globalState
  epochChan,         \* the epoch being processed
  workload,          \* the packed workload that is not deployed yet
  \* the workers, functions of the worker's id
  numWorkers,        \* workers 1..numWorkers exist (IDNounce - 1)
  wpc,               \* where worker w is in AriaWorker::run
  workerState,       \* WorkerInstance::workerState
  ariaGlobalState,   \* WorkerInstance::ariaGlobalState, the signal to worker w
  load,              \* WorkerInstance::workload
  \* shared with the manager
  transactionBuffer,
  lastEpochFinishSignal,
  asleep,            \* the threads blocked in a condition variable's wait
  \* the manager thread
  mpc,
  epoch,             \* TransactionManagerImpl::epoch
  sendEpoch,         \* the epoch of the last wrapper it obtained
  trWrapper,         \* the wrapper it is handing over
  numSent,           \* transactions 1..numSent have been obtained so far
  epochOf,           \* their epochs; 0 for a transaction not obtained yet
  \* history: how often each transaction was executed and committed
  nExec, nCommit

coordVars   == <<cpc, cursor, globalState, epochChan, workload>>
workerVars  == <<numWorkers, wpc, workerState, ariaGlobalState, load>>
managerVars == <<mpc, epoch, sendEpoch, trWrapper, numSent, epochOf>>
historyVars == <<nExec, nCommit>>
vars == <<coordVars, workerVars, managerVars, historyVars,
          transactionBuffer, lastEpochFinishSignal, asleep>>

-----------------------------------------------------------------------------
(* enum AriaGlobalState without EXIT, which only ~AriaCoordinator          *)
(* broadcasts: run() never returns and the coordinator is never destroyed. *)
GlobalStates == {"START", "READ", "COMMIT"}

(* enum WorkerState without the deprecated FINISH_COMMIT and without       *)
(* EXITED (set on EXIT only); NONE: the worker has not been created.       *)
WorkerStates == {"NONE", "READY", "ASSIGNED", "FINISH_READ"}

CoordinatorPcs == {"start", "broadcast", "getWorkload", "deploy", "created",
                   "kick", "sync", "syncWait", "signal", "advance"}
WorkerPcs == {"none", "init", "waitRead", "execute", "finishRead",
              "waitCommit", "commit", "finishCommit"}
ManagerPcs == {"run", "add"}

Init ==
  /\ cpc = "start" /\ cursor = 1 /\ globalState = "START"
  /\ epochChan = 1 /\ workload = <<>>
  /\ numWorkers = 0
  /\ wpc = [w \in Workers |-> "none"]
  /\ workerState = [w \in Workers |-> "NONE"]
  /\ ariaGlobalState = [w \in Workers |-> "START"]
  /\ load = [w \in Workers |-> <<>>]
  /\ transactionBuffer = <<>>
  /\ lastEpochFinishSignal = FirstEpoch - 1
  /\ asleep = {}
  /\ mpc = "run" /\ epoch = FirstEpoch /\ sendEpoch = FirstEpoch
  /\ trWrapper = <<>> /\ numSent = 0
  /\ epochOf = [t \in Tx |-> 0]
  /\ nExec = [t \in Tx |-> 0]
  /\ nCommit = [t \in Tx |-> 0]

-----------------------------------------------------------------------------
(* Condition variables.                                                    *)

Wait(t) == asleep' = asleep \cup {t}

\* worker->notifyConsume(): worker w is the only thread waiting on it.
MutantNotifyConsume(w) == UNCHANGED asleep
NotifyConsume(w) == asleep' = asleep \ {w}

\* worker->notifyPruduce(): the coordinator may be waiting for this worker.
NotifyProduce(w) ==
  asleep' = IF cpc \in {"created", "syncWait"} /\ cursor = w
            THEN asleep \ {Coordinator} ELSE asleep

\* The coordinator's `consume': the coordinator waits on it in getWorkload.
MutantNotifyBuffer == UNCHANGED asleep
NotifyBuffer ==
  asleep' = IF cpc = "getWorkload" THEN asleep \ {Coordinator} ELSE asleep

\* The coordinator's `produce': the manager waits on it in addTransaction.
NotifyManager == asleep' = asleep \ {Manager}

SpuriousWakeup ==
  /\ \E t \in asleep : asleep' = asleep \ {t}
  /\ UNCHANGED <<coordVars, workerVars, managerVars, historyVars,
                 transactionBuffer, lastEpochFinishSignal>>

-----------------------------------------------------------------------------
(* The coordinator thread, AriaCoordinator::mainRoutine.                   *)

Start ==
  /\ cpc = "start"
  /\ cpc' = "broadcast" /\ cursor' = 1 /\ globalState' = "START"
  /\ UNCHANGED <<epochChan, workload, workerVars, managerVars, historyVars,
                 transactionBuffer, lastEpochFinishSignal, asleep>>

\* broadcastToAllWorker, one worker; READ and COMMIT skip READY workers.
BroadcastWorker ==
  /\ cpc = "broadcast" /\ cursor <= numWorkers
  /\ cursor' = cursor + 1
  /\ \/ /\ globalState # "START" /\ workerState[cursor] = "READY"
        /\ UNCHANGED <<ariaGlobalState, asleep>>
     \/ /\ globalState = "START" \/ workerState[cursor] # "READY"
        /\ ariaGlobalState' = [ariaGlobalState EXCEPT ![cursor] = globalState]
        /\ NotifyConsume(cursor)
  /\ UNCHANGED <<cpc, globalState, epochChan, workload,
                 numWorkers, wpc, workerState, load,
                 managerVars, historyVars, transactionBuffer, lastEpochFinishSignal>>

BroadcastDone ==
  /\ cpc = "broadcast" /\ cursor > numWorkers
  /\ cpc' = IF globalState = "START" THEN "getWorkload" ELSE "sync"
  /\ cursor' = 1
  /\ UNCHANGED <<globalState, epochChan, workload, workerVars, managerVars,
                 historyVars, transactionBuffer, lastEpochFinishSignal, asleep>>

\* The predicate of getWorkload's wait.
MutantWorkAvailable ==
  /\ transactionBuffer # <<>>
  /\ \/ epochOf[Last(transactionBuffer)] > epochChan
     \/ Len(transactionBuffer) > MinPerWorkload
WorkAvailable ==
  /\ transactionBuffer # <<>>
  /\ \/ epochOf[Last(transactionBuffer)] > epochChan
     \/ Len(transactionBuffer) >= MinPerWorkload

WaitForWork ==
  /\ cpc = "getWorkload" /\ Coordinator \notin asleep
  /\ ~WorkAvailable
  /\ Wait(Coordinator)
  /\ UNCHANGED <<coordVars, workerVars, managerVars, historyVars,
                 transactionBuffer, lastEpochFinishSignal>>

\* The oldest transaction is of a later epoch: no workload is left for this one.
MutantEpochEmpty == epochOf[Last(transactionBuffer)] > epochChan
EpochEmpty == epochOf[Head(transactionBuffer)] > epochChan

CloseEpoch ==
  /\ cpc = "getWorkload" /\ Coordinator \notin asleep
  /\ WorkAvailable
  /\ EpochEmpty
  /\ cpc' = "broadcast" /\ cursor' = 1 /\ globalState' = "READ"
  /\ UNCHANGED <<epochChan, workload, workerVars, managerVars, historyVars,
                 transactionBuffer, lastEpochFinishSignal, asleep>>

\* The do-while takes the first transaction in any case, then those of this
\* epoch, up to the largest workload.
PackSize(n) ==
  /\ n <= MaxPerWorkload
  /\ \A i \in 2..n : epochOf[transactionBuffer[i]] = epochChan
  /\ n < MaxPerWorkload /\ n < Len(transactionBuffer)
       => epochOf[transactionBuffer[n + 1]] # epochChan

PackWorkload ==
  /\ cpc = "getWorkload" /\ Coordinator \notin asleep
  /\ WorkAvailable
  /\ ~EpochEmpty
  /\ \E n \in 1..Len(transactionBuffer) :
       /\ PackSize(n)
       /\ workload' = SubSeq(transactionBuffer, 1, n)
       /\ transactionBuffer' = SubSeq(transactionBuffer, n + 1, Len(transactionBuffer))
  /\ NotifyManager
  /\ cpc' = "deploy" /\ cursor' = 1
  /\ UNCHANGED <<globalState, epochChan, workerVars, managerVars, historyVars,
                 lastEpochFinishSignal>>

MutantIdle(w) == workerState[w] # "ASSIGNED"
Idle(w) == workerState[w] = "READY"

\* deployWorkload: the loop passes the busy workers ...
MutantSkipBusyWorker ==
  /\ cpc = "deploy"
  /\ cursor' = cursor + 1
  /\ UNCHANGED <<cpc, globalState, epochChan, workload, workerVars, managerVars,
                 historyVars, transactionBuffer, lastEpochFinishSignal, asleep>>
SkipBusyWorker ==
  /\ cpc = "deploy" /\ cursor <= numWorkers
  /\ ~Idle(cursor)
  /\ cursor' = cursor + 1
  /\ UNCHANGED <<cpc, globalState, epochChan, workload, workerVars, managerVars,
                 historyVars, transactionBuffer, lastEpochFinishSignal, asleep>>

\* ... and gives the workload to the first READY one, without its mutex ...
DeployWorkload ==
  /\ cpc = "deploy" /\ cursor <= numWorkers
  /\ Idle(cursor)
  /\ load' = [load EXCEPT ![cursor] = workload]
  /\ workerState' = [workerState EXCEPT ![cursor] = "ASSIGNED"]
  /\ workload' = <<>>
  /\ cpc' = "kick"
  /\ UNCHANGED <<cursor, globalState, epochChan, numWorkers, wpc, ariaGlobalState,
                 managerVars, historyVars, transactionBuffer,
                 lastEpochFinishSignal, asleep>>

\* ... or starts a new worker for it.
CreateWorker ==
  /\ cpc = "deploy" /\ cursor > numWorkers
  /\ numWorkers < MaxWorkers
  /\ numWorkers' = numWorkers + 1
  /\ wpc' = [wpc EXCEPT ![cursor] = "init"]
  /\ workerState' = [workerState EXCEPT ![cursor] = "READY"]
  /\ ariaGlobalState' = [ariaGlobalState EXCEPT ![cursor] = globalState]
  /\ load' = [load EXCEPT ![cursor] = workload]
  /\ workload' = <<>>
  /\ cpc' = "created"
  /\ UNCHANGED <<cursor, globalState, epochChan, managerVars, historyVars,
                 transactionBuffer, lastEpochFinishSignal, asleep>>

\* syncWorkerState(id, ASSIGNED) of createWorker.
SyncCreated ==
  /\ cpc = "created" /\ Coordinator \notin asleep
  /\ \/ /\ workerState[cursor] = "ASSIGNED"
        /\ cpc' = "kick"
        /\ UNCHANGED asleep
     \/ /\ workerState[cursor] # "ASSIGNED"
        /\ Wait(Coordinator)
        /\ UNCHANGED cpc
  /\ UNCHANGED <<cursor, globalState, epochChan, workload, workerVars, managerVars,
                 historyVars, transactionBuffer, lastEpochFinishSignal>>

\* setWorkerState(id, Aria_READ): the worker may read while others get work.
Kick ==
  /\ cpc = "kick"
  /\ ariaGlobalState' = [ariaGlobalState EXCEPT ![cursor] = "READ"]
  /\ NotifyConsume(cursor)
  /\ cpc' = "getWorkload" /\ cursor' = 1
  /\ UNCHANGED <<globalState, epochChan, workload, numWorkers, wpc, workerState, load,
                 managerVars, historyVars, transactionBuffer, lastEpochFinishSignal>>

\* What syncAllWorker waits for in the phase of globalState.
SyncTarget == IF globalState = "READ" THEN "FINISH_READ" ELSE "READY"

MutantReached(w) == TRUE
Reached(w) == workerState[w] = SyncTarget

\* syncAllWorker: READY workers are passed, on entering the loop body only.
SyncWorker ==
  /\ cpc = "sync" /\ cursor <= numWorkers
  /\ \/ /\ workerState[cursor] = "READY" \/ workerState[cursor] = SyncTarget
        /\ cursor' = cursor + 1
        /\ UNCHANGED <<cpc, asleep>>
     \/ /\ workerState[cursor] # "READY" /\ workerState[cursor] # SyncTarget
        /\ cpc' = "syncWait"
        /\ Wait(Coordinator)
        /\ UNCHANGED cursor
  /\ UNCHANGED <<globalState, epochChan, workload, workerVars, managerVars,
                 historyVars, transactionBuffer, lastEpochFinishSignal>>

SyncWake ==
  /\ cpc = "syncWait" /\ Coordinator \notin asleep
  /\ \/ /\ Reached(cursor)
        /\ cpc' = "sync" /\ cursor' = cursor + 1
        /\ UNCHANGED asleep
     \/ /\ ~Reached(cursor)
        /\ Wait(Coordinator)
        /\ UNCHANGED <<cpc, cursor>>
  /\ UNCHANGED <<globalState, epochChan, workload, workerVars, managerVars,
                 historyVars, transactionBuffer, lastEpochFinishSignal>>

ReadDone ==
  /\ cpc = "sync" /\ cursor > numWorkers /\ globalState = "READ"
  /\ cpc' = "broadcast" /\ cursor' = 1 /\ globalState' = "COMMIT"
  /\ UNCHANGED <<epochChan, workload, workerVars, managerVars, historyVars,
                 transactionBuffer, lastEpochFinishSignal, asleep>>

CommitDone ==
  /\ cpc = "sync" /\ cursor > numWorkers /\ globalState = "COMMIT"
  /\ cpc' = "signal" /\ cursor' = 1
  /\ UNCHANGED <<globalState, epochChan, workload, workerVars, managerVars,
                 historyVars, transactionBuffer, lastEpochFinishSignal, asleep>>

\* The callback of server.cpp stores the epoch; the manager polls it.
Signal ==
  /\ cpc = "signal"
  /\ lastEpochFinishSignal' = epochChan
  /\ cpc' = "advance"
  /\ UNCHANGED <<cursor, globalState, epochChan, workload, workerVars, managerVars,
                 historyVars, transactionBuffer, asleep>>

Advance ==
  /\ cpc = "advance"
  /\ epochChan' = epochChan + 1
  /\ cpc' = "start"
  /\ UNCHANGED <<cursor, globalState, workload, workerVars, managerVars, historyVars,
                 transactionBuffer, lastEpochFinishSignal, asleep>>

CoordinatorStep ==
  \/ Start \/ BroadcastWorker \/ BroadcastDone
  \/ WaitForWork \/ CloseEpoch \/ PackWorkload
  \/ SkipBusyWorker \/ DeployWorkload \/ CreateWorker \/ SyncCreated \/ Kick
  \/ SyncWorker \/ SyncWake \/ ReadDone \/ CommitDone \/ Signal \/ Advance

-----------------------------------------------------------------------------
(* A worker thread, AriaWorker::run.                                       *)

\* setWorkerState(s), then go on at `next'.
Report(w, from, s, next) ==
  /\ wpc[w] = from
  /\ workerState' = [workerState EXCEPT ![w] = s]
  /\ NotifyProduce(w)
  /\ wpc' = [wpc EXCEPT ![w] = next]
  /\ UNCHANGED <<coordVars, numWorkers, ariaGlobalState, load, managerVars,
                 historyVars, transactionBuffer, lastEpochFinishSignal>>

ReportAssigned(w)   == Report(w, "init", "ASSIGNED", "waitRead")
ReportFinishRead(w) == Report(w, "finishRead", "FINISH_READ", "waitCommit")
ReportReady(w)      == Report(w, "finishCommit", "READY", "waitRead")

\* waitForSignal(s), then go on at `next'.
WaitForSignal(w, from, s, next) ==
  /\ wpc[w] = from /\ w \notin asleep
  /\ \/ /\ ariaGlobalState[w] = s
        /\ wpc' = [wpc EXCEPT ![w] = next]
        /\ UNCHANGED asleep
     \/ /\ ariaGlobalState[w] # s
        /\ Wait(w)
        /\ UNCHANGED wpc
  /\ UNCHANGED <<coordVars, numWorkers, workerState, ariaGlobalState, load,
                 managerVars, historyVars, transactionBuffer, lastEpochFinishSignal>>

MutantWaitForCommit(w) == WaitForSignal(w, "waitCommit", "READ", "commit")
WaitForRead(w)   == WaitForSignal(w, "waitRead", "READ", "execute")
WaitForCommit(w) == WaitForSignal(w, "waitCommit", "COMMIT", "commit")

\* A count of the history, which only tells none, one and more apart.
CountMax == 2
Counted(count, s) ==
  [t \in Tx |-> IF t \in Range(s) /\ count[t] < CountMax THEN count[t] + 1 ELSE count[t]]

ExecuteList(w) ==
  /\ wpc[w] = "execute"
  /\ nExec' = Counted(nExec, load[w])
  /\ wpc' = [wpc EXCEPT ![w] = "finishRead"]
  /\ UNCHANGED <<coordVars, numWorkers, workerState, ariaGlobalState, load, managerVars,
                 nCommit, transactionBuffer, lastEpochFinishSignal, asleep>>

CommitList(w) ==
  /\ wpc[w] = "commit"
  /\ nCommit' = Counted(nCommit, load[w])
  /\ wpc' = [wpc EXCEPT ![w] = "finishCommit"]
  /\ UNCHANGED <<coordVars, numWorkers, workerState, ariaGlobalState, load, managerVars,
                 nExec, transactionBuffer, lastEpochFinishSignal, asleep>>

WorkerStep(w) ==
  \/ ReportAssigned(w) \/ WaitForRead(w) \/ ExecuteList(w) \/ ReportFinishRead(w)
  \/ WaitForCommit(w) \/ CommitList(w) \/ ReportReady(w)

-----------------------------------------------------------------------------
(* The manager thread, TransactionManagerImpl::run.                        *)

(* It obtains transactions of its epoch or of the one after it, and the    *)
(* communication module never goes back to an earlier epoch.               *)
MutantTooFarAhead(e) == e \in epoch..epoch + 2 /\ e >= sendEpoch
InOrder(e) == e \in {epoch, epoch + 1} /\ e >= sendEpoch

\* sendTransactionHandle with a wrapper of k transactions of epoch e.
Send(e, k) ==
  /\ trWrapper' = [i \in 1..k |-> numSent + i]
  /\ numSent' = numSent + k
  /\ epochOf' = [t \in Tx |-> IF t \in numSent + 1..numSent + k THEN e ELSE epochOf[t]]
  /\ sendEpoch' = e
  /\ mpc' = "add"

ObtainWrapper(e, k) ==
  /\ mpc = "run"
  /\ InOrder(e)
  /\ Send(e, k)
  /\ UNCHANGED <<epoch, coordVars, workerVars, historyVars, transactionBuffer,
                 lastEpochFinishSignal, asleep>>

\* addTransaction: the wrapper is emptied from its back into the buffer.
AddTransaction ==
  /\ mpc = "add" /\ Manager \notin asleep
  /\ Len(transactionBuffer) + Len(trWrapper) <= MaxBuffer
  /\ transactionBuffer' = transactionBuffer \o Reverse(trWrapper)
  /\ trWrapper' = <<>>
  /\ NotifyBuffer
  /\ mpc' = "run"
  /\ UNCHANGED <<epoch, sendEpoch, numSent, epochOf, coordVars, workerVars,
                 historyVars, lastEpochFinishSignal>>

WaitForRoom ==
  /\ mpc = "add" /\ Manager \notin asleep
  /\ Len(transactionBuffer) + Len(trWrapper) > MaxBuffer
  /\ Wait(Manager)
  /\ UNCHANGED <<coordVars, workerVars, managerVars, historyVars,
                 transactionBuffer, lastEpochFinishSignal>>

(* The signal names the manager's epoch: the k aborted transactions are    *)
(* sent again with the next epoch, in a wrapper that may be empty.  The    *)
(* full ones that precede it when there are many count as obtained.        *)
FinishEpoch(k) ==
  /\ mpc = "run"
  /\ lastEpochFinishSignal = epoch
  /\ epoch' = epoch + 1
  /\ Send(epoch + 1, k)
  /\ UNCHANGED <<coordVars, workerVars, historyVars, transactionBuffer,
                 lastEpochFinishSignal, asleep>>

ManagerStep ==
  \/ \E e \in 1..MaxEpoch, k \in 1..MaxWrapper :
        numSent + k <= MaxTx /\ ObtainWrapper(e, k)
  \/ \E k \in 0..MaxWrapper :
        /\ numSent + k <= MaxTx
        /\ k > 0 => epoch < MaxEpoch
        /\ FinishEpoch(k)
  \/ AddTransaction \/ WaitForRoom

-----------------------------------------------------------------------------
Next ==
  \/ CoordinatorStep
  \/ \E w \in Workers : WorkerStep(w)
  \/ ManagerStep
  \/ SpuriousWakeup

Spec == Init /\ [][Next]_vars

(* The scheduler runs every thread that can run.  Nothing makes            *)
(* transactions arrive, and a wakeup without notification need not happen. *)
FairSpec ==
  /\ Spec
  /\ WF_vars(CoordinatorStep)
  /\ \A w \in Workers : WF_vars(WorkerStep(w))
  /\ WF_vars(AddTransaction \/ WaitForRoom)

-----------------------------------------------------------------------------
(* Every variable stays in the values the code gives it.                   *)
TypeOK ==
  /\ cpc \in CoordinatorPcs /\ cursor \in 1..(MaxWorkers + 1)
  /\ globalState \in GlobalStates
  /\ epochChan \in Nat \ {0} /\ workload \in Seq(Tx)
  /\ numWorkers \in 0..MaxWorkers
  /\ wpc \in [Workers -> WorkerPcs]
  /\ workerState \in [Workers -> WorkerStates]
  /\ ariaGlobalState \in [Workers -> GlobalStates]
  /\ load \in [Workers -> Seq(Tx)]
  /\ transactionBuffer \in Seq(Tx)
  /\ lastEpochFinishSignal \in Nat
  /\ asleep \subseteq Threads
  /\ mpc \in ManagerPcs /\ epoch \in Nat \ {0} /\ sendEpoch \in Nat \ {0}
  /\ trWrapper \in Seq(Tx) /\ numSent \in 0..MaxTx
  /\ epochOf \in [Tx -> Nat]
  /\ nExec \in [Tx -> 0..CountMax] /\ nCommit \in [Tx -> 0..CountMax]

(* No worker executes transactions, filling the write buffer and the       *)
(* reserve table, while another commits, reading the table and clearing    *)
(* the buffer.  DatabaseImpl::bufferUpdates relies on it: "all the      *)
(* worker has one unique coordinator" (database_impl.cpp:31-33).           *)
PhaseSeparation ==
  \A v, w \in Workers : ~(wpc[v] = "execute" /\ wpc[w] = "commit")

(* When an epoch is announced as finished, every transaction the manager   *)
(* has obtained for it went through executeList once and through           *)
(* commitList once, and none of a later epoch has been started: the        *)
(* manager reads the results of exactly these transactions, and the block  *)
(* it makes of them is the same on every server.                           *)
EpochDecided ==
  cpc = "advance" =>
    \A t \in 1..numSent :
      /\ nExec[t] = IF epochOf[t] <= epochChan THEN 1 ELSE 0
      /\ nCommit[t] = nExec[t]

(* The DCHECKs of getWorkload (AriaCoordinator.cpp:198-199): the buffer    *)
(* never holds a transaction of an epoch that was closed already.  Release *)
(* builds would process it in the wrong epoch.                             *)
NoStaleTransaction ==
  cpc = "getWorkload" =>
    \A i \in 1..Len(transactionBuffer) : epochOf[transactionBuffer[i]] >= epochChan

\* An epoch has all its transactions and no other's.
EpochComplete == EpochDecided /\ NoStaleTransaction

CoordinatorWaits ==
  Coordinator \in asleep =>
    \/ cpc = "getWorkload" /\ ~WorkAvailable
    \/ cpc = "created" /\ workerState[cursor] # "ASSIGNED"
    \/ cpc = "syncWait" /\ workerState[cursor] # SyncTarget

ManagerWaits ==
  Manager \in asleep =>
    mpc = "add" /\ Len(transactionBuffer) + Len(trWrapper) > MaxBuffer

WorkersWait ==
  \A w \in Workers : w \in asleep =>
    \/ wpc[w] = "waitRead" /\ ariaGlobalState[w] # "READ"
    \/ wpc[w] = "waitCommit" /\ ariaGlobalState[w] # "COMMIT"

(* The condition a sleeping thread sleeps on is false: its state was not   *)
(* changed after the thread looked at it without a notification reaching   *)
(* the thread (deployWorkload, for one, changes a worker's state without   *)
(* its mutex and notifies nobody).                                         *)
NoLostWakeup == CoordinatorWaits /\ ManagerWaits /\ WorkersWait

(* The manager does not wait for room in the buffer while the coordinator  *)
(* waits for more transactions in it: what the sizes in complie_config.h   *)
(* are chosen for.                                                         *)
NoBufferDeadlock ==
  ~(Coordinator \in asleep /\ cpc = "getWorkload" /\ Manager \in asleep)

(* lastEpochFinishSignal is one variable that the manager compares for     *)
(* equality with its epoch: a finish it has not taken notice of must not   *)
(* be overwritten by that of the next epoch, or it would wait forever.     *)
FinishNotOverwritten ==
  [][ /\ lastEpochFinishSignal' # lastEpochFinishSignal
      /\ lastEpochFinishSignal >= FirstEpoch
      => epoch > lastEpochFinishSignal ]_vars

(* deployWorkload replaces a worker's workload without taking its mutex:   *)
(* the worker is then in front of its wait for READ, with no READ pending. *)
WorkloadUndisturbed ==
  [][ \A w \in 1..numWorkers : load'[w] # load[w] =>
        wpc[w] = "waitRead" /\ ariaGlobalState[w] # "READ" ]_vars

(* An epoch is processed to its end as soon as a transaction of a later    *)
(* epoch is buffered behind it.                                            *)
EpochFinishes ==
  \A e \in 1..MaxEpoch :
    (epochChan = e /\ transactionBuffer # <<>> /\ epochOf[Last(transactionBuffer)] > e)
      ~> epochChan > e

-----------------------------------------------------------------------------
(* The three phases of an epoch as the coordinator goes through them.      *)
EnginePhase ==
  CASE cpc = "advance"                             -> "done"
    [] cpc # "start" /\ cpc # "advance"
         /\ globalState = "COMMIT"                 -> "commit"
    [] OTHER                                       -> "read"

Engine == INSTANCE EpochEngine WITH
  epoch <- epochChan, phase <- EnginePhase,
  finished <- lastEpochFinishSignal, NoFinish <- FirstEpoch - 1

(* Threads, signals and buffers together do what the epoch engine promises *)
(* and nothing else: batch after batch, all executed before any commit,    *)
(* each transaction once, none added to an epoch that was closed.          *)
ImplementsEngine == Engine!Spec

=============================================================================
