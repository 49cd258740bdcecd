------------------------ MODULE AriaCoordinator_proofs ------------------------
(***************************************************************************)
(* Proofs about AriaCoordinator, for every number of transactions, epochs  *)
(* and workers and every size of buffer, workload and wrapper.             *)
(***************************************************************************)
EXTENDS AriaCoordinator, SequenceTheorems, TLAPS

-----------------------------------------------------------------------------
(* The inductive invariant behind PhaseSeparation, in named parts.         *)

(* The coordinator's location tells which phase it is in.                  *)
PhaseOfPc ==
  /\ cpc \in {"getWorkload", "deploy", "created", "kick"} => globalState = "START"
  /\ cpc \in {"sync", "syncWait"} => globalState \in {"READ", "COMMIT"}
  /\ cpc \in {"signal", "advance"} => globalState = "COMMIT"
  /\ cursor <= numWorkers + 1
  /\ cpc \in {"created", "kick", "syncWait"} => cursor <= numWorkers

(* A worker's location determines its workerState up to the assignment of  *)
(* the next workload, which is the coordinator's doing.                    *)
StateOfPc ==
  \A w \in Workers :
    /\ wpc[w] = "none" <=> w > numWorkers
    /\ wpc[w] = "none" => workerState[w] = "NONE"
    /\ wpc[w] = "init" =>
         workerState[w] = "READY" /\ cpc = "created" /\ cursor = w
    /\ wpc[w] = "waitRead" => workerState[w] \in {"READY", "ASSIGNED"}
    /\ wpc[w] \in {"execute", "finishRead"} => workerState[w] = "ASSIGNED"
    /\ wpc[w] \in {"waitCommit", "commit", "finishCommit"} =>
         workerState[w] = "FINISH_READ"

(* A free worker has no READ pending; COMMIT is signalled in the commit    *)
(* phase only, but for the leftovers the START broadcast clears.           *)
SignalOfState ==
  \A w \in 1..numWorkers :
    /\ workerState[w] = "READY" => ariaGlobalState[w] # "READ"
    /\ ariaGlobalState[w] = "COMMIT" =>
         \/ globalState = "COMMIT"
         \/ cpc = "broadcast" /\ globalState = "START" /\ w >= cursor
    /\ wpc[w] \in {"commit", "finishCommit"} =>
         ariaGlobalState[w] = "COMMIT" /\ globalState = "COMMIT"

(* The worker that was given a workload waits for the coordinator's READ.  *)
FreshAssignment ==
  /\ cpc = "created" =>
       wpc[cursor] \in {"init", "waitRead"} /\ ariaGlobalState[cursor] # "READ"
  /\ cpc = "kick" =>
       /\ wpc[cursor] = "waitRead" /\ ariaGlobalState[cursor] # "READ"
       /\ workerState[cursor] = "ASSIGNED"

(* What the two passes of syncAllWorker have established so far.           *)
SyncProgress ==
  /\ cpc \in {"sync", "syncWait"} /\ globalState = "READ" =>
       \A w \in 1..(cursor - 1) : workerState[w] \in {"READY", "FINISH_READ"}
  /\ globalState = "COMMIT" =>
       \A w \in 1..numWorkers : workerState[w] \in {"READY", "FINISH_READ"}
  /\ cpc \in {"sync", "syncWait"} /\ globalState = "COMMIT" =>
       \A w \in 1..(cursor - 1) : workerState[w] = "READY"
  /\ \/ cpc \in {"start", "signal", "advance"}
     \/ cpc = "broadcast" /\ globalState = "START"
     => \A w \in 1..numWorkers : workerState[w] = "READY"

PhaseParts == PhaseOfPc /\ StateOfPc /\ SignalOfState /\ FreshAssignment /\ SyncProgress

PhaseInv == TypeOK /\ PhaseParts

-----------------------------------------------------------------------------
(* Type correctness.                                                       *)

(* The coordinator sleeps in syncAllWorker on a worker that exists; without *)
(* this the types are not inductive, for it goes on to the next one.       *)
CursorInRange == cpc = "syncWait" => cursor <= numWorkers

(* A counting step leaves a function from transactions to counts.          *)
LEMMA CountedType ==
  ASSUME NEW count \in [Tx -> 0..CountMax], NEW s
  PROVE  Counted(count, s) \in [Tx -> 0..CountMax]
BY DEF Counted, CountMax

(* Packing a workload cuts the buffer in two.                              *)
LEMMA PackType ==
  ASSUME TypeOK, PackWorkload
  PROVE  workload' \in Seq(Tx) /\ transactionBuffer' \in Seq(Tx)
<1>1. PICK n \in 1..Len(transactionBuffer) :
        /\ workload' = SubSeq(transactionBuffer, 1, n)
        /\ transactionBuffer' = SubSeq(transactionBuffer, n + 1, Len(transactionBuffer))
  BY DEF PackWorkload
<1>2. transactionBuffer \in Seq(Tx)
  BY DEF TypeOK
<1>3. Len(transactionBuffer) \in Nat
  BY <1>2
<1>4. \A i \in 1..Len(transactionBuffer) : transactionBuffer[i] \in Tx
  BY <1>2
<1>5. SubSeq(transactionBuffer, 1, n) \in Seq(Tx)
  BY <1>3, <1>4, SubSeqProperties
<1>6. SubSeq(transactionBuffer, n + 1, Len(transactionBuffer)) \in Seq(Tx)
  BY <1>3, <1>4, SubSeqProperties
<1> QED  BY <1>1, <1>5, <1>6

(* The manager hands over a wrapper, obtained or made of retries, or it is *)
(* in addTransaction.                                                      *)
Sending(e, k) ==
  /\ mpc = "run" /\ Send(e, k)
  /\ epoch' \in {epoch, epoch + 1}
  /\ UNCHANGED <<coordVars, workerVars, historyVars, transactionBuffer,
                 lastEpochFinishSignal, asleep>>

(* Every step of the manager is one of three.                              *)
LEMMA ManagerCases ==
  ASSUME TypeOK, ManagerStep
  PROVE  \/ \E e \in Nat \ {0}, k \in 0..MaxWrapper : numSent + k <= MaxTx /\ Sending(e, k)
         \/ AddTransaction \/ WaitForRoom
<1>1. ASSUME NEW e \in 1..MaxEpoch, NEW k \in 1..MaxWrapper,
             numSent + k <= MaxTx, ObtainWrapper(e, k)
      PROVE  e \in Nat \ {0} /\ k \in 0..MaxWrapper /\ Sending(e, k)
  BY <1>1, SizesAssumption DEF ObtainWrapper, Sending
<1>2. ASSUME NEW k \in 0..MaxWrapper, numSent + k <= MaxTx, FinishEpoch(k)
      PROVE  epoch + 1 \in Nat \ {0} /\ Sending(epoch + 1, k)
  <2>1. epoch \in Nat
    BY DEF TypeOK
  <2> QED  BY <1>2, <2>1 DEF FinishEpoch, Sending
<1> QED  BY <1>1, <1>2 DEF ManagerStep

(* The manager's wrapper stays a sequence of transactions.                 *)
LEMMA WrapperType ==
  ASSUME TypeOK, NEW e \in Nat, NEW k \in Nat, numSent + k <= MaxTx, Sending(e, k)
  PROVE  trWrapper' \in Seq(Tx) /\ numSent' \in 0..MaxTx /\ epochOf' \in [Tx -> Nat]
<1>1. numSent \in Nat /\ MaxTx \in Nat
  BY SizesAssumption DEF TypeOK
<1>2. \A i \in 1..k : numSent + i \in Tx
  BY <1>1 DEF Tx
<1>3. trWrapper' \in Seq(Tx)
  BY <1>2 DEF Sending, Send
<1>4. numSent' \in 0..MaxTx
  BY <1>1 DEF Sending, Send
<1>5. epochOf' \in [Tx -> Nat]
  BY DEF Sending, Send, TypeOK
<1> QED  BY <1>3, <1>4, <1>5

(* addTransaction appends transactions to the buffer.                      *)
LEMMA AddType ==
  ASSUME TypeOK, AddTransaction
  PROVE  transactionBuffer' \in Seq(Tx) /\ trWrapper' \in Seq(Tx)
<1>1. trWrapper \in Seq(Tx) /\ transactionBuffer \in Seq(Tx)
  BY DEF TypeOK
<1>2. Reverse(trWrapper) \in Seq(Tx)
  BY <1>1 DEF Reverse
<1> QED  BY <1>1, <1>2 DEF AddTransaction

(* The three kinds of threads are among those that may sleep.              *)
LEMMA ThreadFacts ==
  Coordinator \in Threads /\ Manager \in Threads /\ Workers \subseteq Threads
BY SizesAssumption DEF Coordinator, Manager, Threads, Workers

(* Each thread's steps keep the types.                                     *)
LEMMA CoordinatorTypeStep ==
  ASSUME TypeOK, CursorInRange, CoordinatorStep
  PROVE  TypeOK'
<1> USE SizesAssumption, ThreadFacts DEF CoordinatorPcs, GlobalStates, WorkerPcs, WorkerStates
<1> USE DEF coordVars, workerVars, managerVars, historyVars
<1>1. CASE Start
  BY <1>1 DEF TypeOK, Start
<1>2. CASE BroadcastWorker
  BY <1>2 DEF TypeOK, BroadcastWorker, NotifyConsume
<1>3. CASE BroadcastDone
  BY <1>3 DEF TypeOK, BroadcastDone
<1>4. CASE WaitForWork
  BY <1>4 DEF TypeOK, WaitForWork, Wait
<1>5. CASE CloseEpoch
  BY <1>5 DEF TypeOK, CloseEpoch
<1>6. CASE PackWorkload
  <2>1. workload' \in Seq(Tx) /\ transactionBuffer' \in Seq(Tx)
    BY <1>6, PackType
  <2>2. asleep' \subseteq Threads /\ cursor' \in 1..(MaxWorkers + 1)
    BY <1>6 DEF TypeOK, PackWorkload, NotifyManager
  <2>3. cpc' \in CoordinatorPcs
    BY <1>6 DEF PackWorkload
  <2> QED  BY <1>6, <2>1, <2>2, <2>3 DEF TypeOK, PackWorkload
<1>7. CASE SkipBusyWorker
  BY <1>7 DEF TypeOK, SkipBusyWorker
<1>8. CASE DeployWorkload
  <2>1. load' \in [Workers -> Seq(Tx)]
    BY <1>8 DEF TypeOK, DeployWorkload
  <2>2. workerState' \in [Workers -> WorkerStates]
    BY <1>8 DEF TypeOK, DeployWorkload
  <2>3. workload' \in Seq(Tx) /\ cpc' \in CoordinatorPcs
    BY <1>8, EmptySeq DEF DeployWorkload
  <2> QED  BY <1>8, <2>1, <2>2, <2>3 DEF TypeOK, DeployWorkload
<1>9. CASE CreateWorker
  <2>1. load' \in [Workers -> Seq(Tx)]
    BY <1>9 DEF TypeOK, CreateWorker
  <2>2. workerState' \in [Workers -> WorkerStates] /\ wpc' \in [Workers -> WorkerPcs]
    BY <1>9 DEF TypeOK, CreateWorker
  <2>3. ariaGlobalState' \in [Workers -> GlobalStates]
    BY <1>9 DEF TypeOK, CreateWorker
  <2>4. workload' \in Seq(Tx) /\ cpc' \in CoordinatorPcs
    BY <1>9, EmptySeq DEF CreateWorker
  <2>5. numWorkers' \in 0..MaxWorkers
    BY <1>9 DEF TypeOK, CreateWorker
  <2> QED  BY <1>9, <2>1, <2>2, <2>3, <2>4, <2>5 DEF TypeOK, CreateWorker
<1>10. CASE SyncCreated
  BY <1>10 DEF TypeOK, SyncCreated, Wait
<1>11. CASE Kick
  <2>1. ariaGlobalState' \in [Workers -> GlobalStates]
    BY <1>11 DEF TypeOK, Kick
  <2>2. cpc' \in CoordinatorPcs /\ cursor' \in 1..(MaxWorkers + 1)
    BY <1>11 DEF Kick
  <2>3. asleep' \subseteq Threads
    BY <1>11 DEF TypeOK, Kick, NotifyConsume
  <2> QED  BY <1>11, <2>1, <2>2, <2>3 DEF TypeOK, Kick
<1>12. CASE SyncWorker
  <2>1. cpc' \in CoordinatorPcs /\ asleep' \subseteq Threads
    BY <1>12 DEF TypeOK, SyncWorker, Wait
  <2>2. cursor' \in 1..(MaxWorkers + 1)
    BY <1>12 DEF TypeOK, SyncWorker
  <2> QED  BY <1>12, <2>1, <2>2 DEF TypeOK, SyncWorker
<1>13. CASE SyncWake
  <2>1. cpc' \in CoordinatorPcs /\ asleep' \subseteq Threads
    BY <1>13 DEF TypeOK, SyncWake, Wait
  <2>2. cursor' \in 1..(MaxWorkers + 1)
    BY <1>13 DEF TypeOK, CursorInRange, SyncWake
  <2> QED  BY <1>13, <2>1, <2>2 DEF TypeOK, SyncWake
<1>14. CASE ReadDone
  BY <1>14 DEF TypeOK, ReadDone
<1>15. CASE CommitDone
  BY <1>15 DEF TypeOK, CommitDone
<1>16. CASE Signal
  BY <1>16 DEF TypeOK, Signal
<1>17. CASE Advance
  BY <1>17 DEF TypeOK, Advance
<1> QED
  BY <1>1, <1>2, <1>3, <1>4, <1>5, <1>6, <1>7, <1>8, <1>9, <1>10, <1>11, <1>12, <1>13, <1>14, <1>15, <1>16, <1>17 DEF CoordinatorStep

(* A worker's steps keep the types.                                        *)
LEMMA WorkerTypeStep ==
  ASSUME TypeOK, NEW w \in Workers, WorkerStep(w)
  PROVE  TypeOK'
<1> USE SizesAssumption, ThreadFacts DEF CoordinatorPcs, GlobalStates, WorkerPcs, WorkerStates
<1> USE DEF coordVars, workerVars, managerVars, historyVars
<1>1. CASE ReportAssigned(w)
  BY <1>1 DEF TypeOK, ReportAssigned, Report, NotifyProduce
<1>2. CASE WaitForRead(w)
  BY <1>2 DEF TypeOK, WaitForRead, WaitForSignal, Wait
<1>3. CASE ExecuteList(w)
  BY <1>3, CountedType DEF TypeOK, ExecuteList
<1>4. CASE ReportFinishRead(w)
  BY <1>4 DEF TypeOK, ReportFinishRead, Report, NotifyProduce
<1>5. CASE WaitForCommit(w)
  BY <1>5 DEF TypeOK, WaitForCommit, WaitForSignal, Wait
<1>6. CASE CommitList(w)
  BY <1>6, CountedType DEF TypeOK, CommitList
<1>7. CASE ReportReady(w)
  BY <1>7 DEF TypeOK, ReportReady, Report, NotifyProduce
<1> QED
  BY <1>1, <1>2, <1>3, <1>4, <1>5, <1>6, <1>7 DEF WorkerStep

(* The manager's steps keep the types.                                     *)
LEMMA ManagerTypeStep ==
  ASSUME TypeOK, ManagerStep
  PROVE  TypeOK'
<1> USE SizesAssumption, ThreadFacts DEF ManagerPcs
<1> USE DEF coordVars, workerVars, managerVars, historyVars
<1>1. ASSUME NEW e \in Nat \ {0}, NEW k \in 0..MaxWrapper,
             numSent + k <= MaxTx, Sending(e, k)
      PROVE  TypeOK'
  <2>1. e \in Nat \ {0} /\ k \in Nat
    OBVIOUS
  <2>2. trWrapper' \in Seq(Tx) /\ numSent' \in 0..MaxTx /\ epochOf' \in [Tx -> Nat]
    BY <1>1, <2>1, WrapperType
  <2> QED  BY <1>1, <2>1, <2>2 DEF TypeOK, Sending, Send
<1>2. CASE AddTransaction
  BY <1>2, AddType DEF TypeOK, AddTransaction, NotifyBuffer
<1>3. CASE WaitForRoom
  BY <1>3 DEF TypeOK, WaitForRoom, Wait
<1> QED  BY <1>1, <1>2, <1>3, ManagerCases

(* While the coordinator waits for a worker, the cursor is at one.         *)
LEMMA CursorStep ==
  ASSUME TypeOK, CursorInRange, [Next]_vars
  PROVE  CursorInRange'
<1> USE DEF CursorInRange, coordVars, workerVars
<1>1. CASE CoordinatorStep
  <2> USE SizesAssumption, <1>1 DEF TypeOK
  <2>1. cpc' = "syncWait" => SyncWorker \/ SyncWake \/ UNCHANGED <<cpc, cursor, numWorkers>>
    BY DEF CoordinatorStep, Start, BroadcastWorker, BroadcastDone, WaitForWork, CloseEpoch,
           PackWorkload, SkipBusyWorker, DeployWorkload, CreateWorker, SyncCreated, Kick,
           ReadDone, CommitDone, Signal, Advance
  <2> QED  BY <2>1 DEF SyncWorker, SyncWake
<1>2. ASSUME NEW w \in Workers, WorkerStep(w) PROVE UNCHANGED <<cpc, cursor, numWorkers>>
  BY <1>2 DEF WorkerStep, ReportAssigned, ReportFinishRead, ReportReady, Report,
      WaitForRead, WaitForCommit, WaitForSignal, ExecuteList, CommitList
<1>3. CASE ManagerStep
  BY <1>3 DEF ManagerStep, ObtainWrapper, Send, AddTransaction, WaitForRoom, FinishEpoch
<1>4. CASE SpuriousWakeup
  BY <1>4 DEF SpuriousWakeup
<1>5. CASE UNCHANGED vars
  BY <1>5 DEF vars
<1> QED  BY <1>1, <1>2, <1>3, <1>4, <1>5 DEF Next

(* The types and the cursor's range are kept by every step.                *)
LEMMA TypeStep ==
  TypeOK /\ CursorInRange /\ [Next]_vars => TypeOK' /\ CursorInRange'
<1> SUFFICES ASSUME TypeOK, CursorInRange, [Next]_vars PROVE TypeOK'
  BY CursorStep
<1>1. CASE SpuriousWakeup
  BY <1>1 DEF TypeOK, SpuriousWakeup, coordVars, workerVars, managerVars, historyVars
<1>2. CASE UNCHANGED vars
  BY <1>2 DEF TypeOK, vars, coordVars, workerVars, managerVars, historyVars
<1> QED
  BY <1>1, <1>2, CoordinatorTypeStep, WorkerTypeStep, ManagerTypeStep DEF Next

(* They hold initially.                                                    *)
LEMMA TypeInit == Init => TypeOK /\ CursorInRange
BY SizesAssumption, EmptySeq
   DEF Init, TypeOK, CursorInRange, CoordinatorPcs, GlobalStates, WorkerPcs, WorkerStates, ManagerPcs,
       CountMax, Tx, Workers

(* Every variable stays within its type: the loops over the workers stay   *)
(* within them, the manager never obtains more than it may.                *)
THEOREM Typing == Spec => []TypeOK
BY TypeInit, TypeStep, PTL DEF Spec

-----------------------------------------------------------------------------
(* Phase separation: the steps of each thread preserve the invariant.      *)

(* What the steps need to know of the types.                               *)
LoopTypes ==
  /\ MaxWorkers \in Nat /\ numWorkers \in 0..MaxWorkers /\ cursor \in Nat \ {0}
  /\ wpc \in [Workers -> WorkerPcs]
  /\ workerState \in [Workers -> WorkerStates]
  /\ ariaGlobalState \in [Workers -> GlobalStates]
  /\ globalState \in GlobalStates

(* The part of the types that the phase argument needs.                    *)
LEMMA LoopTyping == TypeOK => LoopTypes
BY SizesAssumption DEF TypeOK, LoopTypes

(* The coordinator keeps the phase invariant: one step per action.         *)
LEMMA PhaseCoordinatorStep ==
  ASSUME LoopTypes, PhaseParts, CoordinatorStep
  PROVE  PhaseParts'
<1> USE DEF LoopTypes, GlobalStates, Workers, coordVars, workerVars
<1> USE DEF PhaseParts, PhaseOfPc, StateOfPc, SignalOfState, FreshAssignment, SyncProgress
<1>1. CASE Start
  BY <1>1 DEF Start
<1>2. CASE BroadcastWorker
  BY <1>2 DEF BroadcastWorker, NotifyConsume
<1>3. CASE BroadcastDone
  BY <1>3 DEF BroadcastDone
<1>4. CASE WaitForWork
  BY <1>4 DEF WaitForWork
<1>5. CASE CloseEpoch
  BY <1>5 DEF CloseEpoch
<1>6. CASE PackWorkload
  BY <1>6 DEF PackWorkload
<1>7. CASE SkipBusyWorker
  BY <1>7 DEF SkipBusyWorker, Idle
<1>8. CASE DeployWorkload
  <2>1. /\ cursor \in Workers /\ cursor <= numWorkers /\ cpc = "deploy"
        /\ globalState = "START" /\ workerState[cursor] = "READY"
    BY <1>8 DEF DeployWorkload, Idle
  <2>2. wpc[cursor] = "waitRead" /\ ariaGlobalState[cursor] # "READ"
    BY <2>1 DEF WorkerPcs
  <2>3. /\ workerState' = [workerState EXCEPT ![cursor] = "ASSIGNED"] /\ cpc' = "kick"
        /\ UNCHANGED <<cursor, globalState, numWorkers, wpc, ariaGlobalState>>
    BY <1>8 DEF DeployWorkload
  <2>4. StateOfPc'
    BY <2>1, <2>2, <2>3
  <2> QED  BY <2>1, <2>2, <2>3, <2>4
<1>9. CASE CreateWorker
  BY <1>9 DEF CreateWorker
<1>10. CASE SyncCreated
  BY <1>10 DEF SyncCreated
<1>11. CASE Kick
  BY <1>11 DEF Kick
<1>12. CASE SyncWorker
  BY <1>12 DEF SyncWorker, SyncTarget
<1>13. CASE SyncWake
  BY <1>13 DEF SyncWake, Reached, SyncTarget
<1>14. CASE ReadDone
  BY <1>14 DEF ReadDone
<1>15. CASE CommitDone
  BY <1>15 DEF CommitDone
<1>16. CASE Signal
  BY <1>16 DEF Signal
<1>17. CASE Advance
  BY <1>17 DEF Advance
<1> QED
  BY <1>1, <1>2, <1>3, <1>4, <1>5, <1>6, <1>7, <1>8, <1>9, <1>10, <1>11, <1>12, <1>13, <1>14, <1>15, <1>16, <1>17 DEF CoordinatorStep

(* So do the workers, which move on only as their signal allows.           *)
LEMMA PhaseWorkerStep ==
  ASSUME LoopTypes, PhaseParts, NEW w \in Workers, WorkerStep(w)
  PROVE  PhaseParts'
<1> USE DEF LoopTypes, GlobalStates, Workers, coordVars
<1> USE DEF PhaseParts, PhaseOfPc, StateOfPc, SignalOfState, FreshAssignment, SyncProgress
<1>1. CASE ReportAssigned(w)
  BY <1>1 DEF ReportAssigned, Report
<1>2. CASE WaitForRead(w)
  BY <1>2 DEF WaitForRead, WaitForSignal
<1>3. CASE ExecuteList(w)
  BY <1>3 DEF ExecuteList
<1>4. CASE ReportFinishRead(w)
  BY <1>4 DEF ReportFinishRead, Report
<1>5. CASE WaitForCommit(w)
  BY <1>5 DEF WaitForCommit, WaitForSignal
<1>6. CASE CommitList(w)
  BY <1>6 DEF CommitList
<1>7. CASE ReportReady(w)
  BY <1>7 DEF ReportReady, Report
<1> QED
  BY <1>1, <1>2, <1>3, <1>4, <1>5, <1>6, <1>7 DEF WorkerStep

(* The phase invariant is kept by every step.                              *)
LEMMA PhaseStep == PhaseInv /\ [Next]_vars => PhaseParts'
<1> SUFFICES ASSUME PhaseInv, [Next]_vars PROVE PhaseParts'
  OBVIOUS
<1>1. LoopTypes /\ PhaseParts
  BY LoopTyping DEF PhaseInv
<1>2. UNCHANGED <<cpc, cursor, globalState, numWorkers, wpc, workerState, ariaGlobalState>>
      => PhaseParts'
  BY <1>1 DEF PhaseParts, PhaseOfPc, StateOfPc, SignalOfState, FreshAssignment, SyncProgress
<1>3. CASE ManagerStep
  BY <1>2, <1>3 DEF ManagerStep, ObtainWrapper, Send, AddTransaction, WaitForRoom, FinishEpoch,
     coordVars, workerVars
<1>4. CASE SpuriousWakeup
  BY <1>2, <1>4 DEF SpuriousWakeup, coordVars, workerVars
<1>5. CASE UNCHANGED vars
  BY <1>2, <1>5 DEF vars, coordVars, workerVars
<1> QED
  BY <1>1, <1>3, <1>4, <1>5, PhaseCoordinatorStep, PhaseWorkerStep DEF Next

(* It holds initially, when there are no workers.                          *)
LEMMA PhaseInitially == Init => PhaseParts
BY SizesAssumption
   DEF Init, PhaseParts, PhaseOfPc, StateOfPc, SignalOfState, FreshAssignment, SyncProgress,
       Workers

(* Hence it is an invariant, and the types with it.                        *)
LEMMA PhaseInvariance == Spec => []PhaseInv
<1>1. Init => PhaseInv
  BY TypeInit, PhaseInitially DEF PhaseInv
<1>2. PhaseInv /\ [Next]_vars => PhaseInv'
  <2>1. PhaseInv => TypeOK /\ CursorInRange
    BY DEF PhaseInv, PhaseParts, PhaseOfPc, CursorInRange
  <2> QED  BY <2>1, TypeStep, PhaseStep DEF PhaseInv
<1> QED  BY <1>1, <1>2, PTL DEF Spec

(* No worker executes while another commits.  An executing worker is       *)
(* ASSIGNED; a committing one shows that the coordinator is in its commit  *)
(* phase, which it enters only after every worker was seen to be READY or  *)
(* to have finished reading.                                               *)
THEOREM PhasesSeparated == Spec => []PhaseSeparation
<1>1. PhaseInv => PhaseSeparation
  BY LoopTyping
     DEF PhaseInv, PhaseParts, LoopTypes, StateOfPc, SignalOfState, SyncProgress,
         PhaseSeparation, Workers
<1> QED  BY <1>1, PhaseInvariance, PTL

(* The coordinator replaces the workload only of a worker that is in front *)
(* of its wait and has no READ pending: the unlocked write of a shared_ptr *)
(* in deployWorkload is not a race.                                        *)
THEOREM WorkloadsUndisturbed == Spec => WorkloadUndisturbed
<1> DEFINE Undisturbed == \A w \in 1..numWorkers : load'[w] # load[w] =>
                             wpc[w] = "waitRead" /\ ariaGlobalState[w] # "READ"
<1>1. PhaseInv /\ [Next]_vars => Undisturbed
  <2> SUFFICES ASSUME PhaseInv, [Next]_vars, NEW w \in 1..numWorkers, load'[w] # load[w]
               PROVE  wpc[w] = "waitRead" /\ ariaGlobalState[w] # "READ"
    OBVIOUS
  <2> USE DEF coordVars, workerVars
  <2>1. LoopTypes /\ w \in Workers /\ load \in [Workers -> Seq(Tx)]
    <3>1. LoopTypes /\ load \in [Workers -> Seq(Tx)]
      BY LoopTyping DEF PhaseInv, TypeOK
    <3> QED  BY <3>1 DEF LoopTypes, Workers
  <2>2. CASE DeployWorkload
    <3>1. w = cursor /\ workerState[w] = "READY" /\ cpc = "deploy"
      BY <2>1, <2>2 DEF DeployWorkload, Idle
    <3> QED
      BY <2>1, <3>1 DEF PhaseInv, PhaseParts, StateOfPc, SignalOfState, LoopTypes, WorkerPcs
  <2>3. CASE CreateWorker
    BY <2>1, <2>3 DEF CreateWorker, LoopTypes
  <2>4. CASE CoordinatorStep /\ ~DeployWorkload /\ ~CreateWorker
    BY <2>4 DEF CoordinatorStep, Start, BroadcastWorker, BroadcastDone, WaitForWork,
       CloseEpoch, PackWorkload, SkipBusyWorker, SyncCreated, Kick, SyncWorker, SyncWake,
       ReadDone, CommitDone, Signal, Advance
  <2>5. ASSUME NEW v \in Workers, WorkerStep(v) PROVE UNCHANGED load
    BY <2>5 DEF WorkerStep, ReportAssigned, ReportFinishRead, ReportReady, Report,
       WaitForRead, WaitForCommit, WaitForSignal, ExecuteList, CommitList
  <2>6. CASE ManagerStep
    BY <2>6 DEF ManagerStep, ObtainWrapper, Send, AddTransaction, WaitForRoom, FinishEpoch
  <2>7. CASE SpuriousWakeup \/ UNCHANGED vars
    BY <2>7 DEF SpuriousWakeup, vars
  <2> QED  BY <2>2, <2>3, <2>4, <2>5, <2>6, <2>7 DEF Next
<1>2. PhaseInv /\ [Next]_vars => [Undisturbed]_vars
  BY <1>1
<1> QED  BY <1>2, PhaseInvariance, PTL DEF Spec, WorkloadUndisturbed

-----------------------------------------------------------------------------
(* No lost wakeup.                                                         *)

(* What is on its way to the coordinator was obtained before: the epoch of *)
(* a buffered transaction, which the coordinator's wait depends on, no     *)
(* longer changes.                                                         *)
BufferObtained ==
  /\ \A i \in 1..Len(transactionBuffer) : transactionBuffer[i] <= numSent
  /\ \A i \in 1..Len(trWrapper) : trWrapper[i] <= numSent

WakeInv == NoLostWakeup /\ BufferObtained

(* The coordinator, the manager and the workers are different threads.     *)
LEMMA ThreadsDistinct ==
  /\ Coordinator # Manager
  /\ \A w \in Workers : w # Coordinator /\ w # Manager
BY SizesAssumption DEF Coordinator, Manager, Workers

(* What is in the buffer or the wrapper has been obtained.                 *)
LEMMA ObtainedStep ==
  ASSUME TypeOK, BufferObtained, [Next]_vars
  PROVE  BufferObtained'
<1> USE DEF BufferObtained
<1>1. UNCHANGED <<transactionBuffer, trWrapper, numSent>> => BufferObtained'
  OBVIOUS
<1>2. CASE CoordinatorStep /\ ~PackWorkload
  BY <1>1, <1>2 DEF CoordinatorStep, Start, BroadcastWorker, BroadcastDone, WaitForWork,
     CloseEpoch, SkipBusyWorker, DeployWorkload, CreateWorker, SyncCreated, Kick, SyncWorker,
     SyncWake, ReadDone, CommitDone, Signal, Advance, managerVars
<1>3. CASE PackWorkload
  <2>1. PICK n \in 1..Len(transactionBuffer) :
          transactionBuffer' = SubSeq(transactionBuffer, n + 1, Len(transactionBuffer))
    BY <1>3 DEF PackWorkload
  <2>2. transactionBuffer \in Seq(Tx) /\ Len(transactionBuffer) \in Nat
    BY DEF TypeOK
  <2>3. \A i \in 1..Len(transactionBuffer') :
          transactionBuffer'[i] = transactionBuffer[n + i] /\ n + i \in 1..Len(transactionBuffer)
    BY <2>1, <2>2
  <2>4. UNCHANGED <<trWrapper, numSent>>
    BY <1>3 DEF PackWorkload, managerVars
  <2> QED  BY <2>3, <2>4
<1>4. ASSUME NEW w \in Workers, WorkerStep(w) PROVE BufferObtained'
  BY <1>1, <1>4 DEF WorkerStep, ReportAssigned, ReportFinishRead, ReportReady, Report,
     WaitForRead, WaitForCommit, WaitForSignal, ExecuteList, CommitList, managerVars
<1>5. ASSUME NEW e \in Nat \ {0}, NEW k \in 0..MaxWrapper, Sending(e, k)
      PROVE  BufferObtained'
  <2>1. numSent \in Nat /\ trWrapper' = [i \in 1..k |-> numSent + i] /\ numSent' = numSent + k
        /\ UNCHANGED transactionBuffer
    BY <1>5 DEF Sending, Send, TypeOK
  <2>2. \A i \in 1..Len(trWrapper') : trWrapper'[i] <= numSent'
    BY <2>1
  <2>3. \A i \in 1..Len(transactionBuffer) : transactionBuffer[i] \in Nat
    <3>1. transactionBuffer \in Seq(Tx) /\ Tx \subseteq Nat
      BY SizesAssumption DEF TypeOK, Tx
    <3>2. \A i \in 1..Len(transactionBuffer) : transactionBuffer[i] \in Tx
      BY <3>1, ElementOfSeq
    <3> QED  BY <3>1, <3>2
  <2> QED  BY <2>1, <2>2, <2>3
<1>6. CASE AddTransaction
  <2>1. trWrapper \in Seq(Tx) /\ transactionBuffer \in Seq(Tx)
    BY DEF TypeOK
  <2>2. /\ transactionBuffer' = transactionBuffer \o Reverse(trWrapper)
        /\ trWrapper' = <<>> /\ numSent' = numSent
    BY <1>6 DEF AddTransaction
  <2>3. Reverse(trWrapper) \in Seq(Tx) /\ Len(Reverse(trWrapper)) = Len(trWrapper)
    BY <2>1 DEF Reverse
  <2>4. \A i \in 1..Len(Reverse(trWrapper)) : Reverse(trWrapper)[i] <= numSent
    BY <2>1, <2>3 DEF Reverse
  <2>5. \A i \in 1..Len(transactionBuffer') : transactionBuffer'[i] <= numSent
    BY <2>1, <2>2, <2>3, <2>4
  <2> QED  BY <2>2, <2>5
<1>7. CASE WaitForRoom
  BY <1>1, <1>7 DEF WaitForRoom, managerVars
<1>8. CASE SpuriousWakeup \/ UNCHANGED vars
  BY <1>1, <1>8 DEF SpuriousWakeup, vars, managerVars
<1> QED
  BY <1>2, <1>3, <1>4, <1>5, <1>6, <1>7, <1>8, ManagerCases DEF Next, CoordinatorStep

(* The facts about workers and cursor that the wakeup steps rest on.       *)
WakeContext ==
  /\ LoopTypes
  /\ \A w \in Workers : w > numWorkers => wpc[w] = "none"
  /\ cpc \in {"created", "kick", "syncWait"} => cursor <= numWorkers
  /\ cursor <= numWorkers + 1

(* The coordinator never changes what a sleeper waits for unnoticed.       *)
LEMMA WakeCoordinatorStep ==
  ASSUME WakeContext, NoLostWakeup, CoordinatorStep
  PROVE  NoLostWakeup'
<1> USE ThreadsDistinct DEF WakeContext, LoopTypes, NoLostWakeup, CoordinatorWaits,
      ManagerWaits, WorkersWait, coordVars, workerVars, managerVars
<1>1. CASE Start
  BY <1>1 DEF Start
<1>2. CASE BroadcastWorker
  BY <1>2 DEF BroadcastWorker, NotifyConsume
<1>3. CASE BroadcastDone
  BY <1>3 DEF BroadcastDone
<1>4. CASE WaitForWork
  BY <1>4 DEF WaitForWork, Wait, WorkAvailable
<1>5. CASE CloseEpoch
  BY <1>5 DEF CloseEpoch
<1>6. CASE PackWorkload
  BY <1>6 DEF PackWorkload, NotifyManager
<1>7. CASE SkipBusyWorker
  BY <1>7 DEF SkipBusyWorker
<1>8. CASE DeployWorkload
  BY <1>8 DEF DeployWorkload
<1>9. CASE CreateWorker
  BY <1>9 DEF CreateWorker
<1>10. CASE SyncCreated
  BY <1>10 DEF SyncCreated, Wait
<1>11. CASE Kick
  BY <1>11 DEF Kick, NotifyConsume
<1>12. CASE SyncWorker
  BY <1>12 DEF SyncWorker, Wait, SyncTarget
<1>13. CASE SyncWake
  BY <1>13 DEF SyncWake, Wait, Reached, SyncTarget
<1>14. CASE ReadDone
  BY <1>14 DEF ReadDone
<1>15. CASE CommitDone
  BY <1>15 DEF CommitDone
<1>16. CASE Signal
  BY <1>16 DEF Signal
<1>17. CASE Advance
  BY <1>17 DEF Advance
<1> QED
  BY <1>1, <1>2, <1>3, <1>4, <1>5, <1>6, <1>7, <1>8, <1>9, <1>10, <1>11, <1>12, <1>13, <1>14, <1>15, <1>16, <1>17 DEF CoordinatorStep

(* Nor does a worker, which notifies with every new state.                 *)
LEMMA WakeWorkerStep ==
  ASSUME WakeContext, NoLostWakeup, NEW w \in Workers, WorkerStep(w)
  PROVE  NoLostWakeup'
<1> USE ThreadsDistinct DEF WakeContext, LoopTypes, NoLostWakeup, CoordinatorWaits,
      ManagerWaits, WorkersWait, WorkAvailable, SyncTarget, coordVars, managerVars
<1>1. CASE ReportAssigned(w)
  BY <1>1 DEF ReportAssigned, Report, NotifyProduce
<1>2. CASE WaitForRead(w)
  BY <1>2 DEF WaitForRead, WaitForSignal, Wait
<1>3. CASE ExecuteList(w)
  BY <1>3 DEF ExecuteList
<1>4. CASE ReportFinishRead(w)
  BY <1>4 DEF ReportFinishRead, Report, NotifyProduce
<1>5. CASE WaitForCommit(w)
  BY <1>5 DEF WaitForCommit, WaitForSignal, Wait
<1>6. CASE CommitList(w)
  BY <1>6 DEF CommitList
<1>7. CASE ReportReady(w)
  BY <1>7 DEF ReportReady, Report, NotifyProduce
<1> QED
  BY <1>1, <1>2, <1>3, <1>4, <1>5, <1>6, <1>7 DEF WorkerStep

(* Nor does the manager, which notifies after filling the buffer.          *)
LEMMA WakeManagerStep ==
  ASSUME TypeOK, BufferObtained, NoLostWakeup, ManagerStep
  PROVE  NoLostWakeup'
<1> USE ThreadsDistinct DEF NoLostWakeup, CoordinatorWaits, ManagerWaits, WorkersWait,
      coordVars, workerVars, managerVars
<1>1. ASSUME NEW e \in Nat \ {0}, NEW k \in 0..MaxWrapper, Sending(e, k)
      PROVE  NoLostWakeup'
  <2>1. /\ mpc = "run" /\ Manager \notin asleep /\ numSent \in Nat
        /\ epochOf' = [t \in Tx |-> IF t \in numSent + 1..numSent + k THEN e ELSE epochOf[t]]
        /\ UNCHANGED <<coordVars, workerVars, transactionBuffer, asleep>>
    BY <1>1 DEF Sending, Send, TypeOK
  <2>2. transactionBuffer # <<>> =>
          epochOf'[Last(transactionBuffer)] = epochOf[Last(transactionBuffer)]
    <3> SUFFICES ASSUME transactionBuffer # <<>>
                 PROVE  epochOf'[Last(transactionBuffer)] = epochOf[Last(transactionBuffer)]
      OBVIOUS
    <3>1. transactionBuffer \in Seq(Tx) /\ Tx \subseteq Nat
      BY SizesAssumption DEF TypeOK, Tx
    <3>2. Len(transactionBuffer) \in 1..Len(transactionBuffer)
      BY <3>1
    <3>3. Last(transactionBuffer) \in Tx /\ Last(transactionBuffer) <= numSent
      BY <3>1, <3>2 DEF Last, BufferObtained
    <3>4. Last(transactionBuffer) \notin numSent + 1..numSent + k
      BY <2>1, <3>1, <3>3
    <3> QED  BY <2>1, <3>3, <3>4
  <2>3. WorkAvailable' <=> WorkAvailable
    BY <2>1, <2>2 DEF WorkAvailable
  <2> QED  BY <2>1, <2>3 DEF SyncTarget
<1>2. CASE AddTransaction
  <2>1. /\ mpc = "add" /\ Manager \notin asleep /\ NotifyBuffer
        /\ UNCHANGED <<coordVars, workerVars>>
    BY <1>2 DEF AddTransaction
  <2> QED  BY <2>1 DEF NotifyBuffer, SyncTarget
<1>3. CASE WaitForRoom
  BY <1>3 DEF WaitForRoom, Wait, WorkAvailable, SyncTarget
<1> QED  BY <1>1, <1>2, <1>3, ManagerCases

(* Sleepers keep waiting for something that is not there.                  *)
LEMMA WakeStep == PhaseInv /\ WakeInv /\ [Next]_vars => WakeInv'
<1> SUFFICES ASSUME PhaseInv, WakeInv, [Next]_vars PROVE WakeInv'
  OBVIOUS
<1>1. TypeOK /\ NoLostWakeup /\ BufferObtained
  BY DEF PhaseInv, WakeInv
<1>2. WakeContext
  BY LoopTyping DEF PhaseInv, PhaseParts, WakeContext, PhaseOfPc, StateOfPc
<1>3. UNCHANGED <<coordVars, workerVars, managerVars, transactionBuffer>>
      /\ asleep' \subseteq asleep => NoLostWakeup'
  BY <1>1 DEF NoLostWakeup, CoordinatorWaits, ManagerWaits, WorkersWait, WorkAvailable,
     SyncTarget, coordVars, workerVars, managerVars
<1>4. CASE SpuriousWakeup
  BY <1>1, <1>3, <1>4, ObtainedStep DEF SpuriousWakeup, WakeInv
<1>5. CASE UNCHANGED vars
  BY <1>1, <1>3, <1>5, ObtainedStep DEF vars, WakeInv
<1> QED
  BY <1>1, <1>2, <1>4, <1>5, ObtainedStep, WakeCoordinatorStep, WakeWorkerStep,
     WakeManagerStep DEF Next, WakeInv

(* A thread sleeps only while what it waits for is not there: no store to  *)
(* a workerState, a signal or the buffer is missed by the thread waiting   *)
(* for it, although deployWorkload stores without the mutex.               *)
THEOREM NoWakeupLost == Spec => []NoLostWakeup
<1>1. Init => WakeInv
  BY DEF Init, WakeInv, NoLostWakeup, CoordinatorWaits, ManagerWaits, WorkersWait,
     BufferObtained
<1>2. WakeInv => NoLostWakeup
  BY DEF WakeInv
<1> QED  BY <1>1, <1>2, WakeStep, PhaseInvariance, PTL DEF Spec

-----------------------------------------------------------------------------
(* The buffer cannot deadlock.                                             *)

WrapperFits == Len(trWrapper) <= MaxWrapper

(* The manager's wrapper never exceeds the configured size.                *)
LEMMA WrapperFitsStep ==
  ASSUME TypeOK, WrapperFits, [Next]_vars
  PROVE  WrapperFits'
<1> USE DEF WrapperFits
<1>1. UNCHANGED trWrapper => WrapperFits'
  OBVIOUS
<1>2. CASE CoordinatorStep
  BY <1>1, <1>2 DEF CoordinatorStep, Start, BroadcastWorker, BroadcastDone, WaitForWork,
     CloseEpoch, PackWorkload, SkipBusyWorker, DeployWorkload, CreateWorker, SyncCreated, Kick,
     SyncWorker, SyncWake, ReadDone, CommitDone, Signal, Advance, managerVars
<1>3. ASSUME NEW w \in Workers, WorkerStep(w) PROVE WrapperFits'
  BY <1>1, <1>3 DEF WorkerStep, ReportAssigned, ReportFinishRead, ReportReady, Report,
     WaitForRead, WaitForCommit, WaitForSignal, ExecuteList, CommitList, managerVars
<1>4. ASSUME NEW e \in Nat \ {0}, NEW k \in 0..MaxWrapper, Sending(e, k)
      PROVE  WrapperFits'
  <2>1. trWrapper' = [i \in 1..k |-> numSent + i] /\ k \in Nat /\ k <= MaxWrapper
    BY <1>4, SizesAssumption DEF Sending, Send
  <2> QED  BY <2>1
<1>5. CASE AddTransaction
  BY <1>5, SizesAssumption DEF AddTransaction
<1>6. CASE WaitForRoom \/ SpuriousWakeup \/ UNCHANGED vars
  BY <1>1, <1>6 DEF WaitForRoom, SpuriousWakeup, vars, managerVars
<1> QED  BY <1>2, <1>3, <1>4, <1>5, <1>6, ManagerCases DEF Next

(* The manager and the coordinator do not wait for each other: if the      *)
(* manager's wrapper does not fit, the buffer holds enough for a workload, *)
(* and by NoLostWakeup the coordinator does not sleep on that.  It is the  *)
(* sizes of complie_config.h (BufferAssumption) that make it so.           *)
THEOREM BufferDeadlockFree == Spec => []NoBufferDeadlock
<1>1. TypeOK /\ NoLostWakeup /\ WrapperFits => NoBufferDeadlock
  <2> SUFFICES ASSUME TypeOK, NoLostWakeup, WrapperFits,
                      Coordinator \in asleep, cpc = "getWorkload", Manager \in asleep
               PROVE  FALSE
    BY DEF NoBufferDeadlock
  <2>1. ~WorkAvailable /\ Len(transactionBuffer) + Len(trWrapper) > MaxBuffer
    BY DEF NoLostWakeup, CoordinatorWaits, ManagerWaits
  <2>2. transactionBuffer \in Seq(Tx) /\ trWrapper \in Seq(Tx)
    BY DEF TypeOK
  <2>3. Len(transactionBuffer) >= MinPerWorkload
    BY <2>1, <2>2, SizesAssumption, BufferAssumption DEF WrapperFits
  <2>4. transactionBuffer # <<>>
    BY <2>2, <2>3, SizesAssumption
  <2> QED  BY <2>1, <2>3, <2>4 DEF WorkAvailable
<1>2. Init => WrapperFits
  BY SizesAssumption DEF Init, WrapperFits
<1>3. TypeOK /\ WrapperFits /\ [Next]_vars => WrapperFits'
  BY WrapperFitsStep
<1> QED  BY <1>1, <1>2, <1>3, Typing, NoWakeupLost, PTL DEF Spec

-----------------------------------------------------------------------------
(***************************************************************************)
(* The epochs: an epoch is complete when it is announced, no finish is     *)
(* overwritten, and coordinator, workers and manager together implement    *)
(* the epoch engine.  The proofs rest on where every transaction is at any *)
(* time: in the manager's wrapper or the coordinator's buffer, in the      *)
(* packed workload, with one worker, or done.                              *)
(***************************************************************************)

(* The epochs: where a transaction is and what has been done with it.      *)

Closed == globalState \in {"READ", "COMMIT"} /\ cpc # "start"

(* What waits to be packed, in the order in which it will be.              *)
Pipe == transactionBuffer \o Reverse(trWrapper)

Waiting == {Pipe[i] : i \in 1..Len(Pipe)}

(* It is of the current epoch or a later one, in the order of the epochs,  *)
(* and no transaction is there twice.                                      *)
PipeOrdered ==
  /\ mpc = "run" => trWrapper = <<>>
  /\ \A i, j \in 1..Len(Pipe) : i < j =>
       Pipe[i] # Pipe[j] /\ epochOf[Pipe[i]] <= epochOf[Pipe[j]]
  /\ \A i \in 1..Len(Pipe) :
       /\ Pipe[i] <= numSent
       /\ epochChan <= epochOf[Pipe[i]] /\ epochOf[Pipe[i]] <= sendEpoch
       /\ i > Len(transactionBuffer) => epochOf[Pipe[i]] = sendEpoch
       /\ Closed => epochChan < epochOf[Pipe[i]]

(* The manager is not behind the coordinator, and no more than an epoch    *)
(* ahead of what it has been told is finished.                             *)
EpochsInStep ==
  /\ epochChan <= sendEpoch /\ sendEpoch <= epoch + 1
  /\ Closed => epochChan < sendEpoch
  /\ \/ lastEpochFinishSignal = FirstEpoch - 1
     \/ lastEpochFinishSignal < epochChan
     \/ lastEpochFinishSignal = epochChan /\ cpc = "advance"

(* A worker has a workload that is not committed yet.                      *)
Loaded(w) == wpc[w] # "none" /\ (workerState[w] = "READY" => wpc[w] = "init")

Packed == Range(workload)
Held(w) == IF Loaded(w) THEN Range(load[w]) ELSE {}

WorkloadPlace ==
  /\ cpc # "deploy" => workload = <<>>
  /\ \A t \in Packed : t <= numSent /\ epochOf[t] = epochChan /\ t \notin Waiting
  /\ \A w \in Workers : \A t \in Held(w) :
       /\ t <= numSent /\ epochOf[t] = epochChan
       /\ t \notin Waiting /\ t \notin Packed
       /\ \A v \in Workers : t \in Held(v) => v = w

(* The counts of a transaction tell where it is.                           *)
CountsOfPlace ==
  /\ \A t \in Tx : t > numSent => epochOf[t] = 0 /\ nExec[t] = 0 /\ nCommit[t] = 0
  /\ \A t \in Waiting \cup Packed : nExec[t] = 0 /\ nCommit[t] = 0
  /\ \A w \in Workers : \A t \in Held(w) :
       /\ nExec[t] = IF wpc[w] \in {"init", "waitRead", "execute"} THEN 0 ELSE 1
       /\ nCommit[t] = IF wpc[w] = "finishCommit" THEN 1 ELSE 0
  /\ \A t \in 1..numSent :
       t \notin Waiting \cup Packed /\ (\A w \in Workers : t \notin Held(w)) =>
         epochOf[t] \in 1..epochChan /\ nExec[t] = 1 /\ nCommit[t] = 1

EpochInv == PipeOrdered /\ EpochsInStep /\ WorkloadPlace /\ CountsOfPlace

-----------------------------------------------------------------------------
(* What a step does to the pipe.                                           *)

(* The elements of a sequence followed by another one's reverse.           *)
LEMMA ConcatReverse ==
  ASSUME NEW S, NEW s \in Seq(S), NEW r \in Seq(S)
  PROVE  /\ s \o Reverse(r) \in Seq(S)
         /\ Len(s \o Reverse(r)) = Len(s) + Len(r)
         /\ \A i \in 1..Len(s) + Len(r) :
              (s \o Reverse(r))[i] = IF i <= Len(s) THEN s[i] ELSE r[Len(r) - (i - Len(s)) + 1]
<1>1. Reverse(r) \in Seq(S) /\ Len(Reverse(r)) = Len(r)
  BY DEF Reverse
<1>2. \A i \in 1..Len(r) : Reverse(r)[i] = r[Len(r) - i + 1]
  BY DEF Reverse
<1> DEFINE q == Reverse(r)
<1>3. /\ q \in Seq(S) /\ Len(q) = Len(r) /\ Len(s) \in Nat /\ Len(r) \in Nat
      /\ \A i \in 1..Len(r) : q[i] = r[Len(r) - i + 1]
  BY <1>1, <1>2
<1> HIDE DEF q
<1>4. /\ s \o q \in Seq(S) /\ Len(s \o q) = Len(s) + Len(r)
      /\ \A i \in 1..Len(s) + Len(r) : (s \o q)[i] = IF i <= Len(s) THEN s[i] ELSE q[i - Len(s)]
  <2>1. /\ s \o q \in Seq(S) /\ Len(s \o q) = Len(s) + Len(q)
        /\ \A i \in 1..Len(s) + Len(q) : (s \o q)[i] = IF i <= Len(s) THEN s[i] ELSE q[i - Len(s)]
    <3>1. s \in Seq(S) /\ q \in Seq(S)
      BY <1>3
    <3> QED  BY <3>1, ConcatProperties
  <2> QED  BY <1>3, <2>1
<1>5. \A i \in 1..Len(s) + Len(r) : ~(i <= Len(s)) => q[i - Len(s)] = r[Len(r) - (i - Len(s)) + 1]
  BY <1>3
<1> QED  BY <1>4, <1>5 DEF q

(* The pipe is the buffer and then the wrapper from its back.              *)
LEMMA PipeShape ==
  ASSUME TypeOK
  PROVE  /\ Pipe \in Seq(Tx) /\ Len(Pipe) \in Nat
         /\ Len(transactionBuffer) \in Nat /\ Len(transactionBuffer) <= Len(Pipe)
         /\ \A i \in 1..Len(Pipe) : Pipe[i] \in Tx
         /\ \A i \in 1..Len(transactionBuffer) : Pipe[i] = transactionBuffer[i]
         /\ Waiting \subseteq Tx
<1>1. transactionBuffer \in Seq(Tx) /\ trWrapper \in Seq(Tx)
  BY DEF TypeOK
<1>2. /\ Pipe \in Seq(Tx) /\ Len(Pipe) = Len(transactionBuffer) + Len(trWrapper)
      /\ \A i \in 1..Len(transactionBuffer) + Len(trWrapper) :
           i <= Len(transactionBuffer) => Pipe[i] = transactionBuffer[i]
  BY <1>1, ConcatReverse DEF Pipe
<1>3. Len(transactionBuffer) \in Nat /\ Len(trWrapper) \in Nat
  BY <1>1
<1>4. \A i \in 1..Len(Pipe) : Pipe[i] \in Tx
  BY <1>2, ElementOfSeq
<1> QED  BY <1>2, <1>3, <1>4 DEF Waiting

(* Packing takes the front of the pipe, transactions of this epoch.        *)
LEMMA PackEffect ==
  ASSUME TypeOK, PipeOrdered, PackWorkload
  PROVE  \E n \in 1..Len(transactionBuffer) :
           /\ Len(Pipe') = Len(Pipe) - n /\ Len(transactionBuffer') = Len(transactionBuffer) - n
           /\ \A i \in 1..Len(Pipe) - n : Pipe'[i] = Pipe[n + i]
           /\ Range(workload') = {Pipe[i] : i \in 1..n}
           /\ \A i \in 1..n : epochOf[Pipe[i]] = epochChan
<1>1. transactionBuffer \in Seq(Tx) /\ trWrapper \in Seq(Tx)
  BY DEF TypeOK
<1>2. PICK n \in 1..Len(transactionBuffer) :
        /\ PackSize(n)
        /\ workload' = SubSeq(transactionBuffer, 1, n)
        /\ transactionBuffer' = SubSeq(transactionBuffer, n + 1, Len(transactionBuffer))
  BY DEF PackWorkload
<1>3. trWrapper' = trWrapper /\ ~EpochEmpty
  BY DEF PackWorkload, managerVars
<1> DEFINE B == Len(transactionBuffer)
           W == Len(trWrapper)
<1>4. B \in Nat /\ W \in Nat /\ n \in 1..B
  BY <1>1, <1>2
<1>5. /\ transactionBuffer' \in Seq(Tx) /\ Len(transactionBuffer') = B - n
      /\ \A i \in 1..B - n : transactionBuffer'[i] = transactionBuffer[n + i]
  BY <1>1, <1>2, <1>4
<1>6. /\ workload' \in Seq(Tx) /\ Len(workload') = n
      /\ \A i \in 1..n : workload'[i] = transactionBuffer[i]
  BY <1>1, <1>2, <1>4
<1>7. /\ Len(Pipe) = B + W
      /\ \A i \in 1..B + W :
           Pipe[i] = IF i <= B THEN transactionBuffer[i] ELSE trWrapper[W - (i - B) + 1]
  BY <1>1, ConcatReverse DEF Pipe
<1>8. /\ Len(Pipe') = (B - n) + W
      /\ \A i \in 1..(B - n) + W :
           Pipe'[i] = IF i <= B - n THEN transactionBuffer'[i]
                                    ELSE trWrapper[W - (i - (B - n)) + 1]
  <2>1. Pipe' = transactionBuffer' \o Reverse(trWrapper)
    BY <1>3 DEF Pipe
  <2>2. /\ Len(Pipe') = Len(transactionBuffer') + W
        /\ \A i \in 1..Len(transactionBuffer') + W :
             Pipe'[i] = IF i <= Len(transactionBuffer') THEN transactionBuffer'[i]
                          ELSE trWrapper[W - (i - Len(transactionBuffer')) + 1]
    BY <2>1, <1>1, <1>5, ConcatReverse
  <2>3. Len(transactionBuffer') = B - n
    BY <1>5
  <2> QED  BY <2>2, <2>3
<1>9. \A i \in 1..Len(Pipe) - n : Pipe'[i] = Pipe[n + i]
  <2> SUFFICES ASSUME NEW i \in 1..(B - n) + W PROVE Pipe'[i] = Pipe[n + i]
    BY <1>4, <1>7
  <2>1. n + i \in 1..B + W /\ W - (i - (B - n)) + 1 = W - ((n + i) - B) + 1
        /\ (i <= B - n <=> n + i <= B)
    BY <1>4
  <2> HIDE DEF B, W
  <2>2. CASE i <= B - n
    <3>1. i \in 1..B - n
      BY <1>4, <2>2
    <3>2. Pipe'[i] = transactionBuffer'[i]
      BY <1>8, <2>2
    <3>3. Pipe[n + i] = transactionBuffer[n + i]
      BY <1>7, <2>1, <2>2
    <3> QED  BY <1>5, <3>1, <3>2, <3>3
  <2>3. CASE ~(i <= B - n)
    <3>1. Pipe'[i] = trWrapper[W - (i - (B - n)) + 1]
      BY <1>8, <2>3
    <3>2. Pipe[n + i] = trWrapper[W - ((n + i) - B) + 1]
      BY <1>7, <2>1, <2>3
    <3> QED  BY <2>1, <3>1, <3>2
  <2> QED  BY <2>2, <2>3
<1>10. Range(workload') = {Pipe[i] : i \in 1..n}
  <2>1. DOMAIN workload' = 1..n
    BY <1>6
  <2>2. \A i \in 1..n : workload'[i] = Pipe[i]
    BY <1>4, <1>6, <1>7
  <2> QED  BY <2>1, <2>2 DEF Range
<1>11. \A i \in 1..n : epochOf[Pipe[i]] = epochChan
  <2>1. ~(epochOf[transactionBuffer[1]] > epochChan) /\ Pipe[1] = transactionBuffer[1]
    BY <1>1, <1>3, <1>4, <1>7 DEF EpochEmpty
  <2>2. epochChan <= epochOf[Pipe[1]] /\ epochOf[Pipe[1]] \in Nat /\ epochChan \in Nat
    <3>1. 1 \in 1..Len(Pipe)
      BY <1>4, <1>7
    <3>2. Pipe[1] \in Tx
      BY <3>1, PipeShape
    <3> QED  BY <3>1, <3>2 DEF PipeOrdered, TypeOK
  <2>3. epochOf[Pipe[1]] = epochChan
    BY <2>1, <2>2
  <2>4. \A i \in 2..n : epochOf[Pipe[i]] = epochChan
    BY <1>2, <1>4, <1>7 DEF PackSize
  <2> QED  BY <1>4, <2>3, <2>4
<1> QED  BY <1>4, <1>5, <1>7, <1>8, <1>9, <1>10, <1>11

(* Obtaining a wrapper appends the new transactions to the pipe.           *)
LEMMA SendEffect ==
  ASSUME TypeOK, PipeOrdered, NEW e \in Nat \ {0}, NEW k \in Nat, Sending(e, k)
  PROVE  /\ Len(Pipe) = Len(transactionBuffer) /\ Len(Pipe') = Len(Pipe) + k
         /\ \A i \in 1..Len(Pipe) : Pipe'[i] = Pipe[i]
         /\ \A i \in 1..k : Pipe'[Len(Pipe) + i] = numSent + (k - i + 1)
         /\ Waiting' = Waiting \cup (numSent + 1..numSent + k)
<1>1. transactionBuffer \in Seq(Tx) /\ trWrapper = <<>> /\ numSent \in Nat
  BY DEF TypeOK, PipeOrdered, Sending
<1>2. /\ trWrapper' = [i \in 1..k |-> numSent + i] /\ transactionBuffer' = transactionBuffer
  BY DEF Sending, Send
<1> DEFINE B == Len(transactionBuffer)
<1>3. /\ trWrapper' \in Seq(Nat) /\ Len(trWrapper') = k /\ B \in Nat
      /\ \A i \in 1..k : trWrapper'[i] = numSent + i
  BY <1>1, <1>2
<1>4. transactionBuffer \in Seq(Nat)
  BY <1>1, SeqMonotonic, SizesAssumption DEF Tx
<1>5. <<>> \in Seq(Nat) /\ Len(<<>>) = 0
  OBVIOUS
<1>6. /\ Len(Pipe) = B
      /\ \A i \in 1..B : Pipe[i] = transactionBuffer[i]
  <2>1. Pipe = transactionBuffer \o Reverse(<<>>)
    BY <1>1 DEF Pipe
  <2>2. /\ Len(Pipe) = B + Len(<<>>)
        /\ \A i \in 1..B + Len(<<>>) : i <= B => Pipe[i] = transactionBuffer[i]
    BY <2>1, <1>4, <1>5, ConcatReverse
  <2> QED  BY <1>3, <1>5, <2>2
<1>7. /\ Len(Pipe') = B + k
      /\ \A i \in 1..B + k :
           Pipe'[i] = IF i <= B THEN transactionBuffer[i] ELSE trWrapper'[k - (i - B) + 1]
  <2>1. Pipe' = transactionBuffer \o Reverse(trWrapper')
    BY <1>2 DEF Pipe
  <2>2. /\ Len(Pipe') = B + Len(trWrapper')
        /\ \A i \in 1..B + Len(trWrapper') :
             Pipe'[i] = IF i <= B THEN transactionBuffer[i]
                                  ELSE trWrapper'[Len(trWrapper') - (i - B) + 1]
    BY <2>1, <1>3, <1>4, ConcatReverse
  <2>3. Len(trWrapper') = k
    BY <1>3
  <2> QED  BY <2>2, <2>3
<1>8. \A i \in 1..k : Pipe'[B + i] = numSent + (k - i + 1)
  <2> SUFFICES ASSUME NEW i \in 1..k PROVE Pipe'[B + i] = numSent + (k - i + 1)
    OBVIOUS
  <2>1. B + i \in 1..B + k /\ ~(B + i <= B) /\ k - ((B + i) - B) + 1 = k - i + 1
        /\ k - i + 1 \in 1..k
    BY <1>3
  <2> QED  BY <1>3, <1>7, <2>1
<1>9. \A i \in 1..B : Pipe'[i] = Pipe[i]
  BY <1>3, <1>6, <1>7
<1>10. Waiting' = Waiting \cup (numSent + 1..numSent + k)
  <2>1. ASSUME NEW i \in 1..B + k
        PROVE  Pipe'[i] \in Waiting \cup (numSent + 1..numSent + k)
    <3>1. CASE i <= B
      BY <1>3, <1>6, <1>9, <3>1 DEF Waiting
    <3>2. CASE ~(i <= B)
      <4>1. i - B \in 1..k /\ B + (i - B) = i
        BY <1>3, <3>2
      <4>2. Pipe'[i] = numSent + (k - (i - B) + 1)
        BY <1>8, <4>1
      <4> QED  BY <1>1, <4>1, <4>2
    <3> QED  BY <3>1, <3>2
  <2>2. ASSUME NEW i \in 1..B PROVE Pipe[i] \in Waiting'
    <3>1. i \in 1..Len(Pipe') /\ Pipe[i] = Pipe'[i]
      BY <1>3, <1>7, <1>9
    <3> QED  BY <3>1 DEF Waiting
  <2>3. ASSUME NEW t \in numSent + 1..numSent + k PROVE t \in Waiting'
    <3> DEFINE i == k - (t - numSent) + 1
    <3>1. i \in 1..k /\ B + i \in 1..Len(Pipe') /\ numSent + (k - i + 1) = t
      BY <1>1, <1>3, <1>7
    <3>2. Pipe'[B + i] = t
      BY <1>8, <3>1
    <3> QED  BY <3>1, <3>2 DEF Waiting
  <2> QED  BY <1>6, <1>7, <2>1, <2>2, <2>3 DEF Waiting
<1> QED  BY <1>6, <1>7, <1>8, <1>9, <1>10

(* addTransaction moves the wrapper within the pipe.                       *)
LEMMA AddEffect ==
  ASSUME TypeOK, AddTransaction
  PROVE  Pipe' = Pipe /\ Len(transactionBuffer) <= Len(transactionBuffer')
<1>1. transactionBuffer \in Seq(Tx) /\ trWrapper \in Seq(Tx)
  BY DEF TypeOK
<1>2. transactionBuffer' = Pipe /\ trWrapper' = <<>>
  BY DEF AddTransaction, Pipe
<1>3. Pipe \in Seq(Tx) /\ Len(transactionBuffer) <= Len(Pipe)
  BY PipeShape
<1>4. Reverse(<<>>) = <<>>
  BY DEF Reverse
<1>5. Pipe' = Pipe \o <<>>
  BY <1>2, <1>4 DEF Pipe
<1> QED  BY <1>2, <1>3, <1>5, ConcatEmptySeq
-----------------------------------------------------------------------------
(* The order of the pipe and the epochs of manager and coordinator.        *)

(* The epoch of a wrapper follows those sent before it and is at most one  *)
(* ahead of the manager's.                                                 *)
LEMMA SendCases ==
  ASSUME TypeOK, EpochsInStep, ManagerStep
  PROVE  \/ \E e \in Nat \ {0}, k \in 0..MaxWrapper :
              /\ numSent + k <= MaxTx /\ Sending(e, k)
              /\ sendEpoch <= e /\ e <= epoch' + 1
              /\ k > 0 => e \in 1..MaxEpoch
         \/ AddTransaction \/ WaitForRoom
<1> DEFINE Good(e, k) ==
      /\ numSent + k <= MaxTx /\ Sending(e, k)
      /\ sendEpoch <= e /\ e <= epoch' + 1
      /\ k > 0 => e \in 1..MaxEpoch
<1>1. epoch \in Nat \ {0} /\ sendEpoch \in Nat /\ sendEpoch <= epoch + 1
      /\ MaxEpoch \in Nat /\ MaxWrapper \in Nat
  BY SizesAssumption DEF TypeOK, EpochsInStep
<1>2. ASSUME NEW e \in 1..MaxEpoch, NEW k \in 1..MaxWrapper,
             numSent + k <= MaxTx, ObtainWrapper(e, k)
      PROVE  e \in Nat \ {0} /\ k \in 0..MaxWrapper /\ Good(e, k)
  BY <1>1, <1>2 DEF ObtainWrapper, Sending, InOrder
<1>3. ASSUME NEW k \in 0..MaxWrapper, numSent + k <= MaxTx,
             k > 0 => epoch < MaxEpoch, FinishEpoch(k)
      PROVE  epoch + 1 \in Nat \ {0} /\ Good(epoch + 1, k)
  BY <1>1, <1>3 DEF FinishEpoch, Sending
<1>4. (\E e \in Nat \ {0}, k \in 0..MaxWrapper : Good(e, k)) \/ AddTransaction \/ WaitForRoom
  <2> HIDE DEF Good
  <2> QED  BY <1>2, <1>3 DEF ManagerStep
<1> QED  BY <1>4

(* A step that leaves the pipe alone keeps its order, unless it closes the *)
(* epoch.                                                                  *)
LEMMA PipeKept ==
  ASSUME PipeOrdered, Closed' => Closed,
         UNCHANGED <<transactionBuffer, trWrapper, epochOf, numSent, epochChan, sendEpoch, mpc>>
  PROVE  PipeOrdered'
BY DEF PipeOrdered, Pipe

(* Only CloseEpoch closes an epoch.                                        *)
LEMMA ClosedKept ==
  ASSUME CoordinatorStep, ~CloseEpoch
  PROVE  Closed' => Closed
BY DEF CoordinatorStep, Start, BroadcastWorker, BroadcastDone, WaitForWork, PackWorkload,
   SkipBusyWorker, DeployWorkload, CreateWorker, SyncCreated, Kick, SyncWorker, SyncWake,
   ReadDone, CommitDone, Signal, Advance, Closed, coordVars

(* The coordinator's actions but four concern neither pipe nor epochs.     *)
LEMMA CoordinatorQuiet ==
  ASSUME CoordinatorStep, ~PackWorkload, ~CloseEpoch, ~Signal, ~Advance
  PROVE  /\ UNCHANGED <<transactionBuffer, epochChan, lastEpochFinishSignal, managerVars,
                        historyVars>>
         /\ cpc # "advance"
BY DEF CoordinatorStep, Start, BroadcastWorker, BroadcastDone, WaitForWork,
   SkipBusyWorker, DeployWorkload, CreateWorker, SyncCreated, Kick, SyncWorker, SyncWake,
   ReadDone, CommitDone, coordVars

(* The numbers involved.                                                   *)
LEMMA EpochTypes ==
  ASSUME TypeOK
  PROVE  /\ epochChan \in Nat \ {0} /\ sendEpoch \in Nat \ {0} /\ epoch \in Nat \ {0}
         /\ lastEpochFinishSignal \in Nat /\ numSent \in Nat /\ Len(Pipe) \in Nat
         /\ FirstEpoch \in Nat \ {0}
         /\ \A t \in Tx : t \in Nat \ {0} /\ epochOf[t] \in Nat
         /\ \A i \in 1..Len(Pipe) : Pipe[i] \in Tx
BY SizesAssumption, PipeShape DEF TypeOK, Tx

(* The epoch is closed when the first transaction in line is of a later    *)
(* one, and so are those behind it.                                        *)
LEMMA CloseAhead ==
  ASSUME TypeOK, PipeOrdered, CloseEpoch
  PROVE  /\ \A i \in 1..Len(Pipe) : epochChan < epochOf[Pipe[i]]
         /\ epochChan < sendEpoch
<1>1. transactionBuffer \in Seq(Tx) /\ transactionBuffer # <<>>
  BY DEF TypeOK, CloseEpoch, WorkAvailable
<1>2. 1 \in 1..Len(transactionBuffer)
  BY <1>1
<1>3. 1 \in 1..Len(Pipe) /\ Pipe[1] = Head(transactionBuffer)
  BY <1>1, <1>2, PipeShape
<1>4. epochOf[Pipe[1]] > epochChan
  BY <1>3 DEF CloseEpoch, EpochEmpty
<1>5. /\ \A i \in 1..Len(Pipe) : 1 < i => epochOf[Pipe[1]] <= epochOf[Pipe[i]]
      /\ epochOf[Pipe[1]] <= sendEpoch
  BY <1>3 DEF PipeOrdered
<1>6. \A i \in 1..Len(Pipe) : epochOf[Pipe[i]] \in Nat
  BY EpochTypes
<1>7. epochChan \in Nat /\ sendEpoch \in Nat /\ Len(Pipe) \in Nat
  BY EpochTypes
<1>8. \A i \in 1..Len(Pipe) : epochOf[Pipe[1]] <= epochOf[Pipe[i]]
  <2> SUFFICES ASSUME NEW i \in 1..Len(Pipe) PROVE epochOf[Pipe[1]] <= epochOf[Pipe[i]]
    OBVIOUS
  <2>1. i = 1 \/ 1 < i
    BY <1>7
  <2> QED  BY <1>3, <1>5, <1>6, <2>1
<1> QED  BY <1>3, <1>4, <1>5, <1>6, <1>7, <1>8

(* The coordinator keeps the order of the epochs.                          *)
LEMMA EpochCoordinatorStep ==
  ASSUME TypeOK, PhaseParts, PipeOrdered, EpochsInStep, CoordinatorStep
  PROVE  PipeOrdered' /\ EpochsInStep'
<1> USE EpochTypes DEF managerVars
<1>1. CASE CloseEpoch
  <2>1. /\ UNCHANGED <<transactionBuffer, epochChan, lastEpochFinishSignal, managerVars>>
        /\ cpc = "getWorkload" /\ Pipe' = Pipe
    BY <1>1 DEF CloseEpoch, Pipe
  <2>2. PipeOrdered'
    BY <1>1, <2>1, CloseAhead DEF PipeOrdered
  <2>3. EpochsInStep'
    BY <1>1, <2>1, CloseAhead DEF EpochsInStep
  <2> QED  BY <2>2, <2>3
<1>2. CASE PackWorkload
  <2>1. PICK n \in 1..Len(transactionBuffer) :
           /\ Len(Pipe') = Len(Pipe) - n /\ Len(transactionBuffer') = Len(transactionBuffer) - n
           /\ \A i \in 1..Len(Pipe) - n : Pipe'[i] = Pipe[n + i]
    BY <1>2, PackEffect
  <2>2. /\ UNCHANGED <<epochChan, lastEpochFinishSignal, managerVars>> /\ (Closed' => Closed)
        /\ cpc = "getWorkload"
    BY <1>2 DEF PackWorkload, Closed
  <2>3. UNCHANGED <<epochOf, numSent, sendEpoch, mpc, trWrapper, epoch>>
    BY <1>2 DEF PackWorkload
  <2>4. Len(transactionBuffer) \in Nat /\ n \in Nat
    BY PipeShape
  <2>5. \A i \in 1..Len(Pipe') : n + i \in 1..Len(Pipe) /\ Pipe'[i] = Pipe[n + i]
          /\ (i > Len(transactionBuffer') => n + i > Len(transactionBuffer))
    BY <2>1, <2>4
  <2>6. \A i, j \in 1..Len(Pipe') : i < j => n + i < n + j
    BY <2>1, <2>4
  <2>7. PipeOrdered'
    <3>1. UNCHANGED epochChan /\ (Closed' => Closed)
      BY <2>2
    <3>2. \A i \in 1..Len(Pipe') :
            /\ Pipe[n + i] <= numSent
            /\ epochChan <= epochOf[Pipe[n + i]] /\ epochOf[Pipe[n + i]] <= sendEpoch
            /\ i > Len(transactionBuffer') => epochOf[Pipe[n + i]] = sendEpoch
            /\ Closed => epochChan < epochOf[Pipe[n + i]]
      BY <2>5 DEF PipeOrdered
    <3>3. \A i, j \in 1..Len(Pipe') : i < j =>
            Pipe[n + i] # Pipe[n + j] /\ epochOf[Pipe[n + i]] <= epochOf[Pipe[n + j]]
      BY <2>5, <2>6 DEF PipeOrdered
    <3>4. \A i, j \in 1..Len(Pipe') : i < j =>
            Pipe'[i] # Pipe'[j] /\ epochOf'[Pipe'[i]] <= epochOf'[Pipe'[j]]
      BY <2>3, <2>5, <3>3
    <3>5. \A i \in 1..Len(Pipe') :
            /\ Pipe'[i] <= numSent'
            /\ epochChan' <= epochOf'[Pipe'[i]] /\ epochOf'[Pipe'[i]] <= sendEpoch'
            /\ i > Len(transactionBuffer') => epochOf'[Pipe'[i]] = sendEpoch'
            /\ Closed' => epochChan' < epochOf'[Pipe'[i]]
      BY <2>3, <2>5, <3>1, <3>2
    <3>6. mpc' = "run" => trWrapper' = <<>>
      BY <2>3 DEF PipeOrdered
    <3> QED  BY <3>4, <3>5, <3>6 DEF PipeOrdered
  <2>8. EpochsInStep'
    <3>1. UNCHANGED <<epochChan, lastEpochFinishSignal>> /\ (Closed' => Closed) /\ cpc # "advance"
      BY <2>2
    <3> QED  BY <2>3, <3>1 DEF EpochsInStep
  <2> QED  BY <2>7, <2>8
<1>3. CASE Signal
  <2>1. /\ UNCHANGED <<transactionBuffer, epochChan, managerVars>>
        /\ lastEpochFinishSignal' = epochChan /\ cpc' = "advance"
    BY <1>3 DEF Signal
  <2>2. Closed' => Closed
    BY <1>3 DEF Signal, Closed
  <2> QED  BY <2>1, <2>2, PipeKept DEF EpochsInStep
<1>4. CASE Advance
  <2>1. /\ UNCHANGED <<transactionBuffer, lastEpochFinishSignal, managerVars>>
        /\ epochChan' = epochChan + 1 /\ ~Closed' /\ Closed /\ Pipe' = Pipe
    BY <1>4 DEF Advance, Closed, PhaseParts, PhaseOfPc, Pipe
  <2>2. PipeOrdered'
    BY <2>1 DEF PipeOrdered
  <2>3. EpochsInStep'
    BY <2>1 DEF EpochsInStep
  <2> QED  BY <2>2, <2>3
<1>5. CASE ~CloseEpoch /\ ~PackWorkload /\ ~Signal /\ ~Advance
  BY <1>5, CoordinatorQuiet, ClosedKept, PipeKept DEF EpochsInStep
<1> QED  BY <1>1, <1>2, <1>3, <1>4, <1>5

(* So does the manager.                                                    *)
LEMMA EpochManagerStep ==
  ASSUME TypeOK, PipeOrdered, EpochsInStep, ManagerStep
  PROVE  PipeOrdered' /\ EpochsInStep'
<1> USE EpochTypes
<1>1. ASSUME NEW e \in Nat \ {0}, NEW k \in 0..MaxWrapper, Sending(e, k),
             numSent + k <= MaxTx, sendEpoch <= e, e <= epoch' + 1
      PROVE  PipeOrdered' /\ EpochsInStep'
  <2>1. k \in Nat
    OBVIOUS
  <2>2. /\ Len(Pipe) = Len(transactionBuffer) /\ Len(Pipe') = Len(Pipe) + k
        /\ \A i \in 1..Len(Pipe) : Pipe'[i] = Pipe[i]
        /\ \A i \in 1..k : Pipe'[Len(Pipe) + i] = numSent + (k - i + 1)
    BY <1>1, <2>1, SendEffect
  <2>3. /\ mpc' = "add" /\ numSent' = numSent + k /\ sendEpoch' = e
        /\ UNCHANGED <<cpc, globalState, epochChan, transactionBuffer, lastEpochFinishSignal>>
        /\ epoch' \in {epoch, epoch + 1}
    BY <1>1 DEF Sending, Send, coordVars
  <2>4. \A t \in Tx : epochOf'[t] = IF t \in numSent + 1..numSent + k THEN e ELSE epochOf[t]
    BY <1>1 DEF Sending, Send
  <2>5. \A i \in 1..Len(Pipe) :
          /\ Pipe'[i] = Pipe[i] /\ Pipe[i] \in Nat /\ Pipe[i] <= numSent
          /\ epochOf'[Pipe'[i]] = epochOf[Pipe[i]]
    <3> SUFFICES ASSUME NEW i \in 1..Len(Pipe)
                 PROVE  /\ Pipe'[i] = Pipe[i] /\ Pipe[i] \in Nat /\ Pipe[i] <= numSent
                        /\ epochOf'[Pipe'[i]] = epochOf[Pipe[i]]
      OBVIOUS
    <3>1. Pipe'[i] = Pipe[i] /\ Pipe[i] \in Tx /\ Pipe[i] <= numSent
      BY <2>2 DEF PipeOrdered
    <3>2. Pipe[i] \in Nat /\ Pipe[i] \notin numSent + 1..numSent + k
      BY <3>1
    <3> QED  BY <2>4, <3>1, <3>2
  <2>6. \A i \in 1..Len(Pipe') : ~(i \in 1..Len(Pipe)) =>
          /\ Pipe'[i] = numSent + (k - (i - Len(Pipe)) + 1)
          /\ Pipe'[i] \in numSent + 1..numSent + k
          /\ epochOf'[Pipe'[i]] = e
    <3> SUFFICES ASSUME NEW i \in 1..Len(Pipe'), ~(i \in 1..Len(Pipe))
                 PROVE  /\ Pipe'[i] = numSent + (k - (i - Len(Pipe)) + 1)
                        /\ Pipe'[i] \in numSent + 1..numSent + k
                        /\ epochOf'[Pipe'[i]] = e
      OBVIOUS
    <3>1. i - Len(Pipe) \in 1..k /\ Len(Pipe) + (i - Len(Pipe)) = i
      BY <2>1, <2>2
    <3>2. Pipe'[i] = numSent + (k - (i - Len(Pipe)) + 1)
      BY <2>2, <3>1
    <3>3. Pipe'[i] \in numSent + 1..numSent + k
      BY <2>1, <3>1, <3>2
    <3>4. Pipe'[i] \in Tx
      BY <1>1, <2>1, <3>3, SizesAssumption DEF Tx
    <3> QED  BY <2>4, <3>2, <3>3, <3>4
  <2>7. \A i \in 1..Len(Pipe) : epochOf[Pipe[i]] \in Nat /\ epochOf[Pipe[i]] <= sendEpoch
    BY DEF PipeOrdered
  <2>8. \A i, j \in 1..Len(Pipe') : i < j =>
          Pipe'[i] # Pipe'[j] /\ epochOf'[Pipe'[i]] <= epochOf'[Pipe'[j]]
    <3> SUFFICES ASSUME NEW i \in 1..Len(Pipe'), NEW j \in 1..Len(Pipe'), i < j
                 PROVE  Pipe'[i] # Pipe'[j] /\ epochOf'[Pipe'[i]] <= epochOf'[Pipe'[j]]
      OBVIOUS
    <3>1. CASE i \in 1..Len(Pipe) /\ j \in 1..Len(Pipe)
      BY <2>5, <3>1 DEF PipeOrdered
    <3>2. CASE i \in 1..Len(Pipe) /\ j \notin 1..Len(Pipe)
      <4>1. Pipe'[i] \in Nat /\ Pipe'[i] <= numSent /\ Pipe'[j] \in numSent + 1..numSent + k
        BY <2>5, <2>6, <3>2
      <4>2. epochOf'[Pipe'[i]] \in Nat /\ epochOf'[Pipe'[i]] <= sendEpoch /\ epochOf'[Pipe'[j]] = e
        BY <2>5, <2>6, <2>7, <3>2
      <4>3. Pipe'[i] # Pipe'[j]
        BY <2>1, <4>1
      <4>4. e \in Nat /\ sendEpoch \in Nat /\ sendEpoch <= e
        BY <1>1
      <4> HIDE DEF Pipe
      <4> QED  BY <4>2, <4>3, <4>4
    <3>3. CASE i \notin 1..Len(Pipe)
      <4>1. j \notin 1..Len(Pipe)
        BY <2>2, <3>3
      <4>2. epochOf'[Pipe'[i]] = e /\ epochOf'[Pipe'[j]] = e
        BY <2>6, <3>3, <4>1
      <4>3. Pipe'[i] = numSent + (k - (i - Len(Pipe)) + 1)
            /\ Pipe'[j] = numSent + (k - (j - Len(Pipe)) + 1)
        BY <2>6, <3>3, <4>1
      <4>4. Pipe'[i] # Pipe'[j]
        BY <2>1, <4>3
      <4>5. e <= e
        OBVIOUS
      <4> QED  BY <4>2, <4>4, <4>5
    <3> QED  BY <3>1, <3>2, <3>3
  <2>9. Closed' => (Closed /\ epochChan < sendEpoch)
    BY <2>3 DEF Closed, EpochsInStep
  <2>10. epochChan <= sendEpoch
    BY DEF EpochsInStep
  <2>11. \A i \in 1..Len(Pipe') :
           /\ Pipe'[i] <= numSent'
           /\ epochChan' <= epochOf'[Pipe'[i]] /\ epochOf'[Pipe'[i]] <= sendEpoch'
           /\ i > Len(transactionBuffer') => epochOf'[Pipe'[i]] = sendEpoch'
           /\ Closed' => epochChan' < epochOf'[Pipe'[i]]
    <3> SUFFICES ASSUME NEW i \in 1..Len(Pipe')
                 PROVE  /\ Pipe'[i] <= numSent'
                        /\ epochChan' <= epochOf'[Pipe'[i]] /\ epochOf'[Pipe'[i]] <= sendEpoch'
                        /\ i > Len(transactionBuffer') => epochOf'[Pipe'[i]] = sendEpoch'
                        /\ Closed' => epochChan' < epochOf'[Pipe'[i]]
      OBVIOUS
    <3>1. CASE i \in 1..Len(Pipe)
      <4>1. /\ epochChan <= epochOf[Pipe[i]] /\ (Closed => epochChan < epochOf[Pipe[i]])
        BY <3>1 DEF PipeOrdered
      <4>2. ~(i > Len(transactionBuffer'))
        BY <2>2, <2>3, <3>1
      <4>3. /\ Pipe'[i] \in Nat /\ Pipe'[i] <= numSent /\ epochOf'[Pipe'[i]] = epochOf[Pipe[i]]
            /\ epochOf[Pipe[i]] \in Nat /\ epochOf[Pipe[i]] <= sendEpoch
        BY <2>5, <2>7, <3>1
      <4>4. epochOf[Pipe[i]] <= e
        <5>1. sendEpoch \in Nat /\ sendEpoch <= e
          BY <1>1
        <5> QED  BY <4>3, <5>1
      <4>5. Pipe'[i] <= numSent'
        BY <2>1, <2>3, <4>3
      <4>6. Closed' => Closed
        BY <2>9
      <4> QED  BY <2>3, <4>1, <4>2, <4>3, <4>4, <4>5, <4>6
    <3>2. CASE i \notin 1..Len(Pipe)
      <4>1. Pipe'[i] \in numSent + 1..numSent + k /\ epochOf'[Pipe'[i]] = e
        BY <2>6, <3>2
      <4>2. Pipe'[i] <= numSent'
        BY <2>1, <2>3, <4>1
      <4>3. epochChan <= e /\ (Closed' => epochChan < e)
        <5>1. epochChan \in Nat /\ sendEpoch \in Nat /\ sendEpoch <= e
          BY <1>1
        <5> QED  BY <2>9, <2>10, <5>1
      <4> QED  BY <2>3, <4>1, <4>2, <4>3
    <3> QED  BY <3>1, <3>2
  <2>12. PipeOrdered'
    BY <2>3, <2>8, <2>11 DEF PipeOrdered
  <2>13. EpochsInStep'
    <3>1. epochChan' <= sendEpoch' /\ sendEpoch' <= epoch' + 1
      BY <1>1, <2>3, <2>10
    <3>2. Closed' => epochChan' < sendEpoch'
      BY <1>1, <2>3, <2>9
    <3> QED  BY <2>3, <3>1, <3>2 DEF EpochsInStep
  <2> QED  BY <2>12, <2>13
<1>2. CASE AddTransaction
  <2>1. /\ Pipe' = Pipe /\ Len(transactionBuffer) <= Len(transactionBuffer')
        /\ trWrapper' = <<>>
        /\ UNCHANGED <<epoch, sendEpoch, numSent, epochOf, coordVars, lastEpochFinishSignal>>
    BY <1>2, AddEffect DEF AddTransaction
  <2>2. Closed' = Closed /\ UNCHANGED epochChan
    BY <2>1 DEF Closed, coordVars
  <2>3. Len(transactionBuffer) \in Nat /\ Len(transactionBuffer') \in Nat
    <3>1. transactionBuffer' \in Seq(Tx)
      BY <1>2, AddType
    <3> QED  BY <3>1, PipeShape
  <2>4. \A i \in 1..Len(Pipe) : i > Len(transactionBuffer') => i > Len(transactionBuffer)
    BY <2>1, <2>3
  <2>5. PipeOrdered'
    BY <2>1, <2>2, <2>4 DEF PipeOrdered
  <2> QED  BY <2>1, <2>2, <2>5 DEF EpochsInStep, coordVars
<1>3. CASE WaitForRoom
  <2>1. UNCHANGED <<coordVars, managerVars, transactionBuffer, lastEpochFinishSignal>>
    BY <1>3 DEF WaitForRoom
  <2>2. PipeOrdered'
    BY <2>1, PipeKept DEF managerVars, coordVars, Closed
  <2> QED  BY <2>1, <2>2 DEF EpochsInStep, Closed, managerVars, coordVars
<1> QED  BY <1>1, <1>2, <1>3, SendCases

-----------------------------------------------------------------------------
(* Where the transactions are and how often they were counted.             *)

Places == WorkloadPlace /\ CountsOfPlace

(* Before its workload was executed.                                       *)
BeforeExecution == {"init", "waitRead", "execute"}

(* Workloads are made of transactions.                                     *)
LEMMA PlaceTypes ==
  ASSUME TypeOK
  PROVE  Waiting \subseteq Tx /\ Packed \subseteq Tx /\ \A w \in Workers : Held(w) \subseteq Tx
<1>1. Packed \subseteq Tx
  BY DEF TypeOK, Packed, Range
<1>2. \A w \in Workers : Held(w) \subseteq Tx
  <2>1. \A w \in Workers : load[w] \in Seq(Tx)
    BY DEF TypeOK
  <2>2. \A w \in Workers : Range(load[w]) \subseteq Tx
    BY <2>1 DEF Range
  <2> QED  BY <2>2 DEF Held
<1> QED  BY <1>1, <1>2, PipeShape

(* A step that moves no transaction and counts none.                       *)
LEMMA PlacesKept ==
  ASSUME Places,
         Waiting' = Waiting, Packed' = Packed, \A w \in Workers : Held(w)' = Held(w),
         cpc' # "deploy" => workload' = <<>>,
         UNCHANGED <<numSent, epochOf, epochChan, nExec, nCommit>>,
         \A w \in Workers : Held(w) # {} =>
           /\ wpc'[w] \in BeforeExecution <=> wpc[w] \in BeforeExecution
           /\ wpc'[w] = "finishCommit" <=> wpc[w] = "finishCommit"
  PROVE  Places'
<1>1. WorkloadPlace'
  BY DEF Places, WorkloadPlace
<1>2. CountsOfPlace'
  <2>1. \A t \in Tx : t > numSent => epochOf[t] = 0 /\ nExec[t] = 0 /\ nCommit[t] = 0
    BY DEF Places, CountsOfPlace
  <2>2. \A t \in Waiting \cup Packed : nExec[t] = 0 /\ nCommit[t] = 0
    BY DEF Places, CountsOfPlace
  <2>3. \A w \in Workers : \A t \in Held(w) :
          /\ nExec[t] = IF wpc'[w] \in {"init", "waitRead", "execute"} THEN 0 ELSE 1
          /\ nCommit[t] = IF wpc'[w] = "finishCommit" THEN 1 ELSE 0
    BY DEF Places, CountsOfPlace, BeforeExecution
  <2>4. \A t \in 1..numSent :
          t \notin Waiting \cup Packed /\ (\A w \in Workers : t \notin Held(w)) =>
            epochOf[t] \in 1..epochChan /\ nExec[t] = 1 /\ nCommit[t] = 1
    BY DEF Places, CountsOfPlace
  <2> QED  BY <2>1, <2>2, <2>3, <2>4 DEF CountsOfPlace
<1> QED  BY <1>1, <1>2 DEF Places

(* The packed workload is given to worker c, which had none.               *)
LEMMA WorkGiven ==
  ASSUME Places, NEW c \in Workers, Held(c) = {},
         Waiting' = Waiting, Packed' = {}, workload' = <<>>,
         \A w \in Workers : Held(w)' = IF w = c THEN Packed ELSE Held(w),
         UNCHANGED <<numSent, epochOf, epochChan, nExec, nCommit>>,
         wpc'[c] \in BeforeExecution,
         \A w \in Workers \ {c} : wpc'[w] = wpc[w]
  PROVE  Places'
<1>1. \A w \in Workers : \A t \in Held(w)' :
        /\ t <= numSent /\ epochOf[t] = epochChan
        /\ t \notin Waiting
        /\ \A v \in Workers : t \in Held(v)' => v = w
  BY DEF Places, WorkloadPlace
<1>2. WorkloadPlace'
  BY <1>1 DEF WorkloadPlace
<1>3. \A w \in Workers : \A t \in Held(w)' :
        /\ nExec[t] = IF wpc'[w] \in {"init", "waitRead", "execute"} THEN 0 ELSE 1
        /\ nCommit[t] = IF wpc'[w] = "finishCommit" THEN 1 ELSE 0
  <2> SUFFICES ASSUME NEW w \in Workers, NEW t \in Held(w)'
               PROVE  /\ nExec[t] = IF wpc'[w] \in {"init", "waitRead", "execute"} THEN 0 ELSE 1
                      /\ nCommit[t] = IF wpc'[w] = "finishCommit" THEN 1 ELSE 0
    OBVIOUS
  <2>1. CASE w = c
    BY <2>1 DEF Places, CountsOfPlace, BeforeExecution
  <2>2. CASE w # c
    BY <2>2 DEF Places, CountsOfPlace
  <2> QED  BY <2>1, <2>2
<1>4. \A t \in 1..numSent :
        t \notin Waiting /\ (\A w \in Workers : t \notin Held(w)') =>
          epochOf[t] \in 1..epochChan /\ nExec[t] = 1 /\ nCommit[t] = 1
  BY DEF Places, CountsOfPlace
<1>5. CountsOfPlace'
  <2>1. \A t \in Tx : t > numSent => epochOf[t] = 0 /\ nExec[t] = 0 /\ nCommit[t] = 0
    BY DEF Places, CountsOfPlace
  <2>2. \A t \in Waiting : nExec[t] = 0 /\ nCommit[t] = 0
    BY DEF Places, CountsOfPlace
  <2> QED  BY <1>3, <1>4, <2>1, <2>2 DEF CountsOfPlace
<1> QED  BY <1>2, <1>5 DEF Places

(* Counting a worker's workload.                                           *)
LEMMA CountEffect ==
  ASSUME NEW count \in [Tx -> 0..CountMax], NEW s
  PROVE  \A t \in Tx :
           /\ t \notin Range(s) => Counted(count, s)[t] = count[t]
           /\ t \in Range(s) /\ count[t] = 0 => Counted(count, s)[t] = 1
BY DEF Counted, CountMax

(* A worker with a workload that has gone past its wait holds it.          *)
LEMMA HeldWorking ==
  ASSUME LoopTypes, StateOfPc, NEW w \in Workers,
         wpc[w] \in {"execute", "finishRead", "waitCommit", "commit", "finishCommit"}
  PROVE  Held(w) = Range(load[w])
BY DEF LoopTypes, StateOfPc, Held, Loaded

(* The workers keep the places.                                            *)
LEMMA PlaceWorkerStep ==
  ASSUME TypeOK, PhaseParts, Places, NEW w \in Workers, WorkerStep(w)
  PROVE  Places'
<1>1. /\ LoopTypes /\ StateOfPc /\ SignalOfState
      /\ UNCHANGED <<transactionBuffer, trWrapper, numSent, epochOf, epochChan, cpc, workload, load>>
  BY LoopTyping
     DEF PhaseParts, WorkerStep, ReportAssigned, ReportFinishRead, ReportReady, Report,
         WaitForRead, WaitForCommit, WaitForSignal, ExecuteList, CommitList, managerVars,
         coordVars
<1>2. /\ Waiting' = Waiting /\ Packed' = Packed
      /\ cpc' # "deploy" => workload' = <<>>
  BY <1>1 DEF Waiting, Pipe, Packed, Places, WorkloadPlace
<1>3. w <= numWorkers /\ w \in 1..numWorkers
  BY <1>1 DEF WorkerStep, ReportAssigned, ReportFinishRead, ReportReady, Report,
         WaitForRead, WaitForCommit, WaitForSignal, ExecuteList, CommitList, StateOfPc,
         Workers, LoopTypes
<1>4. CASE ReportAssigned(w)
  <2>1. /\ wpc[w] = "init" /\ workerState[w] = "READY"
        /\ wpc' = [wpc EXCEPT ![w] = "waitRead"]
        /\ workerState' = [workerState EXCEPT ![w] = "ASSIGNED"]
        /\ UNCHANGED <<nExec, nCommit>>
    BY <1>1, <1>4 DEF ReportAssigned, Report, StateOfPc, historyVars
  <2>2. \A v \in Workers : Held(v)' = Held(v)
    BY <1>1, <2>1 DEF LoopTypes, Held, Loaded
  <2> QED  BY <1>1, <1>2, <2>1, <2>2, PlacesKept DEF LoopTypes, BeforeExecution
<1>5. CASE WaitForRead(w)
  <2>1. /\ wpc[w] = "waitRead" /\ UNCHANGED <<workerState, nExec, nCommit>>
        /\ \/ UNCHANGED wpc
           \/ ariaGlobalState[w] = "READ" /\ wpc' = [wpc EXCEPT ![w] = "execute"]
    BY <1>5 DEF WaitForRead, WaitForSignal, historyVars
  <2>2. ariaGlobalState[w] = "READ" => workerState[w] # "READY"
    BY <1>1, <1>3 DEF SignalOfState
  <2>3. \A v \in Workers : Held(v)' = Held(v)
    BY <1>1, <2>1, <2>2 DEF LoopTypes, Held, Loaded
  <2> QED  BY <1>1, <1>2, <2>1, <2>3, PlacesKept DEF LoopTypes, BeforeExecution
<1>6. CASE ReportFinishRead(w)
  <2>1. /\ wpc[w] = "finishRead" /\ workerState[w] = "ASSIGNED"
        /\ wpc' = [wpc EXCEPT ![w] = "waitCommit"]
        /\ workerState' = [workerState EXCEPT ![w] = "FINISH_READ"]
        /\ UNCHANGED <<nExec, nCommit>>
    BY <1>1, <1>6 DEF ReportFinishRead, Report, StateOfPc, historyVars
  <2>2. \A v \in Workers : Held(v)' = Held(v)
    BY <1>1, <2>1 DEF LoopTypes, Held, Loaded
  <2> QED  BY <1>1, <1>2, <2>1, <2>2, PlacesKept DEF LoopTypes, BeforeExecution
<1>7. CASE WaitForCommit(w)
  <2>1. /\ wpc[w] = "waitCommit" /\ UNCHANGED <<workerState, nExec, nCommit>>
        /\ UNCHANGED wpc \/ wpc' = [wpc EXCEPT ![w] = "commit"]
    BY <1>7 DEF WaitForCommit, WaitForSignal, historyVars
  <2>2. workerState[w] = "FINISH_READ"
    BY <1>1, <2>1 DEF StateOfPc
  <2>3. \A v \in Workers : Held(v)' = Held(v)
    BY <1>1, <2>1, <2>2 DEF LoopTypes, Held, Loaded
  <2> QED  BY <1>1, <1>2, <2>1, <2>3, PlacesKept DEF LoopTypes, BeforeExecution
<1>8. CASE ExecuteList(w)
  <2>1. /\ wpc[w] = "execute" /\ UNCHANGED <<workerState, nCommit>>
        /\ wpc' = [wpc EXCEPT ![w] = "finishRead"] /\ nExec' = Counted(nExec, load[w])
    BY <1>8 DEF ExecuteList
  <2>2. workerState[w] = "ASSIGNED" /\ Held(w) = Range(load[w])
    BY <1>1, <2>1, HeldWorking DEF StateOfPc
  <2>3. \A v \in Workers : Held(v)' = Held(v)
    BY <1>1, <2>1, <2>2 DEF LoopTypes, Held, Loaded
  <2>4. \A t \in Tx :
          /\ t \notin Held(w) => nExec'[t] = nExec[t]
          /\ t \in Held(w) => nExec'[t] = 1
    <3>1. nExec \in [Tx -> 0..CountMax]
      BY DEF TypeOK
    <3>2. \A t \in Held(w) : nExec[t] = 0
      BY <2>1 DEF Places, CountsOfPlace
    <3> QED  BY <2>1, <2>2, <3>1, <3>2, CountEffect
  <2>5. WorkloadPlace'
    BY <1>1, <1>2, <2>3 DEF Places, WorkloadPlace
  <2>6. \A t \in Held(w) : t <= numSent /\ t \notin Waiting \cup Packed
          /\ \A v \in Workers : t \in Held(v) => v = w
    BY DEF Places, WorkloadPlace
  <2>7. CountsOfPlace'
    <3>1. \A t \in Tx : t > numSent => epochOf[t] = 0 /\ nExec'[t] = 0 /\ nCommit[t] = 0
      <4>1. \A t \in Tx : t > numSent => t \notin Held(w)
        BY <2>6, EpochTypes
      <4> QED  BY <2>4, <4>1 DEF Places, CountsOfPlace
    <3>2. \A t \in Waiting \cup Packed : nExec'[t] = 0 /\ nCommit[t] = 0
      BY <2>4, <2>6, PlaceTypes DEF Places, CountsOfPlace
    <3>3. ASSUME NEW v \in Workers, NEW t \in Held(v)
          PROVE  /\ nExec'[t] = IF wpc'[v] \in {"init", "waitRead", "execute"} THEN 0 ELSE 1
                 /\ nCommit[t] = IF wpc'[v] = "finishCommit" THEN 1 ELSE 0
      <4>1. t \in Tx
        BY PlaceTypes
      <4>2. CASE v = w
        <5>1. wpc'[v] = "finishRead"
          BY <1>1, <2>1, <4>2 DEF LoopTypes
        <5>2. nCommit[t] = 0
          BY <2>1, <4>2 DEF Places, CountsOfPlace
        <5>3. nExec'[t] = 1
          BY <2>4, <4>1, <4>2
        <5> QED  BY <5>1, <5>2, <5>3
      <4>3. CASE v # w
        <5>1. wpc'[v] = wpc[v] /\ t \notin Held(w)
          BY <1>1, <2>1, <2>6, <4>3 DEF LoopTypes
        <5>2. nExec'[t] = nExec[t]
          BY <2>4, <4>1, <5>1
        <5> QED  BY <5>1, <5>2 DEF Places, CountsOfPlace
      <4> QED  BY <4>2, <4>3
    <3>4. \A t \in 1..numSent :
            t \notin Waiting \cup Packed /\ (\A v \in Workers : t \notin Held(v)) =>
              epochOf[t] \in 1..epochChan /\ nExec'[t] = 1 /\ nCommit[t] = 1
      <4>1. 1..numSent \subseteq Tx
        BY SizesAssumption DEF TypeOK, Tx
      <4> QED  BY <2>4, <4>1 DEF Places, CountsOfPlace
    <3> QED  BY <1>1, <1>2, <2>1, <2>3, <3>1, <3>2, <3>3, <3>4 DEF CountsOfPlace
  <2> QED  BY <2>5, <2>7 DEF Places
<1>9. CASE CommitList(w)
  <2>1. /\ wpc[w] = "commit" /\ UNCHANGED <<workerState, nExec>>
        /\ wpc' = [wpc EXCEPT ![w] = "finishCommit"] /\ nCommit' = Counted(nCommit, load[w])
    BY <1>9 DEF CommitList
  <2>2. workerState[w] = "FINISH_READ" /\ Held(w) = Range(load[w])
    BY <1>1, <2>1, HeldWorking DEF StateOfPc
  <2>3. \A v \in Workers : Held(v)' = Held(v)
    BY <1>1, <2>1, <2>2 DEF LoopTypes, Held, Loaded
  <2>4. \A t \in Tx :
          /\ t \notin Held(w) => nCommit'[t] = nCommit[t]
          /\ t \in Held(w) => nCommit'[t] = 1
    <3>1. nCommit \in [Tx -> 0..CountMax]
      BY DEF TypeOK
    <3>2. \A t \in Held(w) : nCommit[t] = 0
      BY <2>1 DEF Places, CountsOfPlace
    <3> QED  BY <2>1, <2>2, <3>1, <3>2, CountEffect
  <2>5. WorkloadPlace'
    BY <1>1, <1>2, <2>3 DEF Places, WorkloadPlace
  <2>6. \A t \in Held(w) : t <= numSent /\ t \notin Waiting \cup Packed
          /\ \A v \in Workers : t \in Held(v) => v = w
    BY DEF Places, WorkloadPlace
  <2>7. CountsOfPlace'
    <3>1. \A t \in Tx : t > numSent => epochOf[t] = 0 /\ nExec[t] = 0 /\ nCommit'[t] = 0
      <4>1. \A t \in Tx : t > numSent => t \notin Held(w)
        BY <2>6, EpochTypes
      <4> QED  BY <2>4, <4>1 DEF Places, CountsOfPlace
    <3>2. \A t \in Waiting \cup Packed : nExec[t] = 0 /\ nCommit'[t] = 0
      BY <2>4, <2>6, PlaceTypes DEF Places, CountsOfPlace
    <3>3. ASSUME NEW v \in Workers, NEW t \in Held(v)
          PROVE  /\ nExec[t] = IF wpc'[v] \in {"init", "waitRead", "execute"} THEN 0 ELSE 1
                 /\ nCommit'[t] = IF wpc'[v] = "finishCommit" THEN 1 ELSE 0
      <4>1. t \in Tx
        BY PlaceTypes
      <4>2. CASE v = w
        <5>1. wpc'[v] = "finishCommit"
          BY <1>1, <2>1, <4>2 DEF LoopTypes
        <5>2. nExec[t] = 1
          BY <2>1, <4>2 DEF Places, CountsOfPlace
        <5>3. nCommit'[t] = 1
          BY <2>4, <4>1, <4>2
        <5> QED  BY <5>1, <5>2, <5>3
      <4>3. CASE v # w
        <5>1. wpc'[v] = wpc[v] /\ t \notin Held(w)
          BY <1>1, <2>1, <2>6, <4>3 DEF LoopTypes
        <5>2. nCommit'[t] = nCommit[t]
          BY <2>4, <4>1, <5>1
        <5> QED  BY <5>1, <5>2 DEF Places, CountsOfPlace
      <4> QED  BY <4>2, <4>3
    <3>4. \A t \in 1..numSent :
            t \notin Waiting \cup Packed /\ (\A v \in Workers : t \notin Held(v)) =>
              epochOf[t] \in 1..epochChan /\ nExec[t] = 1 /\ nCommit'[t] = 1
      <4>1. 1..numSent \subseteq Tx
        BY SizesAssumption DEF TypeOK, Tx
      <4> QED  BY <2>4, <4>1 DEF Places, CountsOfPlace
    <3> QED  BY <1>1, <1>2, <2>1, <2>3, <3>1, <3>2, <3>3, <3>4 DEF CountsOfPlace
  <2> QED  BY <2>5, <2>7 DEF Places
<1>10. CASE ReportReady(w)
  <2>1. /\ wpc[w] = "finishCommit" /\ UNCHANGED <<nExec, nCommit>>
        /\ wpc' = [wpc EXCEPT ![w] = "waitRead"]
        /\ workerState' = [workerState EXCEPT ![w] = "READY"]
    BY <1>10 DEF ReportReady, Report, historyVars
  <2>2. \A v \in Workers : Held(v)' = IF v = w THEN {} ELSE Held(v)
    BY <1>1, <2>1 DEF LoopTypes, Held, Loaded
  <2>3. WorkloadPlace'
    BY <1>1, <1>2, <2>2 DEF Places, WorkloadPlace
  <2>4. \A t \in Held(w) : epochOf[t] = epochChan /\ nExec[t] = 1 /\ nCommit[t] = 1
    BY <2>1 DEF Places, WorkloadPlace, CountsOfPlace
  <2>5. \A t \in 1..numSent :
          t \notin Waiting \cup Packed /\ (\A v \in Workers : t \notin Held(v)') =>
            epochOf[t] \in 1..epochChan /\ nExec[t] = 1 /\ nCommit[t] = 1
    <3>1. epochChan \in 1..epochChan
      BY EpochTypes
    <3> QED  BY <2>2, <2>4, <3>1 DEF Places, CountsOfPlace
  <2>6. \A v \in Workers : \A t \in Held(v)' :
          /\ nExec[t] = IF wpc'[v] \in {"init", "waitRead", "execute"} THEN 0 ELSE 1
          /\ nCommit[t] = IF wpc'[v] = "finishCommit" THEN 1 ELSE 0
    <3>1. \A v \in Workers : v # w => wpc'[v] = wpc[v]
      BY <1>1, <2>1 DEF LoopTypes
    <3> QED  BY <2>2, <3>1 DEF Places, CountsOfPlace
  <2>7. CountsOfPlace'
    <3>1. \A t \in Tx : t > numSent => epochOf[t] = 0 /\ nExec[t] = 0 /\ nCommit[t] = 0
      BY DEF Places, CountsOfPlace
    <3>2. \A t \in Waiting \cup Packed : nExec[t] = 0 /\ nCommit[t] = 0
      BY DEF Places, CountsOfPlace
    <3> QED  BY <1>1, <1>2, <2>1, <2>5, <2>6, <3>1, <3>2 DEF CountsOfPlace
  <2> QED  BY <2>3, <2>7 DEF Places
<1> QED  BY <1>4, <1>5, <1>6, <1>7, <1>8, <1>9, <1>10 DEF WorkerStep

(* A packed workload leaves the pipe.                                      *)
LEMMA PlacePackStep ==
  ASSUME TypeOK, PipeOrdered, Places, PackWorkload
  PROVE  Places'
<1>1. PICK n \in 1..Len(transactionBuffer) :
        /\ Len(Pipe') = Len(Pipe) - n
        /\ \A i \in 1..Len(Pipe) - n : Pipe'[i] = Pipe[n + i]
        /\ Range(workload') = {Pipe[i] : i \in 1..n}
        /\ \A i \in 1..n : epochOf[Pipe[i]] = epochChan
  BY PackEffect
<1>2. /\ cpc = "getWorkload" /\ cpc' = "deploy"
      /\ UNCHANGED <<epochChan, numSent, epochOf, wpc, workerState, load, nExec, nCommit>>
  BY DEF PackWorkload, workerVars, managerVars, historyVars
<1>3. Len(Pipe) \in Nat /\ n \in Nat /\ n <= Len(Pipe)
  BY PipeShape
<1>4. Packed = {} /\ \A w \in Workers : Held(w)' = Held(w)
  BY <1>2 DEF Places, WorkloadPlace, Packed, Range, Held, Loaded
<1>5. /\ Waiting = Waiting' \cup Packed' /\ Waiting' \cap Packed' = {}
  <2>1. \A i \in 1..Len(Pipe) - n : n + i \in 1..Len(Pipe)
    BY <1>3
  <2>2. \A i \in 1..n : i \in 1..Len(Pipe)
    BY <1>3
  <2>3. \A i \in 1..Len(Pipe) : i \in 1..n \/ (i - n \in 1..Len(Pipe) - n /\ n + (i - n) = i)
    BY <1>3
  <2>4. Waiting' = {Pipe[n + i] : i \in 1..Len(Pipe) - n}
    BY <1>1 DEF Waiting
  <2>5. Packed' = {Pipe[i] : i \in 1..n}
    BY <1>1 DEF Packed
  <2>6. Waiting = Waiting' \cup Packed'
    <3>1. Waiting' \cup Packed' \subseteq Waiting
      BY <2>1, <2>2, <2>4, <2>5 DEF Waiting
    <3>2. ASSUME NEW i \in 1..Len(Pipe) PROVE Pipe[i] \in Waiting' \cup Packed'
      <4>1. CASE i \in 1..n
        BY <2>5, <4>1
      <4>2. CASE i - n \in 1..Len(Pipe) - n /\ n + (i - n) = i
        BY <2>4, <4>2
      <4> QED  BY <2>3, <4>1, <4>2
    <3> QED  BY <3>1, <3>2 DEF Waiting
  <2>7. \A i \in 1..n, j \in 1..Len(Pipe) - n : Pipe[i] # Pipe[n + j]
    <3> SUFFICES ASSUME NEW i \in 1..n, NEW j \in 1..Len(Pipe) - n PROVE Pipe[i] # Pipe[n + j]
      OBVIOUS
    <3>1. i < n + j /\ i \in 1..Len(Pipe) /\ n + j \in 1..Len(Pipe)
      BY <1>3
    <3> QED  BY <3>1 DEF PipeOrdered
  <2> QED  BY <2>4, <2>5, <2>6, <2>7
<1>6. \A t \in Packed' : t <= numSent /\ epochOf[t] = epochChan
  <2>1. \A i \in 1..n : i \in 1..Len(Pipe)
    BY <1>3
  <2> QED  BY <1>1, <2>1 DEF PipeOrdered, Packed
<1>7. WorkloadPlace'
  BY <1>2, <1>4, <1>5, <1>6 DEF Places, WorkloadPlace
<1>8. CountsOfPlace'
  <2>1. \A w \in Workers : \A t \in Held(w) :
          /\ nExec[t] = IF wpc[w] \in {"init", "waitRead", "execute"} THEN 0 ELSE 1
          /\ nCommit[t] = IF wpc[w] = "finishCommit" THEN 1 ELSE 0
    BY DEF Places, CountsOfPlace
  <2>2. Waiting' \cup Packed' = Waiting \cup Packed
    BY <1>4, <1>5
  <2>3. /\ \A t \in Tx : t > numSent => epochOf[t] = 0 /\ nExec[t] = 0 /\ nCommit[t] = 0
        /\ \A t \in Waiting \cup Packed : nExec[t] = 0 /\ nCommit[t] = 0
        /\ \A t \in 1..numSent :
             t \notin Waiting \cup Packed /\ (\A w \in Workers : t \notin Held(w)) =>
               epochOf[t] \in 1..epochChan /\ nExec[t] = 1 /\ nCommit[t] = 1
    BY DEF Places, CountsOfPlace
  <2> QED  BY <1>2, <1>4, <2>1, <2>2, <2>3 DEF CountsOfPlace
<1> QED  BY <1>7, <1>8 DEF Places

(* When the epoch has come to its end no worker has a workload.            *)
LEMMA NothingHeld ==
  ASSUME TypeOK, PhaseParts, Places, cpc \in {"signal", "advance"}
  PROVE  Packed = {} /\ \A w \in Workers : Held(w) = {}
<1>1. workload = <<>>
  BY DEF Places, WorkloadPlace
<1>2. \A w \in Workers : ~Loaded(w)
  BY LoopTyping DEF PhaseParts, SyncProgress, StateOfPc, Loaded, LoopTypes, Workers
<1> QED  BY <1>1, <1>2 DEF Packed, Range, Held

(* The coordinator keeps the places.                                       *)
LEMMA PlaceCoordinatorStep ==
  ASSUME TypeOK, PhaseParts, PipeOrdered, Places, CoordinatorStep
  PROVE  Places'
<1>1. LoopTypes /\ StateOfPc /\ workload \in Seq(Tx)
  BY LoopTyping DEF PhaseParts, TypeOK
<1>2. CASE PackWorkload
  BY <1>2, PlacePackStep
<1>3. CASE DeployWorkload
  <2>1. /\ cursor \in Workers /\ workerState[cursor] = "READY" /\ cpc = "deploy"
        /\ load' = [load EXCEPT ![cursor] = workload]
        /\ workerState' = [workerState EXCEPT ![cursor] = "ASSIGNED"]
        /\ workload' = <<>>
        /\ UNCHANGED <<transactionBuffer, trWrapper, numSent, epochOf, epochChan, wpc,
                       nExec, nCommit>>
    BY <1>1, <1>3 DEF DeployWorkload, Idle, LoopTypes, Workers, managerVars, historyVars
  <2>2. wpc[cursor] = "waitRead"
    BY <1>1, <2>1, <1>3 DEF StateOfPc, LoopTypes, DeployWorkload, WorkerPcs, Workers
  <2>3. /\ Held(cursor) = {}
        /\ \A w \in Workers : Held(w)' = IF w = cursor THEN Packed ELSE Held(w)
    <3>1. load \in [Workers -> Seq(Tx)]
      BY DEF TypeOK
    <3> QED  BY <1>1, <2>1, <2>2, <3>1 DEF Held, Loaded, Packed, LoopTypes
  <2>4. Waiting' = Waiting /\ Packed' = {}
    BY <2>1 DEF Waiting, Pipe, Packed, Range
  <2> QED  BY <2>1, <2>2, <2>3, <2>4, WorkGiven DEF BeforeExecution
<1>4. CASE CreateWorker
  <2>1. /\ cursor \in Workers /\ cursor > numWorkers
        /\ wpc' = [wpc EXCEPT ![cursor] = "init"]
        /\ load' = [load EXCEPT ![cursor] = workload]
        /\ workerState' = [workerState EXCEPT ![cursor] = "READY"]
        /\ workload' = <<>>
        /\ UNCHANGED <<transactionBuffer, trWrapper, numSent, epochOf, epochChan,
                       nExec, nCommit>>
    BY <1>1, <1>4
       DEF CreateWorker, LoopTypes, Workers, managerVars, historyVars, PhaseParts, PhaseOfPc
  <2>2. wpc[cursor] = "none"
    BY <1>1, <2>1 DEF StateOfPc
  <2>3. /\ Held(cursor) = {}
        /\ \A w \in Workers : Held(w)' = IF w = cursor THEN Packed ELSE Held(w)
    <3>1. load \in [Workers -> Seq(Tx)]
      BY DEF TypeOK
    <3> QED  BY <1>1, <2>1, <2>2, <3>1 DEF Held, Loaded, Packed, LoopTypes
  <2>4. Waiting' = Waiting /\ Packed' = {}
    BY <2>1 DEF Waiting, Pipe, Packed, Range
  <2>5. wpc'[cursor] = "init" /\ \A w \in Workers \ {cursor} : wpc'[w] = wpc[w]
    BY <1>1, <2>1 DEF LoopTypes
  <2> QED  BY <2>1, <2>3, <2>4, <2>5, WorkGiven DEF BeforeExecution
<1>5. CASE Advance
  <2>1. /\ cpc = "advance" /\ cpc' = "start" /\ epochChan' = epochChan + 1
        /\ UNCHANGED <<workload, transactionBuffer, trWrapper, numSent, epochOf,
                       wpc, workerState, load, nExec, nCommit>>
    BY <1>5 DEF Advance, managerVars, historyVars, workerVars
  <2>2. Packed = {} /\ \A w \in Workers : Held(w) = {}
    BY <2>1, NothingHeld
  <2>3. Waiting' = Waiting /\ Packed' = {} /\ \A w \in Workers : Held(w)' = {}
    BY <2>1, <2>2 DEF Waiting, Pipe, Packed, Held, Loaded
  <2>4. WorkloadPlace'
    BY <2>1, <2>3 DEF Places, WorkloadPlace
  <2>5. 1..epochChan \subseteq 1..epochChan'
    BY <2>1, EpochTypes
  <2>6. CountsOfPlace'
    BY <2>1, <2>2, <2>3, <2>5 DEF Places, CountsOfPlace
  <2> QED  BY <2>4, <2>6 DEF Places
<1>6. CASE CoordinatorStep /\ ~PackWorkload /\ ~DeployWorkload /\ ~CreateWorker /\ ~Advance
  <2>1. /\ UNCHANGED <<epochChan, workload, transactionBuffer, trWrapper, numSent, epochOf,
                       wpc, workerState, load, nExec, nCommit>>
        /\ cpc' = "deploy" => cpc = "deploy"
        /\ cpc = "deploy" => cpc' = "deploy"
    BY <1>6 DEF CoordinatorStep, Start, BroadcastWorker, BroadcastDone, WaitForWork, CloseEpoch,
       SkipBusyWorker, SyncCreated, Kick, SyncWorker, SyncWake, ReadDone, CommitDone, Signal,
       managerVars, historyVars, workerVars, coordVars
  <2>2. /\ Waiting' = Waiting /\ Packed' = Packed /\ \A w \in Workers : Held(w)' = Held(w)
        /\ cpc' # "deploy" => workload' = <<>>
    BY <2>1 DEF Waiting, Pipe, Packed, Held, Loaded, Places, WorkloadPlace
  <2> QED  BY <2>1, <2>2, PlacesKept
<1> QED  BY <1>2, <1>3, <1>4, <1>5, <1>6

(* So does the manager.                                                    *)
LEMMA PlaceManagerStep ==
  ASSUME TypeOK, PipeOrdered, EpochsInStep, Places, ManagerStep
  PROVE  Places'
<1>1. ASSUME NEW e \in Nat \ {0}, NEW k \in 0..MaxWrapper, Sending(e, k), numSent + k <= MaxTx
      PROVE  Places'
  <2> DEFINE New == numSent + 1..numSent + k
  <2>1. k \in Nat /\ numSent \in Nat
    BY EpochTypes
  <2>2. Waiting' = Waiting \cup New
    BY <1>1, <2>1, SendEffect
  <2>3. /\ numSent' = numSent + k
        /\ UNCHANGED <<cpc, workload, epochChan, wpc, workerState, load, nExec, nCommit>>
    BY <1>1 DEF Sending, Send, coordVars, workerVars, historyVars
  <2>4. \A t \in Tx : epochOf'[t] = IF t \in New THEN e ELSE epochOf[t]
    BY <1>1 DEF Sending, Send
  <2>5. Packed' = Packed /\ \A w \in Workers : Held(w)' = Held(w)
    BY <2>3 DEF Packed, Held, Loaded
  <2>6. New \subseteq Tx /\ \A t \in New : t \in Nat /\ t > numSent
    BY <1>1, <2>1, SizesAssumption DEF Tx
  <2>7. \A t \in Tx : t <= numSent => t \notin New /\ epochOf'[t] = epochOf[t] /\ t <= numSent'
    BY <2>1, <2>3, <2>4, <2>6, EpochTypes
  <2> HIDE DEF New
  <2>8. WorkloadPlace'
    <3>1. \A t \in Packed : t <= numSent' /\ epochOf'[t] = epochChan /\ t \notin Waiting'
      BY <2>2, <2>7, PlaceTypes DEF Places, WorkloadPlace
    <3>2. \A w \in Workers : \A t \in Held(w) :
            /\ t <= numSent' /\ epochOf'[t] = epochChan
            /\ t \notin Waiting' /\ t \notin Packed
            /\ \A v \in Workers : t \in Held(v) => v = w
      BY <2>2, <2>7, PlaceTypes DEF Places, WorkloadPlace
    <3> QED  BY <2>3, <2>5, <3>1, <3>2 DEF Places, WorkloadPlace
  <2>9. CountsOfPlace'
    <3>1. \A t \in Tx : t > numSent' => t > numSent /\ t \notin New
      BY <2>1, <2>3, EpochTypes DEF New
    <3>2. \A t \in Tx : t > numSent' => epochOf'[t] = 0 /\ nExec[t] = 0 /\ nCommit[t] = 0
      BY <2>4, <3>1 DEF Places, CountsOfPlace
    <3>3. \A t \in Waiting' \cup Packed : nExec[t] = 0 /\ nCommit[t] = 0
      BY <2>2, <2>6 DEF Places, CountsOfPlace
    <3>4. \A w \in Workers : \A t \in Held(w) :
            /\ nExec[t] = IF wpc[w] \in {"init", "waitRead", "execute"} THEN 0 ELSE 1
            /\ nCommit[t] = IF wpc[w] = "finishCommit" THEN 1 ELSE 0
      BY DEF Places, CountsOfPlace
    <3>5. \A t \in 1..numSent' : t \notin New => t \in 1..numSent /\ t \in Tx
      BY <1>1, <2>1, <2>3, SizesAssumption DEF New, Tx
    <3>6. \A t \in 1..numSent' :
            t \notin Waiting' \cup Packed /\ (\A w \in Workers : t \notin Held(w)) =>
              epochOf'[t] \in 1..epochChan /\ nExec[t] = 1 /\ nCommit[t] = 1
      BY <2>2, <2>4, <3>5 DEF Places, CountsOfPlace
    <3> QED  BY <2>3, <2>5, <3>2, <3>3, <3>4, <3>6 DEF CountsOfPlace
  <2> QED  BY <2>8, <2>9 DEF Places
<1>2. CASE AddTransaction \/ WaitForRoom
  <2>1. /\ UNCHANGED <<numSent, epochOf, cpc, workload, epochChan, wpc, workerState, load,
                       nExec, nCommit>>
        /\ Pipe' = Pipe
    BY <1>2, AddEffect
       DEF AddTransaction, WaitForRoom, coordVars, workerVars, historyVars, managerVars, Pipe
  <2>2. /\ Waiting' = Waiting /\ Packed' = Packed /\ \A w \in Workers : Held(w)' = Held(w)
        /\ cpc' # "deploy" => workload' = <<>>
    BY <2>1 DEF Waiting, Packed, Held, Loaded, Places, WorkloadPlace
  <2> QED  BY <2>1, <2>2, PlacesKept
<1> QED  BY <1>1, <1>2, SendCases

(* All of it is kept by every step.                                        *)
LEMMA EpochStep == PhaseInv /\ EpochInv /\ [Next]_vars => EpochInv'
<1> SUFFICES ASSUME PhaseInv, EpochInv, [Next]_vars PROVE EpochInv'
  OBVIOUS
<1>1. TypeOK /\ PhaseParts /\ PipeOrdered /\ EpochsInStep /\ Places
  BY DEF PhaseInv, EpochInv, Places
<1>2. CASE CoordinatorStep
  BY <1>1, <1>2, EpochCoordinatorStep, PlaceCoordinatorStep DEF EpochInv, Places
<1>3. CASE ManagerStep
  BY <1>1, <1>3, EpochManagerStep, PlaceManagerStep DEF EpochInv, Places
<1>4. ASSUME NEW w \in Workers, WorkerStep(w) PROVE EpochInv'
  <2>1. UNCHANGED <<coordVars, managerVars, transactionBuffer, lastEpochFinishSignal>>
    BY <1>4 DEF WorkerStep, ReportAssigned, ReportFinishRead, ReportReady, Report,
         WaitForRead, WaitForCommit, WaitForSignal, ExecuteList, CommitList
  <2>2. PipeOrdered' /\ EpochsInStep'
    BY <1>1, <2>1, PipeKept DEF EpochsInStep, Closed, coordVars, managerVars
  <2> QED  BY <1>1, <1>4, <2>2, PlaceWorkerStep DEF EpochInv, Places
<1>5. CASE SpuriousWakeup \/ UNCHANGED vars
  <2>1. UNCHANGED <<coordVars, workerVars, managerVars, historyVars, transactionBuffer,
                    lastEpochFinishSignal>>
    BY <1>5 DEF SpuriousWakeup, vars
  <2>2. PipeOrdered' /\ EpochsInStep'
    BY <1>1, <2>1, PipeKept DEF EpochsInStep, Closed, coordVars, managerVars
  <2>3. /\ Waiting' = Waiting /\ Packed' = Packed /\ \A w \in Workers : Held(w)' = Held(w)
        /\ cpc' # "deploy" => workload' = <<>>
    BY <1>1, <2>1 DEF Waiting, Pipe, Packed, Held, Loaded, Places, WorkloadPlace, coordVars,
       workerVars, managerVars
  <2>4. Places'
    BY <1>1, <2>1, <2>3, PlacesKept DEF coordVars, workerVars, managerVars, historyVars
  <2> QED  BY <2>2, <2>4 DEF EpochInv, Places
<1> QED  BY <1>2, <1>3, <1>4, <1>5 DEF Next

(* It holds initially, when nothing has been obtained.                     *)
LEMMA EpochInitially == Init => EpochInv
<1> SUFFICES ASSUME Init PROVE EpochInv
  OBVIOUS
<1>1. Pipe = <<>> /\ Len(Pipe) = 0 /\ Waiting = {} /\ Packed = {}
  BY DEF Init, Pipe, Waiting, Packed, Range, Reverse
<1>2. \A w \in Workers : Held(w) = {}
  BY DEF Init, Held, Loaded
<1>3. PipeOrdered /\ EpochsInStep
  BY <1>1, SizesAssumption DEF Init, PipeOrdered, EpochsInStep, Closed
<1>4. WorkloadPlace /\ CountsOfPlace
  BY <1>1, <1>2, SizesAssumption DEF Init, WorkloadPlace, CountsOfPlace, Tx
<1> QED  BY <1>3, <1>4 DEF EpochInv

(* Hence it is an invariant.                                               *)
LEMMA EpochInvariance == Spec => [](PhaseInv /\ EpochInv)
BY EpochInitially, EpochStep, PhaseInvariance, PTL DEF Spec

-----------------------------------------------------------------------------
(* What follows from where the transactions are.                           *)

(* In an epoch that is closed, a transaction that was obtained is either   *)
(* of a later epoch and untouched, or held by a worker, or done.           *)
LEMMA ClosedPlaces ==
  ASSUME TypeOK, EpochInv, Closed, cpc # "deploy", NEW t \in 1..numSent
  PROVE  \/ epochChan < epochOf[t] /\ nExec[t] = 0 /\ nCommit[t] = 0
         \/ \E w \in Workers : t \in Held(w) /\ epochOf[t] = epochChan
         \/ epochOf[t] \in 1..epochChan /\ nExec[t] = 1 /\ nCommit[t] = 1
<1>1. Packed = {}
  BY DEF EpochInv, WorkloadPlace, Packed, Range
<1>2. CASE t \in Waiting
  BY <1>2 DEF EpochInv, PipeOrdered, CountsOfPlace, Waiting
<1>3. ASSUME NEW w \in Workers, t \in Held(w)
      PROVE  epochOf[t] = epochChan
  BY <1>3 DEF EpochInv, WorkloadPlace
<1>4. CASE t \notin Waiting /\ \A w \in Workers : t \notin Held(w)
  BY <1>1, <1>4 DEF EpochInv, CountsOfPlace
<1> QED  BY <1>2, <1>3, <1>4

(* When an epoch is announced as finished, its transactions went through   *)
(* execution and commit once each, and none of a later epoch through       *)
(* either; and the coordinator never finds a transaction of a closed epoch *)
(* in its buffer, the DCHECKs of getWorkload.  The block the manager makes *)
(* of the epoch's results is complete.                                     *)
THEOREM EpochsComplete == Spec => []EpochComplete
<1>1. PhaseInv /\ EpochInv => EpochDecided
  <2> SUFFICES ASSUME PhaseInv, EpochInv, cpc = "advance", NEW t \in 1..numSent
               PROVE  /\ nExec[t] = IF epochOf[t] <= epochChan THEN 1 ELSE 0
                      /\ nCommit[t] = nExec[t]
    BY DEF EpochDecided
  <2>1. TypeOK /\ PhaseParts /\ Places /\ Closed
    BY DEF PhaseInv, EpochInv, Places, PhaseParts, PhaseOfPc, Closed
  <2>2. \A w \in Workers : Held(w) = {}
    BY <2>1, NothingHeld
  <2>3. epochChan \in Nat /\ epochOf[t] \in Nat
    BY <2>1, SizesAssumption DEF TypeOK, Tx
  <2>4. \/ epochChan < epochOf[t] /\ nExec[t] = 0 /\ nCommit[t] = 0
        \/ epochOf[t] \in 1..epochChan /\ nExec[t] = 1 /\ nCommit[t] = 1
    BY <2>1, <2>2, ClosedPlaces
  <2> QED  BY <2>3, <2>4
<1>2. PhaseInv /\ EpochInv => NoStaleTransaction
  BY PipeShape DEF PhaseInv, EpochInv, PipeOrdered, NoStaleTransaction
<1> QED  BY <1>1, <1>2, EpochInvariance, PTL DEF EpochComplete

(* A finish the manager has not seen is never overwritten by the next:     *)
(* to close an epoch the coordinator needs a transaction of a later one,   *)
(* and the manager sends those only one epoch ahead of the finishes it     *)
(* has taken notice of.                                                    *)
THEOREM FinishesNotOverwritten == Spec => FinishNotOverwritten
<1> DEFINE Kept == /\ lastEpochFinishSignal' # lastEpochFinishSignal
                   /\ lastEpochFinishSignal >= FirstEpoch
                   => epoch > lastEpochFinishSignal
<1>1. PhaseInv /\ EpochInv /\ [Next]_vars => Kept
  <2> SUFFICES ASSUME PhaseInv, EpochInv, [Next]_vars,
                      lastEpochFinishSignal' # lastEpochFinishSignal,
                      lastEpochFinishSignal >= FirstEpoch
               PROVE  epoch > lastEpochFinishSignal
    OBVIOUS
  <2>1. CoordinatorStep
    <3>1. ASSUME NEW w \in Workers, WorkerStep(w) PROVE UNCHANGED lastEpochFinishSignal
      BY <3>1 DEF WorkerStep, ReportAssigned, ReportFinishRead, ReportReady, Report,
         WaitForRead, WaitForCommit, WaitForSignal, ExecuteList, CommitList
    <3>2. CASE ManagerStep
      BY <3>2 DEF ManagerStep, ObtainWrapper, Send, AddTransaction, WaitForRoom, FinishEpoch
    <3>3. CASE SpuriousWakeup \/ UNCHANGED vars
      BY <3>3 DEF SpuriousWakeup, vars
    <3> QED  BY <3>1, <3>2, <3>3 DEF Next
  <2>2. Signal
    BY <2>1, CoordinatorQuiet DEF PackWorkload, CloseEpoch, Advance
  <2>3. cpc = "signal" /\ Closed
    BY <2>2 DEF Signal, PhaseInv, PhaseParts, PhaseOfPc, Closed
  <2>4. lastEpochFinishSignal < epochChan /\ epochChan < sendEpoch /\ sendEpoch <= epoch + 1
    BY <2>3, EpochTypes DEF EpochInv, EpochsInStep, PhaseInv
  <2> QED  BY <2>4, EpochTypes DEF PhaseInv
<1>2. PhaseInv /\ EpochInv /\ [Next]_vars => [Kept]_vars
  BY <1>1
<1> QED  BY <1>2, EpochInvariance, PTL DEF Spec, FinishNotOverwritten

-----------------------------------------------------------------------------
(* Threads, signals and buffers implement the epoch engine.                *)

(* The phases as the locations tell them.                                  *)
LEMMA EnginePhases ==
  ASSUME PhaseParts
  PROVE  /\ cpc = "advance" => EnginePhase = "done"
         /\ cpc # "advance" /\ cpc # "start" /\ globalState = "COMMIT" => EnginePhase = "commit"
         /\ cpc = "start" \/ globalState # "COMMIT" => EnginePhase = "read"
BY DEF EnginePhase, PhaseParts, PhaseOfPc

(* The transactions of the current epoch, at its last worker's end.        *)
LEMMA BatchPlaces ==
  ASSUME TypeOK, EpochInv, Closed, cpc # "deploy", NEW t \in Engine!Batch
  PROVE  \/ \E w \in Workers : t \in Held(w)
         \/ nExec[t] = 1 /\ nCommit[t] = 1
<1>1. t \in Tx /\ epochOf[t] = epochChan
  BY DEF Engine!Batch
<1>2. t \in 1..numSent
  <2>1. epochChan # 0 /\ t \in Nat \ {0} /\ numSent \in Nat
    BY <1>1, EpochTypes
  <2>2. ~(t > numSent)
    BY <1>1, <2>1 DEF EpochInv, CountsOfPlace
  <2> QED  BY <2>1, <2>2
<1>3. ~(epochChan < epochOf[t])
  BY <1>1, EpochTypes
<1> QED  BY <1>2, <1>3, ClosedPlaces

(* The coordinator's step as one of the engine's.                          *)
LEMMA EngineCoordinatorStep ==
  ASSUME PhaseInv, EpochInv, CoordinatorStep, PhaseParts'
  PROVE  [Engine!Next]_(Engine!vars)
<1>1. TypeOK /\ PhaseParts /\ Places /\ LoopTypes
  BY LoopTyping DEF PhaseInv, EpochInv, Places
<1>2. CASE ReadDone
  <2>1. /\ cpc = "sync" /\ globalState = "READ" /\ cursor > numWorkers
        /\ cpc' = "broadcast" /\ globalState' = "COMMIT"
        /\ UNCHANGED <<epochOf, epochChan, nExec, nCommit, lastEpochFinishSignal>>
    BY <1>2 DEF ReadDone, managerVars, historyVars
  <2>2. EnginePhase = "read" /\ EnginePhase' = "commit"
    BY <1>1, <2>1, EnginePhases DEF EnginePhase
  <2>3. \A w \in Workers : Loaded(w) => workerState[w] = "FINISH_READ"
    BY <1>1, <2>1 DEF PhaseParts, PhaseOfPc, StateOfPc, SyncProgress, Loaded, LoopTypes, Workers
  <2>4. \A w \in Workers : Loaded(w) => wpc[w] \in {"waitCommit", "commit", "finishCommit"}
    BY <1>1, <2>3 DEF PhaseParts, StateOfPc, LoopTypes, WorkerPcs, Loaded
  <2>5. \A t \in Engine!Batch : nExec[t] = 1
    <3> SUFFICES ASSUME NEW t \in Engine!Batch PROVE nExec[t] = 1
      OBVIOUS
    <3>1. ASSUME NEW w \in Workers, t \in Held(w) PROVE nExec[t] = 1
      <4>1. Loaded(w)
        BY <3>1 DEF Held
      <4> QED  BY <2>4, <3>1, <4>1 DEF Places, EpochInv, CountsOfPlace
    <3>2. Closed /\ cpc # "deploy"
      BY <2>1 DEF Closed
    <3> QED  BY <1>1, <3>1, <3>2, BatchPlaces
  <2>6. Engine!StartCommit
    BY <2>1, <2>2, <2>5 DEF Engine!StartCommit
  <2> QED  BY <2>6 DEF Engine!Next
<1>3. CASE Signal
  <2>1. /\ cpc = "signal" /\ cpc' = "advance" /\ lastEpochFinishSignal' = epochChan
        /\ UNCHANGED <<epochOf, epochChan, nExec, nCommit>>
    BY <1>3 DEF Signal, managerVars, historyVars
  <2>2. EnginePhase = "commit" /\ EnginePhase' = "done" /\ Closed
    BY <1>1, <2>1, EnginePhases DEF EnginePhase, PhaseParts, PhaseOfPc, Closed
  <2>3. \A t \in Engine!Batch : nCommit[t] = 1
    BY <1>1, <2>1, <2>2, NothingHeld, BatchPlaces
  <2>4. Engine!Finish
    BY <2>1, <2>2, <2>3 DEF Engine!Finish
  <2> QED  BY <2>4 DEF Engine!Next
<1>4. CASE Advance
  <2>1. /\ cpc = "advance" /\ cpc' = "start" /\ epochChan' = epochChan + 1
        /\ UNCHANGED <<epochOf, nExec, nCommit, lastEpochFinishSignal>>
    BY <1>4 DEF Advance, managerVars, historyVars
  <2>2. EnginePhase = "done" /\ EnginePhase' = "read"
    BY <1>1, <2>1, EnginePhases DEF EnginePhase
  <2>3. Engine!NextEpoch
    BY <2>1, <2>2 DEF Engine!NextEpoch
  <2> QED  BY <2>3 DEF Engine!Next
<1>5. CASE CoordinatorStep /\ ~ReadDone /\ ~Signal /\ ~Advance
  <2>1. UNCHANGED <<epochOf, epochChan, nExec, nCommit, lastEpochFinishSignal>>
    BY <1>5 DEF CoordinatorStep, Start, BroadcastWorker, BroadcastDone, WaitForWork, CloseEpoch,
       PackWorkload, SkipBusyWorker, DeployWorkload, CreateWorker, SyncCreated, Kick, SyncWorker,
       SyncWake, CommitDone, coordVars, managerVars, historyVars
  <2>2. /\ cpc # "advance" /\ cpc' # "advance" /\ cpc' # "start"
        /\ cpc = "start" => globalState' = "START"
        /\ cpc # "start" => (globalState' = "COMMIT" <=> globalState = "COMMIT")
    BY <1>1, <1>5 DEF CoordinatorStep, Start, BroadcastWorker, BroadcastDone, WaitForWork,
       CloseEpoch, PackWorkload, SkipBusyWorker, DeployWorkload, CreateWorker, SyncCreated, Kick,
       SyncWorker, SyncWake, CommitDone, coordVars, PhaseParts, PhaseOfPc
  <2>3. UNCHANGED EnginePhase
    BY <2>2 DEF EnginePhase
  <2> QED  BY <2>1, <2>3 DEF Engine!vars
<1> QED  BY <1>2, <1>3, <1>4, <1>5

(* A worker's step as one of the engine's: its workload is a batch.        *)
LEMMA EngineWorkerStep ==
  ASSUME PhaseInv, EpochInv, NEW w \in Workers, WorkerStep(w)
  PROVE  [Engine!Next]_(Engine!vars)
<1>1. /\ TypeOK /\ PhaseParts /\ LoopTypes /\ StateOfPc
      /\ UNCHANGED <<epochOf, epochChan, lastEpochFinishSignal, cpc, globalState>>
  BY LoopTyping
     DEF PhaseInv, PhaseParts, WorkerStep, ReportAssigned, ReportFinishRead, ReportReady, Report,
         WaitForRead, WaitForCommit, WaitForSignal, ExecuteList, CommitList, managerVars,
         coordVars
<1>2. UNCHANGED EnginePhase
  BY <1>1 DEF EnginePhase
<1>3. Held(w) \subseteq Tx
  BY <1>1, PlaceTypes
<1>4. \A t \in Held(w) : t \in Engine!Batch
  BY <1>3 DEF EpochInv, WorkloadPlace, Engine!Batch
<1>5. CASE ExecuteList(w)
  <2>1. /\ wpc[w] = "execute" /\ UNCHANGED nCommit /\ nExec' = Counted(nExec, load[w])
    BY <1>5 DEF ExecuteList
  <2>2. Held(w) = Range(load[w])
    BY <1>1, <2>1, HeldWorking
  <2>3. \A t \in Held(w) : nExec[t] = 0
    BY <2>1 DEF EpochInv, CountsOfPlace
  <2>4. nExec' = [t \in Tx |-> IF t \in Held(w) THEN 1 ELSE nExec[t]]
    <3>1. nExec \in [Tx -> 0..CountMax]
      BY <1>1 DEF TypeOK
    <3>2. \A t \in Tx : Counted(nExec, load[w])[t] = IF t \in Held(w) THEN 1 ELSE nExec[t]
      BY <2>2, <2>3, <3>1, CountEffect
    <3>3. Counted(nExec, load[w]) = [t \in Tx |-> Counted(nExec, load[w])[t]]
      BY DEF Counted
    <3> QED  BY <2>1, <3>2, <3>3
  <2>5. EnginePhase = "read"
    <3>1. w \in 1..numWorkers /\ workerState[w] = "ASSIGNED"
      BY <1>1, <2>1 DEF StateOfPc, LoopTypes, Workers
    <3>2. globalState # "COMMIT"
      BY <1>1, <3>1 DEF PhaseParts, SyncProgress
    <3> QED  BY <1>1, <3>2, EnginePhases
  <2>6. Engine!Execute(Held(w))
    BY <1>1, <1>2, <1>4, <2>1, <2>3, <2>4, <2>5 DEF Engine!Execute
  <2> QED  BY <1>3, <2>6 DEF Engine!Next
<1>6. CASE CommitList(w)
  <2>1. /\ wpc[w] = "commit" /\ UNCHANGED nExec /\ nCommit' = Counted(nCommit, load[w])
    BY <1>6 DEF CommitList
  <2>2. Held(w) = Range(load[w])
    BY <1>1, <2>1, HeldWorking
  <2>3. \A t \in Held(w) : nCommit[t] = 0
    BY <2>1 DEF EpochInv, CountsOfPlace
  <2>4. nCommit' = [t \in Tx |-> IF t \in Held(w) THEN 1 ELSE nCommit[t]]
    <3>1. nCommit \in [Tx -> 0..CountMax]
      BY <1>1 DEF TypeOK
    <3>2. \A t \in Tx : Counted(nCommit, load[w])[t] = IF t \in Held(w) THEN 1 ELSE nCommit[t]
      BY <2>2, <2>3, <3>1, CountEffect
    <3>3. Counted(nCommit, load[w]) = [t \in Tx |-> Counted(nCommit, load[w])[t]]
      BY DEF Counted
    <3> QED  BY <2>1, <3>2, <3>3
  <2>5. EnginePhase = "commit"
    <3>1. w \in 1..numWorkers /\ workerState[w] = "FINISH_READ"
      BY <1>1, <2>1 DEF StateOfPc, LoopTypes, Workers
    <3>2. globalState = "COMMIT"
      BY <1>1, <2>1, <3>1 DEF PhaseParts, SignalOfState
    <3>3. cpc \notin {"start", "advance"}
      BY <1>1, <3>1 DEF PhaseParts, SyncProgress
    <3> QED  BY <1>1, <3>2, <3>3, EnginePhases
  <2>6. Engine!Commit(Held(w))
    BY <1>1, <1>2, <1>4, <2>1, <2>3, <2>4, <2>5 DEF Engine!Commit
  <2> QED  BY <1>3, <2>6 DEF Engine!Next
<1>7. CASE WorkerStep(w) /\ ~ExecuteList(w) /\ ~CommitList(w)
  <2>1. UNCHANGED <<nExec, nCommit>>
    BY <1>7 DEF WorkerStep, ReportAssigned, ReportFinishRead, ReportReady, Report,
       WaitForRead, WaitForCommit, WaitForSignal, historyVars
  <2> QED  BY <1>1, <1>2, <2>1 DEF Engine!vars
<1> QED  BY <1>5, <1>6, <1>7

(* The manager's step as one of the engine's: a wrapper is submitted.      *)
LEMMA EngineManagerStep ==
  ASSUME PhaseInv, EpochInv, ManagerStep
  PROVE  [Engine!Next]_(Engine!vars)
<1>1. TypeOK /\ PhaseParts /\ EpochsInStep /\ PipeOrdered
  BY DEF PhaseInv, EpochInv
<1>2. ASSUME NEW e \in Nat \ {0}, NEW k \in 0..MaxWrapper, Sending(e, k),
             numSent + k <= MaxTx, sendEpoch <= e, k > 0 => e \in 1..MaxEpoch
      PROVE  [Engine!Next]_(Engine!vars)
  <2> DEFINE New == numSent + 1..numSent + k
  <2>1. /\ UNCHANGED <<epochChan, cpc, globalState, nExec, nCommit, lastEpochFinishSignal>>
        /\ epochOf' = [t \in Tx |-> IF t \in New THEN e ELSE epochOf[t]]
    BY <1>2 DEF Sending, Send, coordVars, historyVars
  <2>2. UNCHANGED EnginePhase
    BY <2>1 DEF EnginePhase
  <2>3. k \in Nat /\ numSent \in Nat
    BY <1>1, EpochTypes
  <2>4. New \subseteq Tx /\ \A t \in New : t > numSent
    BY <1>2, <2>3, SizesAssumption DEF Tx
  <2>5. CASE k = 0
    <3>1. New = {}
      BY <2>3, <2>5
    <3>2. epochOf \in [Tx -> Nat]
      BY <1>1 DEF TypeOK
    <3>3. epochOf' = epochOf
      BY <2>1, <3>1, <3>2
    <3> QED  BY <2>1, <2>2, <3>3 DEF Engine!vars
  <2>6. CASE k > 0
    <3>1. \A t \in New : epochOf[t] = 0
      BY <2>4 DEF EpochInv, CountsOfPlace
    <3>2. e > epochChan \/ (e = epochChan /\ EnginePhase = "read")
      <4>1. epochChan <= sendEpoch /\ (Closed => epochChan < sendEpoch)
        BY <1>1 DEF EpochsInStep
      <4>2. ~Closed => EnginePhase = "read"
        <5>1. globalState \in GlobalStates /\ (cpc = "advance" => globalState = "COMMIT")
          BY <1>1 DEF TypeOK, PhaseParts, PhaseOfPc
        <5> QED  BY <1>1, <5>1, EnginePhases DEF Closed, GlobalStates
      <4>3. epochChan \in Nat /\ sendEpoch \in Nat
        BY <1>1, EpochTypes
      <4>4. CASE Closed
        BY <1>2, <4>1, <4>3, <4>4
      <4>5. CASE ~Closed
        <5>1. e > epochChan \/ e = epochChan
          BY <1>2, <4>1, <4>3
        <5> QED  BY <4>2, <4>5, <5>1
      <4> QED  BY <4>4, <4>5
    <3>3. Engine!Submit(New, e)
      <4> HIDE DEF New
      <4> QED  BY <2>1, <2>2, <3>1, <3>2 DEF Engine!Submit
    <3>4. e \in 1..MaxEpoch /\ New \in SUBSET Tx
      BY <1>2, <2>4, <2>6
    <3> HIDE DEF New
    <3> QED  BY <3>3, <3>4 DEF Engine!Next
  <2> QED  BY <2>3, <2>5, <2>6
<1>3. CASE AddTransaction \/ WaitForRoom
  <2>1. UNCHANGED <<epochOf, epochChan, cpc, globalState, nExec, nCommit, lastEpochFinishSignal>>
    BY <1>3 DEF AddTransaction, WaitForRoom, coordVars, managerVars, historyVars
  <2>2. UNCHANGED EnginePhase
    BY <2>1 DEF EnginePhase
  <2> QED  BY <2>1, <2>2 DEF Engine!vars
<1> QED  BY <1>1, <1>2, <1>3, SendCases

(* Coordinator, workers and manager do what the epoch engine promises and  *)
(* nothing else: batches are executed against the state the previous epoch *)
(* left, decided when all of them have been, each transaction once, and an *)
(* epoch that was closed gets no further ones.                             *)
THEOREM CoordinatorImplementsEngine == Spec => ImplementsEngine
<1>1. Init => Engine!Init
  BY DEF Init, Engine!Init, EnginePhase
<1>2. PhaseInv /\ EpochInv /\ PhaseParts' /\ [Next]_vars => [Engine!Next]_(Engine!vars)
  <2> SUFFICES ASSUME PhaseInv, EpochInv, PhaseParts', [Next]_vars
               PROVE  [Engine!Next]_(Engine!vars)
    OBVIOUS
  <2>1. CASE SpuriousWakeup \/ UNCHANGED vars
    <3>1. UNCHANGED <<coordVars, managerVars, historyVars, lastEpochFinishSignal>>
      BY <2>1 DEF SpuriousWakeup, vars
    <3>2. UNCHANGED <<epochOf, epochChan, cpc, globalState, nExec, nCommit, lastEpochFinishSignal>>
      BY <3>1 DEF coordVars, managerVars, historyVars
    <3> QED  BY <3>2 DEF Engine!vars, EnginePhase
  <2> QED
    BY <2>1, EngineCoordinatorStep, EngineWorkerStep, EngineManagerStep DEF Next
<1>3. PhaseInv => PhaseParts
  BY DEF PhaseInv
<1> QED  BY <1>1, <1>2, <1>3, EpochInvariance, PTL DEF Spec, ImplementsEngine, Engine!Spec

=============================================================================
