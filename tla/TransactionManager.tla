-------------------------- MODULE TransactionManager --------------------------
(***************************************************************************)
(* TransactionManagerImpl on its thread, with the part of its comm module  *)
(* that it calls: CommController::getTransaction and                       *)
(* clearTransactionForEpoch, or CommStub in place of them.  The receiver   *)
(* threads that feed the controller are reduced to their enqueueing and to *)
(* what the properties of CommController say of them (Deliver, Signal,     *)
(* NextDelivery), the coordinator to what it does with an epoch            *)
(* (EngineFinish, see EpochEngine).                                        *)
(*                                                                         *)
(* broadcastTransactions is a BlockingConcurrentQueue: a sub-queue for     *)
(* each thread that enqueues, and a semaphore that is signalled after an   *)
(* element has become visible.  Who gets a token takes an element of any   *)
(* sub-queue, not necessarily the one that the token was signalled for.    *)
(*                                                                         *)
(* Transactions are numbers; a smaller one has the smaller ID.             *)
(***************************************************************************)
EXTENDS Naturals, FiniteSets, FiniteSetsExt

CONSTANTS
  Receivers,     \* the receiver threads: the local one and one for each other server
  Local,         \* the local one
  MaxTx,         \* bound: the transactions are 1..MaxTx
  MaxDelivered,  \* bound: those that the other servers and the clients send
  MaxEpoch,      \* bound: the last epoch transactions are delivered for
  MaxSize,       \* TR_MGR_GET_BATCH_MAX_SIZE
  MinSize,       \* TR_MGR_GET_BATCH_MIN_SIZE
  FirstEpoch,    \* the latest saved epoch + 1
  StubEpochSize  \* CommStub's EPOCH_MAX_TR_NUM

ASSUME ManagerAssumption ==
  /\ IsFiniteSet(Receivers) /\ Local \in Receivers
  /\ MaxTx \in Nat /\ MaxDelivered \in 0..MaxTx
  /\ MaxEpoch \in Nat /\ FirstEpoch \in 1..(MaxEpoch + 1)
  /\ MaxSize \in Nat \ {0} /\ MinSize \in 1..MaxSize
  /\ StubEpochSize \in Nat \ {0}

Tx == 1..MaxTx
Epochs == FirstEpoch..(MaxEpoch + 1)

VARIABLES
  \* the comm module
  CommStub,               \* whether it is CommStub: decided at compile time
  commEpoch,              \* its epoch
  receivers,              \* the threads there are: none, just Local, or more
  broadcastTransactions,  \* the sub-queue of each receiver, in any order within an epoch
  enqueuing,              \* the receivers that have enqueued and not signalled yet
  delivered,              \* the receivers that have enqueued for the epoch
  tokens,                 \* the semaphore's count
  processedTransaction,   \* the heap
  currentEpoch,
  transactionMap,
  epochTrSentNum,         \* of the stub
  \* transactions
  epochOf,                \* _epoch, 0 for one that is not there yet
  result,
  freed,                  \* deleted
  \* the manager
  pc, epoch,
  arg,                    \* the argument of getTransaction
  dequeuing,              \* it has a token and not the element yet
  leftBehind,             \* history: a transfer has ended with an older transaction
                          \* still in a sub-queue than one that it has taken
  trWrapper,
  currentEpochTrWrapper, nextEpochTrWrapper,
  lastEpochFinishSignal,
  blocks,                 \* the transactions of each block generated
  failed,                 \* a CHECK or DCHECK has failed
  \* the coordinator
  engineEpoch,
  inEngine                \* what it has got and not decided

queueVars   == <<broadcastTransactions, enqueuing, delivered, tokens>>
heapVars    == <<processedTransaction, currentEpoch, transactionMap>>
commVars    == <<CommStub, receivers, commEpoch, epochTrSentNum, queueVars, heapVars>>
txVars      == <<epochOf, result, freed>>
transferVars == <<dequeuing, leftBehind>>
managerVars == <<pc, epoch, arg, transferVars, trWrapper, currentEpochTrWrapper,
                 nextEpochTrWrapper, blocks>>
engineVars  == <<engineEpoch, inEngine, lastEpochFinishSignal>>
vars == <<commVars, txVars, managerVars, engineVars, failed>>

Init ==
  /\ CommStub \in BOOLEAN
  /\ IF CommStub THEN receivers = {} ELSE receivers \in {R \in SUBSET Receivers : Local \in R}
  /\ commEpoch = FirstEpoch
  /\ broadcastTransactions = [r \in Receivers |-> {}]
  /\ enqueuing = {} /\ delivered = {} /\ tokens = 0
  /\ processedTransaction = {}
  /\ currentEpoch = 0 /\ epochTrSentNum = 0
  /\ transactionMap = [e \in Epochs |-> {}]
  /\ epochOf = [t \in Tx |-> 0] /\ freed = {}
  /\ result = [t \in Tx |-> "PENDING"]
  /\ pc = "get" /\ epoch = FirstEpoch /\ arg = FirstEpoch
  /\ dequeuing = FALSE /\ leftBehind = FALSE
  /\ trWrapper = {} /\ currentEpochTrWrapper = {} /\ nextEpochTrWrapper = {}
  /\ lastEpochFinishSignal = FirstEpoch - 1
  /\ blocks = [e \in Epochs |-> {}]
  /\ failed = FALSE
  /\ engineEpoch = FirstEpoch /\ inEngine = {}

-----------------------------------------------------------------------------
Queued == UNION {broadcastTransactions[r] : r \in Receivers}

(* What CommController's receivers do: the transactions of all servers for *)
(* an epoch come in some order, all of them before those of the next epoch *)
(* (CommController!EpochOrder), and every server has some.  A transaction  *)
(* is in its receiver's sub-queue before the semaphore is signalled.       *)
Deliver(r, t) ==
  /\ r \in receivers \ enqueuing
  /\ epochOf[t] = 0 /\ t <= MaxDelivered /\ commEpoch <= MaxEpoch
  /\ epochOf' = [epochOf EXCEPT ![t] = commEpoch]
  /\ broadcastTransactions' = [broadcastTransactions EXCEPT ![r] = @ \cup {t}]
  /\ enqueuing' = enqueuing \cup {r}
  /\ delivered' = delivered \cup {r}
  /\ UNCHANGED <<CommStub, receivers, commEpoch, epochTrSentNum, tokens, heapVars,
                 result, freed, managerVars, engineVars>>

Signal(r) ==
  /\ r \in enqueuing
  /\ enqueuing' = enqueuing \ {r}
  /\ tokens' = tokens + 1
  /\ UNCHANGED <<CommStub, receivers, commEpoch, epochTrSentNum, broadcastTransactions,
                 delivered, heapVars, txVars, managerVars, engineVars>>

\* All receivers have met at the barrier.
NextDelivery ==
  /\ delivered = receivers /\ enqueuing = {} /\ ~CommStub
  /\ commEpoch <= MaxEpoch
  /\ commEpoch' = commEpoch + 1
  /\ delivered' = {}
  /\ UNCHANGED <<CommStub, receivers, broadcastTransactions, enqueuing, tokens,
                 epochTrSentNum, heapVars, txVars, managerVars, engineVars>>

\* The coordinator decides an epoch when it has a transaction of a later one.
\* One transaction at least is not to be retried: the valid one with the smallest
\* ID commits, or none is valid.
EngineFinish ==
  LET B == {t \in inEngine : epochOf[t] = engineEpoch}
  IN  /\ \E t \in inEngine : epochOf[t] > engineEpoch
      /\ \E r \in [B -> {"COMMIT", "ABORT", "ABORT_NO_RETRY"}] :
           /\ B # {} => \E t \in B : r[t] # "ABORT"
           /\ result' = [t \in Tx |-> IF t \in B THEN r[t] ELSE result[t]]
      /\ inEngine' = inEngine \ B
      /\ lastEpochFinishSignal' = engineEpoch
      /\ engineEpoch' = engineEpoch + 1
      /\ UNCHANGED <<commVars, epochOf, freed, managerVars>>

-----------------------------------------------------------------------------
\* processedTransaction.top(): the smallest epoch, then the smallest ID.
Top == CHOOSE t \in processedTransaction : \A u \in processedTransaction :
         epochOf[t] < epochOf[u] \/ (epochOf[t] = epochOf[u] /\ t <= u)
TopEpoch == epochOf[Top]

\* getTransaction returns nullptr: go on with the next epoch's, or look
\* whether this epoch is finished.
ReturnNull ==
  IF arg = epoch THEN pc' = "get" /\ arg' = epoch + 1
                 ELSE pc' = "poll" /\ UNCHANGED arg

(* The entry: the heap's top tells whether all of the epoch has been given *)
(* away.                                                                   *)
GetTransaction ==
  /\ pc = "get" /\ ~CommStub
  /\ IF processedTransaction # {} /\ TopEpoch # arg
     THEN ReturnNull
     ELSE pc' = "pull" /\ UNCHANGED arg
  /\ UNCHANGED <<commVars, txVars, engineVars, epoch, transferVars, trWrapper,
                 currentEpochTrWrapper, nextEpochTrWrapper, blocks>>

(* transferTransaction: wait_dequeue if the heap is empty, then            *)
(* try_dequeue until it fails.  Both take a token first, if there is one,  *)
(* and then look for an element until they have found one.                 *)
Acquire ==
  /\ pc \in {"pull", "refill"} /\ ~dequeuing
  /\ tokens > 0
  /\ tokens' = tokens - 1
  /\ dequeuing' = TRUE
  /\ UNCHANGED <<CommStub, receivers, commEpoch, epochTrSentNum, broadcastTransactions,
                 enqueuing, delivered, heapVars, txVars, engineVars, pc, epoch, arg,
                 leftBehind, trWrapper, currentEpochTrWrapper, nextEpochTrWrapper, blocks>>

\* A sub-queue is first-in, first-out.
MutantIsFirst(r, t) == TRUE
IsFirst(r, t) == \A u \in broadcastTransactions[r] : epochOf[t] <= epochOf[u]

Dequeue(r, t) ==
  /\ dequeuing
  /\ t \in broadcastTransactions[r] /\ IsFirst(r, t)
  /\ broadcastTransactions' = [broadcastTransactions EXCEPT ![r] = @ \ {t}]
  /\ processedTransaction' = processedTransaction \cup {t}
  /\ dequeuing' = FALSE
  /\ UNCHANGED <<CommStub, receivers, commEpoch, epochTrSentNum, enqueuing, delivered,
                 tokens, currentEpoch, transactionMap, txVars, engineVars, pc, epoch,
                 arg, leftBehind, trWrapper, currentEpochTrWrapper, nextEpochTrWrapper,
                 blocks>>

\* wait_dequeue, which does not fail, comes before the first try_dequeue.
MutantWaits == TRUE
Waits == processedTransaction = {}

EndTransfer ==
  /\ pc \in {"pull", "refill"} /\ ~dequeuing
  /\ tokens = 0 /\ ~Waits
  /\ pc' = IF pc = "pull" THEN "test" ELSE "take"
  /\ leftBehind' = (leftBehind \/ \E t \in processedTransaction, u \in Queued :
                                    epochOf[u] < epochOf[t])
  /\ UNCHANGED <<commVars, txVars, engineVars, epoch, arg, dequeuing, trWrapper,
                 currentEpochTrWrapper, nextEpochTrWrapper, blocks>>

\* After the transfer the top may be of the next epoch (`condition 2').
Test ==
  /\ pc = "test"
  /\ IF TopEpoch = arg THEN pc' = "take" /\ UNCHANGED arg ELSE ReturnNull
  /\ UNCHANGED <<commVars, txVars, engineVars, epoch, transferVars, trWrapper,
                 currentEpochTrWrapper, nextEpochTrWrapper, blocks>>

(* One turn of the loop that fills the wrapper.  When the heap runs empty, *)
(* the wrapper is returned if it has more than MinSize transactions, else  *)
(* getTransaction waits for another one.                                   *)
Enough(n) == n > MinSize
TakesMore == Cardinality(trWrapper) < MaxSize /\ TopEpoch = arg
Take ==
  /\ pc = "take" /\ TakesMore
  /\ trWrapper' = trWrapper \cup {Top}
  /\ processedTransaction' = processedTransaction \ {Top}
  /\ transactionMap' = [transactionMap EXCEPT ![commEpoch] = @ \cup {Top}]
  /\ currentEpoch' = TopEpoch
  /\ pc' = IF processedTransaction' # {} THEN "take"
           ELSE IF Enough(Cardinality(trWrapper')) THEN "send" ELSE "refill"
  /\ UNCHANGED <<CommStub, receivers, commEpoch, epochTrSentNum, queueVars, txVars,
                 engineVars, epoch, arg, transferVars, currentEpochTrWrapper,
                 nextEpochTrWrapper, blocks>>

StopTaking ==
  /\ pc = "take" /\ ~TakesMore
  /\ pc' = "send"
  /\ UNCHANGED <<commVars, txVars, engineVars, epoch, arg, transferVars, trWrapper,
                 currentEpochTrWrapper, nextEpochTrWrapper, blocks>>

-----------------------------------------------------------------------------
(* CommStub::getTransaction makes up transactions of its own epoch and     *)
(* advances it when it has made StubEpochSize.                             *)
New == {t \in Tx : epochOf[t] = 0}
StubCount ==
  LET room == StubEpochSize - epochTrSentNum
  IN  IF room < MinSize THEN room ELSE MinSize
StubReturnsNull == arg < commEpoch

StubGetTransaction ==
  /\ pc = "get" /\ CommStub
  /\ IF StubReturnsNull
     THEN /\ ReturnNull
          /\ UNCHANGED <<commEpoch, epochTrSentNum, transactionMap, trWrapper, epochOf>>
     ELSE /\ commEpoch <= MaxEpoch /\ Cardinality(New) >= StubCount
          /\ LET W == Min(New)..(Min(New) + StubCount - 1)
             IN  /\ trWrapper' = W
                 /\ epochOf' = [t \in Tx |-> IF t \in W THEN commEpoch ELSE epochOf[t]]
                 /\ transactionMap' = [transactionMap EXCEPT ![commEpoch] = @ \cup W]
          /\ epochTrSentNum' = (epochTrSentNum + StubCount) % StubEpochSize
          /\ commEpoch' = IF epochTrSentNum' = 0 THEN commEpoch + 1 ELSE commEpoch
          /\ pc' = "send" /\ UNCHANGED arg
  /\ UNCHANGED <<CommStub, receivers, queueVars, processedTransaction, currentEpoch,
                 result, freed, engineVars, epoch, transferVars,
                 currentEpochTrWrapper, nextEpochTrWrapper, blocks>>

-----------------------------------------------------------------------------
(* The manager notes the transactions of a wrapper with those of its epoch *)
(* and sends it to the coordinator.  Of the next epoch it takes one        *)
(* wrapper only.                                                           *)
Send ==
  /\ pc = "send"
  /\ inEngine' = inEngine \cup trWrapper
  /\ trWrapper' = {}
  /\ IF arg = epoch
     THEN /\ currentEpochTrWrapper' = currentEpochTrWrapper \cup trWrapper
          /\ pc' = "get" /\ UNCHANGED nextEpochTrWrapper
     ELSE /\ nextEpochTrWrapper' = nextEpochTrWrapper \cup trWrapper
          /\ pc' = "poll" /\ UNCHANGED currentEpochTrWrapper
  /\ UNCHANGED <<commVars, txVars, engineEpoch, lastEpochFinishSignal, epoch,
                 arg, transferVars, blocks>>

NotFinished ==
  /\ pc = "poll" /\ lastEpochFinishSignal # epoch
  /\ pc' = "get" /\ arg' = epoch
  /\ UNCHANGED <<commVars, txVars, engineVars, epoch, transferVars, trWrapper,
                 currentEpochTrWrapper, nextEpochTrWrapper, blocks>>

(* clearTransactionForEpoch, with the epochs e as they are then: what is   *)
(* listed under the manager's epoch is deleted if it is of that epoch, and *)
(* listed under its new epoch otherwise.                                   *)
ClearTransactions(e) ==
  LET L == transactionMap[epoch]
  IN  /\ freed' = freed \cup {t \in L : e[t] = epoch}
      /\ transactionMap' = [f \in Epochs |->
           IF f = epoch THEN {}
           ELSE transactionMap[f] \cup {t \in L : e[t] = f}]

\* The DCHECKs of clearTransactionForEpoch.
ClearChecks(e) ==
  IF CommStub
  THEN \A t \in transactionMap[epoch] : e[t] = epoch \/ commEpoch \in {e[t], e[t] + 1}
  ELSE epoch < commEpoch

(* The epoch is finished: the aborted transactions are reset and sent as   *)
(* ones of the next epoch, the others are given to the block generator,    *)
(* the block is generated, the transactions are cleared.  An empty block   *)
(* cannot be generated.                                                    *)
MutantRetry(t) == FALSE
Retry(t) == result[t] = "ABORT"
Aborted == {t \in currentEpochTrWrapper : Retry(t)}
Decided == {t \in currentEpochTrWrapper : result[t] \in {"COMMIT", "ABORT_NO_RETRY"}}
EpochAfter == [t \in Tx |-> IF t \in Aborted THEN epoch + 1 ELSE epochOf[t]]

Finishes == pc = "poll" /\ lastEpochFinishSignal = epoch /\ epoch < MaxEpoch + 1
FinishEpoch ==
  /\ Finishes
  /\ epochOf' = EpochAfter
  /\ result' = [t \in Tx |-> IF t \in Aborted THEN "PENDING" ELSE result[t]]
  /\ inEngine' = inEngine \cup Aborted
  /\ blocks' = [blocks EXCEPT ![epoch] = Decided]
  /\ ClearTransactions(EpochAfter)
  /\ epoch' = epoch + 1 /\ arg' = epoch + 1 /\ pc' = "get"
  /\ currentEpochTrWrapper' = nextEpochTrWrapper \cup Aborted
  /\ nextEpochTrWrapper' = {}
  /\ UNCHANGED <<CommStub, receivers, commEpoch, queueVars, processedTransaction,
                 currentEpoch, epochTrSentNum, transferVars, trWrapper, engineEpoch,
                 lastEpochFinishSignal>>

(* The CHECKs and DCHECKs on the manager's way from where it is to its     *)
(* next step.  One that fails ends the process.                            *)
MutantStale(t) == FALSE
Stale(t) == epochOf[t] < currentEpoch
Checks ==
  /\ pc = "get" /\ ~CommStub =>
       /\ arg <= commEpoch
       /\ processedTransaction # {} => TopEpoch \in arg..(arg + 2)
  /\ pc = "test" => TopEpoch \in {arg, arg + 1}
  /\ pc = "take" /\ TakesMore => ~Stale(Top)
  /\ Finishes =>
       /\ Decided # {}
       /\ \A t \in currentEpochTrWrapper : epochOf[t] = epoch
       /\ ClearChecks(EpochAfter)

Abort == ~Checks /\ failed' = TRUE /\ UNCHANGED <<commVars, txVars, managerVars, engineVars>>

ManagerAction ==
  \/ GetTransaction
  \/ Acquire \/ (\E r \in Receivers, t \in Tx : Dequeue(r, t)) \/ EndTransfer
  \/ Test \/ Take \/ StopTaking
  \/ StubGetTransaction \/ Send \/ NotFinished \/ FinishEpoch

ManagerStep == ~failed /\ (Abort \/ (Checks /\ ManagerAction /\ UNCHANGED failed))
Signalling(r) == ~failed /\ Signal(r) /\ UNCHANGED failed
EngineStep == ~failed /\ EngineFinish /\ UNCHANGED failed

Next ==
  \/ /\ ~failed /\ UNCHANGED failed
     /\ NextDelivery \/ \E r \in Receivers, t \in Tx : Deliver(r, t)
  \/ \E r \in Receivers : Signalling(r)
  \/ ManagerStep \/ EngineStep

(* The manager's thread and the coordinator's run, and a receiver does not *)
(* stop between enqueue's two steps; clients need not send.                *)
Fairness ==
  /\ WF_vars(ManagerStep) /\ WF_vars(EngineStep)
  /\ \A r \in Receivers : WF_vars(Signalling(r))

Spec == Init /\ [][Next]_vars /\ Fairness

-----------------------------------------------------------------------------
TypeOK ==
  /\ CommStub \in BOOLEAN
  /\ receivers \subseteq Receivers /\ (CommStub <=> receivers = {})
  /\ commEpoch \in Epochs /\ epoch \in FirstEpoch..(MaxEpoch + 1)
  /\ arg \in {epoch, epoch + 1}
  /\ currentEpoch \in 0..MaxEpoch
  /\ epochTrSentNum \in 0..(StubEpochSize - 1)
  /\ broadcastTransactions \in [Receivers -> SUBSET Tx]
  /\ transactionMap \in [Epochs -> SUBSET Tx] /\ blocks \in [Epochs -> SUBSET Tx]
  /\ epochOf \in [Tx -> {0} \cup Epochs]
  /\ pc \in {"get", "pull", "test", "take", "refill", "send", "poll"}
  /\ pc \in {"test", "take"} => processedTransaction # {}
  /\ dequeuing => pc \in {"pull", "refill"}
  /\ Cardinality(trWrapper) <= MaxSize
  /\ freed \cup inEngine \cup currentEpochTrWrapper \cup nextEpochTrWrapper \subseteq Tx

(* A token stands for an element: who has got one finds an element, and    *)
(* none is left without a token or a receiver about to signal it.          *)
TokensMatch ==
  /\ enqueuing \subseteq receivers
  /\ tokens \in Nat
  /\ Cardinality(Queued) = tokens + Cardinality(enqueuing) + (IF dequeuing THEN 1 ELSE 0)

(* No transaction is deleted that the comm module, the manager or the      *)
(* coordinator still has, nor one that will be cleared again.              *)
NoUseAfterFree ==
  /\ freed \cap (Queued \cup processedTransaction \cup trWrapper
                 \cup currentEpochTrWrapper \cup nextEpochTrWrapper
                 \cup inEngine) = {}
  /\ \A e \in Epochs : freed \cap transactionMap[e] = {}

(* Every transaction is in one place: on its way, in the list of its epoch *)
(* with the manager, or in exactly one block.                              *)
InOnePlace ==
  \A t \in Tx : epochOf[t] # 0 =>
    LET places == <<processedTransaction, trWrapper, currentEpochTrWrapper,
                    nextEpochTrWrapper>>
    IN  Cardinality({r \in Receivers : t \in broadcastTransactions[r]})
        + Cardinality({i \in DOMAIN places : t \in places[i]})
        + Cardinality({e \in Epochs : t \in blocks[e]}) = 1

\* Transactions are neither lost, nor doubled, nor deleted early.
TransactionsKept == TypeOK /\ TokensMatch /\ NoUseAfterFree /\ InOnePlace

(* The block of an epoch has all the transactions of that epoch, the       *)
(* aborted ones having got another by then: the loop that sends an epoch's *)
(* transactions to the coordinator gets all of them.                       *)
BlockOfEpoch ==
  \A e \in FirstEpoch..(epoch - 1) : blocks[e] = {t \in Tx : epochOf[t] = e}

(* The manager's CHECKs and DCHECKs hold: the epochs at the top of the     *)
(* heap, their order over all wrappers (CHECK(epoch >= currentEpoch)), a   *)
(* block for every epoch, clearing behind the controller's epoch.          *)
ChecksHold == ~failed /\ Checks

(* Only a transaction that a transfer has left behind a later one can make *)
(* a CHECK fail or be missed by the block of its epoch; and with a single  *)
(* receiver, on a server that is alone, none is left behind.               *)
BlocksComplete ==
  /\ ~leftBehind => ChecksHold /\ BlockOfEpoch
  /\ receivers \subseteq {Local} => ~leftBehind

(* The coordinator is sent transactions epoch by epoch, and none of an     *)
(* epoch it has closed: it does not sort them (AriaCoordinator!InOrder).   *)
(* What has been left behind is stopped by the CHECK.                      *)
SentInOrder ==
  [][\A t \in inEngine' \ inEngine :
       /\ epochOf'[t] >= engineEpoch
       /\ \A u \in inEngine : epochOf[u] <= epochOf'[t]]_vars

(* An epoch is brought to an end when a transaction two epochs later has   *)
(* been delivered, unless a CHECK stops the server: one of the next epoch  *)
(* alone may wait in an unfinished wrapper.                                *)
EpochProcessed ==
  \A e \in FirstEpoch..(MaxEpoch - 2) :
    (\E t \in Tx : epochOf[t] = e + 2) ~> epoch > e \/ failed
=============================================================================
