----------------------- MODULE TransactionManager_proofs -----------------------
(***************************************************************************)
(* Proofs about TransactionManager with either comm module, for any number *)
(* of receivers, transactions and epochs.                                  *)
(*                                                                         *)
(* ManagerInv holds whatever the queue does: an older transaction that is  *)
(* left behind is kept, or stopped by a CHECK.  OrderInv says what is true *)
(* in addition while none has been left behind; it assumes that the        *)
(* largest and the smallest size of a wrapper are the same, as they are in *)
(* complie_config.h: then a wrapper is returned only when the heap still   *)
(* has a transaction, by which the controller sees that its epoch is over. *)
(***************************************************************************)
EXTENDS TransactionManager, FiniteSetTheorems, WellFoundedInduction, TLAPS

OneSize == MinSize = MaxSize

-----------------------------------------------------------------------------
(* The inductive invariant behind TransactionsKept and SentInOrder.        *)

(* Enqueued by the receivers and not yet in a wrapper; and the manager's.  *)
Waiting == Queued \cup processedTransaction
Wrapped == trWrapper \cup currentEpochTrWrapper \cup nextEpochTrWrapper

Typed ==
  /\ CommStub \in BOOLEAN /\ receivers \in SUBSET Receivers /\ (CommStub <=> receivers = {})
  /\ commEpoch \in Epochs /\ epoch \in Epochs /\ arg \in {epoch, epoch + 1}
  /\ currentEpoch \in 0..MaxEpoch
  /\ epochTrSentNum \in 0..(StubEpochSize - 1)
  /\ broadcastTransactions \in [Receivers -> SUBSET Tx]
  /\ enqueuing \in SUBSET receivers /\ delivered \in SUBSET receivers /\ tokens \in Nat
  /\ transactionMap \in [Epochs -> SUBSET Tx] /\ blocks \in [Epochs -> SUBSET Tx]
  /\ epochOf \in [Tx -> {0} \cup Epochs]
  /\ result \in [Tx -> {"PENDING", "COMMIT", "ABORT", "ABORT_NO_RETRY"}]
  /\ pc \in {"get", "pull", "test", "take", "refill", "send", "poll"}
  /\ dequeuing \in BOOLEAN
  /\ dequeuing => pc \in {"pull", "refill"}
  /\ processedTransaction \in SUBSET Tx
  /\ trWrapper \in SUBSET Tx /\ currentEpochTrWrapper \in SUBSET Tx
  /\ nextEpochTrWrapper \in SUBSET Tx /\ inEngine \in SUBSET Tx /\ freed \in SUBSET Tx
  /\ Cardinality(trWrapper) <= MaxSize

(* The sub-queues have no transaction in common, and the semaphore counts  *)
(* what is in them.                                                        *)
QueueInv ==
  /\ \A r, s \in Receivers : r # s => broadcastTransactions[r] \cap broadcastTransactions[s] = {}
  /\ \A r \in Receivers : r \notin receivers => broadcastTransactions[r] = {}
  /\ Cardinality(Queued) = tokens + Cardinality(enqueuing) + (IF dequeuing THEN 1 ELSE 0)

(* Where transactions are: in one of the disjoint sets that the queue, the *)
(* heap and the wrappers are, or in the block of their epoch.              *)
PlaceInv ==
  /\ \A t \in Tx : epochOf[t] # 0 =>
       t \in Waiting \cup Wrapped \/ (epochOf[t] < epoch /\ t \in blocks[epochOf[t]])
  /\ \A t \in Waiting : epochOf[t] # 0 /\ epochOf[t] <= MaxEpoch
  /\ Queued \cap processedTransaction = {}
  /\ Waiting \cap Wrapped = {}
  /\ trWrapper \cap (currentEpochTrWrapper \cup nextEpochTrWrapper) = {}
  /\ \A e \in Epochs : \A t \in blocks[e] : epochOf[t] = e /\ e < epoch /\ t \notin Waiting
  /\ \A t \in trWrapper : epochOf[t] = arg
  /\ \A t \in currentEpochTrWrapper : epochOf[t] = epoch
  /\ \A t \in nextEpochTrWrapper : epochOf[t] = epoch + 1
  /\ \A t \in Tx : epochOf[t] <= commEpoch
  /\ arg <= commEpoch

(* The manager asks for the next epoch after some of this one, and sends   *)
(* none of this one when it has sent one of the next.                      *)
StepInv ==
  /\ pc \in {"get", "pull", "test", "poll"} => trWrapper = {}
  /\ pc \in {"refill", "send"} => trWrapper # {}
  /\ pc = "poll" => arg = epoch + 1
  /\ arg = epoch + 1 => currentEpochTrWrapper # {}
  /\ currentEpochTrWrapper = {} => epoch = FirstEpoch /\ nextEpochTrWrapper = {}
  /\ trWrapper # {} /\ arg = epoch => nextEpochTrWrapper = {}

(* The coordinator has what it was sent of the epochs it has not decided.  *)
EngineInv ==
  /\ lastEpochFinishSignal = engineEpoch - 1
  /\ \/ engineEpoch = epoch /\ inEngine = currentEpochTrWrapper \cup nextEpochTrWrapper
     \/ /\ engineEpoch = epoch + 1
        /\ inEngine = nextEpochTrWrapper /\ nextEpochTrWrapper # {}
        /\ \A t \in currentEpochTrWrapper : result[t] # "PENDING"
        /\ \E t \in currentEpochTrWrapper : result[t] # "ABORT"

(* The lists that clearTransactionForEpoch works through.                  *)
ListInv ==
  /\ \A f \in Epochs : \A t \in transactionMap[f] :
       /\ epochOf[t] \in 1..f /\ t \notin Waiting /\ t \notin freed
       /\ \A g \in Epochs : t \in transactionMap[g] => f = g
  /\ \A t \in freed : epochOf[t] \in 1..(epoch - 1) /\ t \notin Waiting

(* CommStub is at most two epochs ahead and gives out the IDs in order.    *)
StubInv ==
  /\ Waiting = {}
  /\ pc \in {"get", "send", "poll"} /\ commEpoch <= epoch + 2
  /\ \A f \in Epochs : \A t \in transactionMap[f] : epochOf[t] = f
  /\ \A t, u \in Tx : epochOf[t] = 0 /\ t < u => epochOf[u] = 0
  /\ currentEpochTrWrapper = {} /\ pc = "get" => commEpoch = FirstEpoch

(* CommController: currentEpoch is the epoch of the transaction taken      *)
(* last, so that its CHECK stops one that is too late for its epoch.  The  *)
(* first transaction that is taken at all is of the first epoch, since     *)
(* every receiver has one.                                                 *)
HeapInv ==
  /\ currentEpoch <= commEpoch
  /\ trWrapper # {} => currentEpoch = arg
  /\ nextEpochTrWrapper # {} => epoch < currentEpoch
  /\ pc \in {"test", "take"} => processedTransaction # {}
  /\ pc = "take" /\ trWrapper = {} =>
       /\ \E t \in processedTransaction : epochOf[t] = arg
       /\ \A t \in processedTransaction : arg <= epochOf[t]
  /\ currentEpochTrWrapper = {} /\ pc = "get" => processedTransaction = {}
  /\ currentEpochTrWrapper = {} /\ pc \in {"pull", "test"} /\ processedTransaction # {} =>
       \E t \in processedTransaction : epochOf[t] = FirstEpoch
  /\ currentEpochTrWrapper = {} /\ trWrapper = {} /\ processedTransaction = {} =>
       \A r \in receivers : r \in delivered \/ FirstEpoch < commEpoch =>
         \E t \in broadcastTransactions[r] : epochOf[t] = FirstEpoch
  /\ delivered # {} => \E t \in Tx : epochOf[t] = commEpoch

ManagerInv ==
  /\ Typed /\ QueueInv /\ PlaceInv /\ StepInv /\ EngineInv /\ ListInv
  /\ CommStub => StubInv
  /\ ~CommStub => HeapInv

-----------------------------------------------------------------------------
(* The inductive invariant behind BlocksComplete, with ManagerInv.         *)

(* While no transaction has been left behind: but for what a transfer is   *)
(* moving, what is queued is of no earlier epoch than anything else; no    *)
(* epoch is without transactions; and the heap is empty only while a       *)
(* wrapper is filled.                                                      *)
ControllerInv ==
  /\ \A t \in Queued : \A u \in Tx \ Waiting : epochOf[u] <= epochOf[t]
  /\ pc \notin {"pull", "refill"} =>
       \A t \in Queued : \A u \in processedTransaction : epochOf[u] <= epochOf[t]
  /\ \A t \in Waiting : currentEpoch <= epochOf[t] /\ arg <= epochOf[t]
  /\ \A e \in Epochs : epoch + 1 < e /\ e < commEpoch => \E t \in Waiting : epochOf[t] = e
  /\ processedTransaction = {} =>
       pc = "refill" \/ (pc \in {"get", "pull"} /\ currentEpochTrWrapper = {})
  /\ pc \in {"pull", "test"} /\ processedTransaction # {} =>
       \E t \in processedTransaction : epochOf[t] = arg

(* A single sub-queue is in order.                                         *)
SingleInv ==
  receivers \subseteq {Local} =>
    /\ ~leftBehind
    /\ \A t \in Queued : \A u \in processedTransaction : epochOf[u] <= epochOf[t]

Ordered ==
  /\ leftBehind \in BOOLEAN
  /\ ~CommStub /\ ~leftBehind => ControllerInv
  /\ SingleInv

OrderInv == Ordered /\ failed \in BOOLEAN /\ (~leftBehind => ~failed)

-----------------------------------------------------------------------------
(* A set of numbers has a smallest one.                                    *)
LEMMA Smallest ==
  ASSUME NEW S \in SUBSET Nat, S # {}
  PROVE  \E x \in S : \A y \in S : x <= y
<1>1. PICK x \in S : \A y \in S : <<y, x>> \notin OpToRel(<, Nat)
  BY NatLessThanWellFounded, WFMin
<1>2. \A y \in S : ~(y < x)
  BY <1>1 DEF OpToRel
<1> QED  BY <1>2

(* The numbers involved are numbers.                                       *)
LEMMA ConstantNumbers ==
  /\ MaxTx \in Nat /\ MaxEpoch \in Nat /\ FirstEpoch \in Nat \ {0} /\ FirstEpoch \in Epochs
  /\ MaxSize \in Nat \ {0} /\ MinSize \in Nat \ {0} /\ MinSize <= MaxSize
  /\ StubEpochSize \in Nat \ {0}
  /\ Epochs \subseteq Nat \ {0} /\ \A e : e \in Epochs <=> e \in Nat /\ FirstEpoch <= e /\ e <= MaxEpoch + 1
  /\ Tx \subseteq Nat \ {0}
BY ManagerAssumption DEF Epochs, Tx

LEMMA Numbers ==
  ASSUME Typed
  PROVE  /\ commEpoch \in Nat \ {0} /\ epoch \in Nat \ {0} /\ arg \in Nat \ {0} /\ currentEpoch \in Nat
         /\ arg = epoch \/ arg = epoch + 1
         /\ epoch # epoch + 1
         /\ \A t \in Tx : epochOf[t] \in Nat
BY ConstantNumbers DEF Typed

(* The queue is that of all receivers together.                            *)
LEMMA QueuedTransactions ==
  ASSUME Typed
  PROVE  /\ \A t : t \in Queued <=> \E r \in Receivers : t \in broadcastTransactions[r]
         /\ Queued \subseteq Tx /\ Waiting \subseteq Tx
         /\ IsFiniteSet(Queued) /\ Cardinality(Queued) \in Nat
         /\ IsFiniteSet(enqueuing) /\ Cardinality(enqueuing) \in Nat
<1>1. \A t : t \in Queued <=> \E r \in Receivers : t \in broadcastTransactions[r]
  BY DEF Queued
<1>2. Queued \subseteq Tx
  BY <1>1 DEF Typed
<1>3. IsFiniteSet(Tx)
  BY ConstantNumbers, FS_Interval DEF Tx
<1>4. IsFiniteSet(Queued) /\ Cardinality(Queued) \in Nat
  BY <1>2, <1>3, FS_Subset, FS_CardinalityType
<1>5. enqueuing \subseteq Receivers /\ IsFiniteSet(Receivers)
  BY ManagerAssumption DEF Typed
<1>6. IsFiniteSet(enqueuing) /\ Cardinality(enqueuing) \in Nat
  BY <1>5, FS_Subset, FS_CardinalityType
<1> QED  BY <1>1, <1>2, <1>4, <1>6 DEF Typed, Waiting

(* The top of the heap is of the smallest epoch.                           *)
LEMMA TopIsFirst ==
  ASSUME Typed, processedTransaction # {}
  PROVE  /\ Top \in processedTransaction /\ Top \in Tx
         /\ TopEpoch = epochOf[Top] /\ TopEpoch \in Nat
         /\ \A u \in processedTransaction : TopEpoch <= epochOf[u]
<1> DEFINE P == processedTransaction
           E == {epochOf[t] : t \in P}
<1>1. P \subseteq Tx /\ P \subseteq Nat /\ \A t \in P : epochOf[t] \in Nat
  BY ConstantNumbers, Numbers DEF Typed
<1>2. PICK e \in E : \A f \in E : e <= f
  BY <1>1, Smallest
<1> DEFINE F == {t \in P : epochOf[t] = e}
<1>3. PICK t \in F : \A u \in F : t <= u
  BY <1>1, <1>2, Smallest
<1>4. t \in P /\ epochOf[t] = e /\ \A u \in P : e <= epochOf[u]
  BY <1>2, <1>3
<1>5. \A u \in P : epochOf[t] < epochOf[u] \/ (epochOf[t] = epochOf[u] /\ t <= u)
  <2> SUFFICES ASSUME NEW u \in P
               PROVE  epochOf[t] < epochOf[u] \/ (epochOf[t] = epochOf[u] /\ t <= u)
    OBVIOUS
  <2>1. CASE epochOf[u] = e
    BY <1>3, <1>4, <2>1
  <2>2. CASE epochOf[u] # e
    <3>1. e <= epochOf[u] /\ e \in Nat /\ epochOf[u] \in Nat
      BY <1>1, <1>4
    <3> QED  BY <1>4, <2>2, <3>1
  <2> QED  BY <2>1, <2>2
<1>6. /\ Top \in P
      /\ \A u \in P : epochOf[Top] < epochOf[u] \/ (epochOf[Top] = epochOf[u] /\ Top <= u)
  BY <1>4, <1>5 DEF Top
<1>7. \A u \in P : epochOf[Top] <= epochOf[u]
  BY <1>1, <1>6
<1> QED  BY <1>1, <1>6, <1>7 DEF TopEpoch

LEMMA StartInv == Init => ManagerInv /\ OrderInv
<1> SUFFICES ASSUME Init PROVE ManagerInv /\ OrderInv
  OBVIOUS
<1>1. /\ FirstEpoch \in Nat \ {0} /\ FirstEpoch \in Epochs /\ MaxEpoch \in Nat
      /\ \A e \in Epochs : e \in Nat /\ FirstEpoch <= e
      /\ StubEpochSize \in Nat \ {0} /\ MaxSize \in Nat \ {0}
  BY ConstantNumbers
<1>2. Cardinality({}) = 0
  BY FS_EmptySet
<1>3. Queued = {} /\ Waiting = {} /\ Wrapped = {}
  BY DEF Init, Queued, Waiting, Wrapped
<1>4. receivers \in SUBSET Receivers /\ (CommStub <=> receivers = {}) /\ CommStub \in BOOLEAN
  BY DEF Init
<1>5. Typed
  <2>1. /\ commEpoch \in Epochs /\ epoch \in Epochs /\ arg \in {epoch, epoch + 1}
        /\ currentEpoch \in 0..MaxEpoch /\ epochTrSentNum \in 0..(StubEpochSize - 1) /\ tokens \in Nat
    BY <1>1 DEF Init
  <2>2. /\ broadcastTransactions \in [Receivers -> SUBSET Tx]
        /\ transactionMap \in [Epochs -> SUBSET Tx] /\ blocks \in [Epochs -> SUBSET Tx]
        /\ epochOf \in [Tx -> {0} \cup Epochs]
        /\ result \in [Tx -> {"PENDING", "COMMIT", "ABORT", "ABORT_NO_RETRY"}]
    BY DEF Init
  <2>3. /\ enqueuing = {} /\ delivered = {} /\ pc = "get" /\ dequeuing = FALSE
        /\ processedTransaction = {} /\ trWrapper = {} /\ currentEpochTrWrapper = {}
        /\ nextEpochTrWrapper = {} /\ inEngine = {} /\ freed = {}
    BY DEF Init
  <2>4. Cardinality(trWrapper) <= MaxSize
    BY <1>1, <1>2, <2>3
  <2> QED  BY <1>4, <2>1, <2>2, <2>3, <2>4 DEF Typed
<1>6. QueueInv
  BY <1>2, <1>3 DEF Init, QueueInv
<1>7. PlaceInv
  BY <1>1, <1>3 DEF Init, PlaceInv
<1>8. StepInv /\ EngineInv /\ ListInv
  BY <1>1 DEF Init, StepInv, EngineInv, ListInv
<1>9. StubInv
  BY <1>1, <1>3 DEF Init, StubInv
<1>10. HeapInv
  BY <1>1 DEF Init, HeapInv
<1>11. ControllerInv
  <2>1. \A e \in Epochs : ~(FirstEpoch + 1 < e /\ e < FirstEpoch)
    BY <1>1
  <2> QED  BY <1>1, <1>3, <2>1 DEF Init, ControllerInv
<1>12. OrderInv
  BY <1>3, <1>11 DEF Init, OrderInv, Ordered, SingleInv
<1> QED  BY <1>5, <1>6, <1>7, <1>8, <1>9, <1>10, <1>12 DEF ManagerInv

-----------------------------------------------------------------------------
(* A transaction is enqueued, of the controller's epoch.                   *)
LEMMA DeliverInv ==
  ASSUME ManagerInv, NEW r \in Receivers, NEW t \in Tx, Deliver(r, t)
  PROVE  /\ ManagerInv' /\ ~CommStub
         /\ Queued' = Queued \cup {t} /\ Waiting' = Waiting \cup {t} /\ t \notin Waiting
         /\ epochOf'[t] = commEpoch /\ \A u \in Tx : u # t => epochOf'[u] = epochOf[u]
<1>1. /\ r \in receivers /\ r \notin enqueuing /\ epochOf[t] = 0 /\ commEpoch <= MaxEpoch
      /\ epochOf' = [epochOf EXCEPT ![t] = commEpoch]
      /\ broadcastTransactions' = [broadcastTransactions EXCEPT ![r] = @ \cup {t}]
      /\ enqueuing' = enqueuing \cup {r} /\ delivered' = delivered \cup {r}
      /\ UNCHANGED <<CommStub, receivers, commEpoch, epochTrSentNum, tokens, processedTransaction,
                     currentEpoch, transactionMap, result, freed, pc, epoch, arg, dequeuing,
                     leftBehind, trWrapper, currentEpochTrWrapper, nextEpochTrWrapper, blocks,
                     engineEpoch, inEngine, lastEpochFinishSignal>>
  BY DEF Deliver, heapVars, managerVars, transferVars, engineVars
<1>2. Typed /\ QueueInv /\ PlaceInv /\ StepInv /\ EngineInv /\ ListInv
  BY DEF ManagerInv
<1>3. ~CommStub /\ HeapInv
  BY <1>1, <1>2 DEF ManagerInv, Typed
<1>4. /\ commEpoch \in Nat \ {0} /\ epoch \in Nat \ {0} /\ arg \in Nat \ {0}
      /\ \A u \in Tx : epochOf[u] \in Nat
  BY <1>2, Numbers
<1>5. t \notin Waiting /\ t \notin Wrapped /\ t \notin freed /\ \A f \in Epochs : t \notin transactionMap[f]
      /\ \A e \in Epochs : t \notin blocks[e]
  <2>1. epochOf[t] \notin 1..(epoch - 1) /\ \A f \in Epochs : epochOf[t] \notin 1..f
    BY <1>1
  <2>2. epoch + 1 # 0 /\ 0 \notin Epochs
    BY <1>4, ConstantNumbers
  <2>3. epochOf[t] # arg /\ epochOf[t] # epoch /\ epochOf[t] # epoch + 1 /\ epochOf[t] \notin Epochs
    BY <1>1, <1>4, <2>2
  <2>4. t \notin Waiting /\ t \notin freed /\ \A f \in Epochs : t \notin transactionMap[f]
    BY <1>1, <1>2, <2>1 DEF PlaceInv, ListInv
  <2>5. t \notin Wrapped
    BY <1>2, <2>3 DEF PlaceInv, Wrapped
  <2>6. \A e \in Epochs : t \notin blocks[e]
    BY <1>2, <2>3 DEF PlaceInv
  <2> QED  BY <2>4, <2>5, <2>6
<1>6. epochOf'[t] = commEpoch /\ \A u \in Tx : u # t => epochOf'[u] = epochOf[u]
  BY <1>1, <1>2 DEF Typed
<1>7. \A s \in Receivers : broadcastTransactions'[s] =
        IF s = r THEN broadcastTransactions[r] \cup {t} ELSE broadcastTransactions[s]
  BY <1>1, <1>2 DEF Typed
<1>8. Typed'
  BY <1>1, <1>2 DEF Typed
<1>9. Queued' = Queued \cup {t} /\ Waiting' = Waiting \cup {t} /\ Wrapped' = Wrapped
  <2>1. Queued' = Queued \cup {t}
    BY <1>7 DEF Queued
  <2> QED  BY <1>1, <2>1 DEF Waiting, Wrapped
<1>10. QueueInv'
  <2>1. \A s \in Receivers : t \notin broadcastTransactions[s]
    BY <1>2, <1>5, QueuedTransactions DEF Waiting
  <2>2. \A q, s \in Receivers : q # s => broadcastTransactions'[q] \cap broadcastTransactions'[s] = {}
    <3> SUFFICES ASSUME NEW q \in Receivers, NEW s \in Receivers, q # s
                 PROVE  broadcastTransactions'[q] \cap broadcastTransactions'[s] = {}
      OBVIOUS
    <3>1. broadcastTransactions[q] \cap broadcastTransactions[s] = {}
      BY <1>2 DEF QueueInv
    <3> QED  BY <1>7, <2>1, <3>1
  <2>3. Cardinality(Queued') = Cardinality(Queued) + 1
    BY <1>2, <1>5, <1>9, QueuedTransactions, FS_AddElement DEF Waiting
  <2>4. Cardinality(enqueuing') = Cardinality(enqueuing) + 1
    BY <1>1, <1>2, QueuedTransactions, FS_AddElement
  <2>5. Cardinality(Queued') = tokens + Cardinality(enqueuing') + (IF dequeuing THEN 1 ELSE 0)
    <3>1. Cardinality(Queued) \in Nat /\ Cardinality(enqueuing) \in Nat /\ tokens \in Nat
      BY <1>2, QueuedTransactions DEF Typed
    <3>2. Cardinality(Queued) = tokens + Cardinality(enqueuing) + (IF dequeuing THEN 1 ELSE 0)
      BY <1>2 DEF QueueInv
    <3>3. (IF dequeuing THEN 1 ELSE 0) \in Nat
      OBVIOUS
    <3> QED  BY <2>3, <2>4, <3>1, <3>2, <3>3
  <2>6. \A s \in Receivers : s \notin receivers => broadcastTransactions'[s] = {}
    BY <1>1, <1>2, <1>7 DEF QueueInv
  <2> QED  BY <1>1, <2>2, <2>5, <2>6 DEF QueueInv
<1>11. PlaceInv'
  <2>1. \A u \in Tx : epochOf'[u] # 0 =>
          u \in Waiting' \cup Wrapped' \/ (epochOf'[u] < epoch /\ u \in blocks[epochOf'[u]])
    BY <1>2, <1>6, <1>9 DEF PlaceInv
  <2>2. \A u \in Waiting' : epochOf'[u] # 0 /\ epochOf'[u] <= MaxEpoch
    BY <1>1, <1>2, <1>4, <1>6, <1>9, QueuedTransactions DEF PlaceInv
  <2>3. Queued' \cap processedTransaction' = {} /\ Waiting' \cap Wrapped' = {}
    BY <1>1, <1>2, <1>5, <1>9 DEF PlaceInv, Waiting
  <2>4. \A e \in Epochs : \A u \in blocks[e] : epochOf'[u] = e /\ e < epoch /\ u \notin Waiting'
    BY <1>2, <1>5, <1>6, <1>9 DEF PlaceInv, Typed
  <2>5. /\ \A u \in trWrapper : epochOf'[u] = arg
        /\ \A u \in currentEpochTrWrapper : epochOf'[u] = epoch
        /\ \A u \in nextEpochTrWrapper : epochOf'[u] = epoch + 1
    BY <1>2, <1>5, <1>6 DEF PlaceInv, Typed, Wrapped
  <2>6. \A u \in Tx : epochOf'[u] <= commEpoch
    BY <1>2, <1>4, <1>6 DEF PlaceInv
  <2> QED  BY <1>1, <1>2, <2>1, <2>2, <2>3, <2>4, <2>5, <2>6 DEF PlaceInv
<1>12. StepInv' /\ EngineInv'
  BY <1>1, <1>2 DEF StepInv, EngineInv
<1>13. ListInv'
  <2>1. \A f \in Epochs : \A u \in transactionMap[f] :
          u \in Tx /\ u # t /\ epochOf'[u] = epochOf[u] /\ u \notin Waiting'
    BY <1>2, <1>5, <1>6, <1>9 DEF ListInv, Typed
  <2>2. \A u \in freed : epochOf'[u] = epochOf[u] /\ u \notin Waiting'
    BY <1>2, <1>5, <1>6, <1>9 DEF Typed, ListInv
  <2> QED  BY <1>1, <1>2, <2>1, <2>2 DEF ListInv
<1>14. HeapInv'
  <2>1. \A u \in processedTransaction : u \in Tx /\ epochOf'[u] = epochOf[u]
    BY <1>2, <1>5, <1>6 DEF Waiting, Typed
  <2>2. pc = "take" /\ trWrapper = {} =>
          /\ \E u \in processedTransaction : epochOf'[u] = arg
          /\ \A u \in processedTransaction : arg <= epochOf'[u]
    BY <1>3, <2>1 DEF HeapInv
  <2>3. currentEpochTrWrapper = {} /\ pc \in {"pull", "test"} /\ processedTransaction # {} =>
          \E u \in processedTransaction : epochOf'[u] = FirstEpoch
    BY <1>3, <2>1 DEF HeapInv
  <2>4. ASSUME currentEpochTrWrapper = {}, trWrapper = {}, processedTransaction = {},
               NEW s \in receivers, s \in delivered' \/ FirstEpoch < commEpoch
        PROVE  \E u \in broadcastTransactions'[s] : epochOf'[u] = FirstEpoch
    <3>1. s \in Receivers
      BY <1>2 DEF Typed
    <3>2. CASE s \in delivered \/ FirstEpoch < commEpoch
      <4>1. PICK u \in broadcastTransactions[s] : epochOf[u] = FirstEpoch
        BY <1>3, <2>4, <3>2 DEF HeapInv
      <4>2. u \in Queued /\ u \in Waiting /\ u \in Tx
        BY <1>2, <3>1, <4>1, QueuedTransactions DEF Waiting
      <4>3. u # t
        BY <1>5, <4>2
      <4> QED  BY <1>6, <1>7, <3>1, <4>1, <4>2, <4>3
    <3>3. CASE s = r /\ ~(FirstEpoch < commEpoch)
      <4>1. commEpoch = FirstEpoch
        BY <1>2, <1>4, <3>3, ConstantNumbers DEF Typed
      <4> QED  BY <1>6, <1>7, <3>3, <4>1
    <3> QED  BY <1>1, <2>4, <3>2, <3>3
  <2>5. \E u \in Tx : epochOf'[u] = commEpoch
    BY <1>6
  <2> QED  BY <1>1, <1>3, <2>2, <2>3, <2>4, <2>5 DEF HeapInv
<1> QED  BY <1>1, <1>3, <1>5, <1>6, <1>8, <1>9, <1>10, <1>11, <1>12, <1>13, <1>14 DEF ManagerInv

(* The semaphore is signalled for it.                                      *)
LEMMA SignalInv ==
  ASSUME ManagerInv, NEW r \in Receivers, Signal(r)
  PROVE  ManagerInv'
<1>1. /\ r \in enqueuing /\ enqueuing' = enqueuing \ {r} /\ tokens' = tokens + 1
      /\ UNCHANGED <<CommStub, receivers, commEpoch, epochTrSentNum, broadcastTransactions,
                     delivered, processedTransaction, currentEpoch, transactionMap, epochOf,
                     result, freed, pc, epoch, arg, dequeuing, leftBehind, trWrapper,
                     currentEpochTrWrapper, nextEpochTrWrapper, blocks,
                     engineEpoch, inEngine, lastEpochFinishSignal>>
  BY DEF Signal, heapVars, txVars, managerVars, transferVars, engineVars
<1>2. Typed /\ QueueInv /\ PlaceInv /\ StepInv /\ EngineInv /\ ListInv
  BY DEF ManagerInv
<1>3. Queued' = Queued /\ Waiting' = Waiting /\ Wrapped' = Wrapped
  BY <1>1 DEF Waiting, Queued, Wrapped
<1>4. Typed'
  BY <1>1, <1>2 DEF Typed
<1>5. QueueInv'
  <2>1. Cardinality(enqueuing') = Cardinality(enqueuing) - 1
    BY <1>1, <1>2, QueuedTransactions, FS_RemoveElement
  <2>2. Cardinality(enqueuing) \in Nat /\ tokens \in Nat /\ (IF dequeuing THEN 1 ELSE 0) \in Nat
    BY <1>2, QueuedTransactions DEF Typed
  <2>3. Cardinality(Queued) = tokens + Cardinality(enqueuing) + (IF dequeuing THEN 1 ELSE 0)
    BY <1>2 DEF QueueInv
  <2>4. Cardinality(Queued') = tokens' + Cardinality(enqueuing') + (IF dequeuing' THEN 1 ELSE 0)
    BY <1>1, <1>3, <2>1, <2>2, <2>3
  <2> QED  BY <1>1, <1>2, <2>4 DEF QueueInv
<1>6. PlaceInv' /\ StepInv' /\ EngineInv' /\ ListInv'
  BY <1>1, <1>2, <1>3 DEF PlaceInv, StepInv, EngineInv, ListInv
<1>7. CommStub => StubInv'
  BY <1>1, <1>3 DEF ManagerInv, StubInv
<1>8. ~CommStub => HeapInv'
  BY <1>1 DEF ManagerInv, HeapInv
<1> QED  BY <1>1, <1>4, <1>5, <1>6, <1>7, <1>8 DEF ManagerInv

(* The receivers go on to the next epoch.                                  *)
LEMMA NextDeliveryInv ==
  ASSUME ManagerInv, NextDelivery
  PROVE  ManagerInv'
<1>1. /\ delivered = receivers /\ ~CommStub /\ commEpoch <= MaxEpoch
      /\ commEpoch' = commEpoch + 1 /\ delivered' = {}
      /\ UNCHANGED <<CommStub, receivers, broadcastTransactions, enqueuing, tokens,
                     epochTrSentNum, processedTransaction, currentEpoch, transactionMap, epochOf,
                     result, freed, pc, epoch, arg, dequeuing, leftBehind, trWrapper,
                     currentEpochTrWrapper, nextEpochTrWrapper, blocks,
                     engineEpoch, inEngine, lastEpochFinishSignal>>
  BY DEF NextDelivery, heapVars, txVars, managerVars, transferVars, engineVars
<1>2. Typed /\ QueueInv /\ PlaceInv /\ StepInv /\ EngineInv /\ ListInv /\ HeapInv
  BY <1>1 DEF ManagerInv
<1>3. /\ commEpoch \in Nat \ {0} /\ epoch \in Nat \ {0} /\ arg \in Nat \ {0}
      /\ currentEpoch \in Nat /\ \A u \in Tx : epochOf[u] \in Nat
  BY <1>2, Numbers
<1>4. Queued' = Queued /\ Waiting' = Waiting /\ Wrapped' = Wrapped
  BY <1>1 DEF Waiting, Queued, Wrapped
<1>5. Typed'
  <2>1. commEpoch + 1 \in Epochs
    BY <1>1, <1>2, <1>3, ConstantNumbers DEF Typed
  <2> QED  BY <1>1, <1>2, <2>1 DEF Typed
<1>6. PlaceInv'
  <2>1. (\A u \in Tx : epochOf[u] <= commEpoch + 1) /\ arg <= commEpoch + 1
    BY <1>2, <1>3 DEF PlaceInv
  <2> QED  BY <1>1, <1>2, <1>4, <2>1 DEF PlaceInv
<1>7. QueueInv' /\ StepInv' /\ EngineInv' /\ ListInv'
  BY <1>1, <1>2, <1>4 DEF QueueInv, StepInv, EngineInv, ListInv
<1>8. HeapInv'
  <2>1. currentEpoch <= commEpoch + 1
    BY <1>2, <1>3 DEF HeapInv
  <2>2. ASSUME currentEpochTrWrapper = {}, trWrapper = {}, processedTransaction = {},
               NEW r \in receivers
        PROVE  \E t \in broadcastTransactions[r] : epochOf[t] = FirstEpoch
    BY <1>1, <1>2, <2>2 DEF HeapInv
  <2> QED  BY <1>1, <1>2, <2>1, <2>2 DEF HeapInv
<1> QED  BY <1>1, <1>5, <1>6, <1>7, <1>8 DEF ManagerInv

(* The entry of the controller's getTransaction.  The next epoch is asked  *)
(* for because the heap has one of it, and after some of this epoch.       *)
LEMMA GetTransactionInv ==
  ASSUME ManagerInv, Checks, GetTransaction
  PROVE  /\ ManagerInv'
         /\ \/ processedTransaction # {} /\ TopEpoch # arg /\ arg' = epoch + 1 /\ pc' # "pull"
            \/ (processedTransaction # {} => TopEpoch = arg) /\ arg' = arg /\ pc' = "pull"
<1>1. /\ pc = "get" /\ ~CommStub
      /\ IF processedTransaction # {} /\ TopEpoch # arg
         THEN IF arg = epoch THEN pc' = "get" /\ arg' = epoch + 1 ELSE pc' = "poll" /\ arg' = arg
         ELSE pc' = "pull" /\ arg' = arg
      /\ UNCHANGED <<CommStub, receivers, commEpoch, epochTrSentNum, broadcastTransactions, enqueuing,
                     delivered, tokens, processedTransaction, currentEpoch, transactionMap, epochOf,
                     result, freed, epoch, dequeuing, leftBehind, trWrapper,
                     currentEpochTrWrapper, nextEpochTrWrapper, blocks,
                     engineEpoch, inEngine, lastEpochFinishSignal>>
  BY DEF GetTransaction, ReturnNull, commVars, queueVars, heapVars, txVars, transferVars, engineVars
<1>2. Typed /\ QueueInv /\ PlaceInv /\ StepInv /\ EngineInv /\ ListInv /\ HeapInv
  BY <1>1 DEF ManagerInv
<1>3. /\ commEpoch \in Nat \ {0} /\ epoch \in Nat \ {0} /\ arg \in Nat \ {0}
      /\ arg = epoch \/ arg = epoch + 1
      /\ epoch # epoch + 1
  BY <1>2, Numbers
<1>4. Queued' = Queued /\ Waiting' = Waiting /\ Wrapped' = Wrapped
  BY <1>1 DEF Waiting, Queued, Wrapped
<1>5. trWrapper = {} /\ ~dequeuing
  BY <1>1, <1>2 DEF StepInv, Typed
<1>6. QueueInv' /\ EngineInv' /\ ListInv'
  BY <1>1, <1>2, <1>4 DEF QueueInv, EngineInv, ListInv
<1>7. CASE processedTransaction # {} /\ TopEpoch # arg
  <2>1. (pc' = "get" \/ pc' = "poll") /\ arg' = epoch + 1
    BY <1>1, <1>3, <1>7
  <2>2. epoch + 1 <= commEpoch
    <3>1. Top \in Tx /\ TopEpoch = epochOf[Top] /\ TopEpoch \in Nat
      BY <1>2, <1>7, TopIsFirst
    <3>2. arg <= TopEpoch /\ TopEpoch <= commEpoch
      BY <1>1, <1>2, <1>3, <1>7, <3>1 DEF Checks, PlaceInv
    <3> QED  BY <1>3, <1>7, <3>1, <3>2
  <2>3. currentEpochTrWrapper # {}
    BY <1>1, <1>2, <1>7 DEF HeapInv
  <2>4. Typed'
    BY <1>1, <1>2, <1>5, <2>1 DEF Typed
  <2>5. PlaceInv'
    BY <1>1, <1>2, <1>4, <1>5, <2>1, <2>2 DEF PlaceInv
  <2>6. StepInv'
    BY <1>1, <1>2, <1>3, <1>5, <2>1, <2>3 DEF StepInv
  <2>7. HeapInv'
    BY <1>1, <1>2, <1>5, <2>1, <2>3 DEF HeapInv
  <2> QED  BY <1>1, <1>6, <1>7, <2>1, <2>4, <2>5, <2>6, <2>7 DEF ManagerInv
<1>8. CASE ~(processedTransaction # {} /\ TopEpoch # arg)
  <2>1. pc' = "pull" /\ arg' = arg
    BY <1>1, <1>8
  <2>2. Typed' /\ PlaceInv'
    BY <1>1, <1>2, <1>4, <2>1 DEF Typed, PlaceInv
  <2>3. StepInv'
    BY <1>1, <1>2, <1>5, <2>1 DEF StepInv
  <2>4. HeapInv'
    BY <1>1, <1>2, <1>5, <2>1 DEF HeapInv
  <2> QED  BY <1>1, <1>6, <1>8, <2>1, <2>2, <2>3, <2>4 DEF ManagerInv
<1> QED  BY <1>7, <1>8

(* A token is taken.                                                       *)
LEMMA AcquireInv ==
  ASSUME ManagerInv, Acquire
  PROVE  ManagerInv'
<1>1. /\ pc \in {"pull", "refill"} /\ ~dequeuing
      /\ tokens > 0 /\ tokens' = tokens - 1 /\ dequeuing' = TRUE
      /\ UNCHANGED <<CommStub, receivers, commEpoch, epochTrSentNum, broadcastTransactions, enqueuing,
                     delivered, processedTransaction, currentEpoch, transactionMap, epochOf,
                     result, freed, pc, epoch, arg, leftBehind, trWrapper,
                     currentEpochTrWrapper, nextEpochTrWrapper, blocks,
                     engineEpoch, inEngine, lastEpochFinishSignal>>
  BY DEF Acquire, heapVars, txVars, engineVars
<1>2. Typed /\ QueueInv /\ PlaceInv /\ StepInv /\ EngineInv /\ ListInv
  BY DEF ManagerInv
<1>3. Queued' = Queued /\ Waiting' = Waiting /\ Wrapped' = Wrapped
  BY <1>1 DEF Waiting, Queued, Wrapped
<1>4. tokens \in Nat /\ tokens' \in Nat
  <2>1. tokens \in Nat
    BY <1>2 DEF Typed
  <2> QED  BY <1>1, <2>1
<1>5. Typed'
  BY <1>1, <1>2, <1>4 DEF Typed
<1>6. QueueInv'
  <2>1. Cardinality(enqueuing) \in Nat
    BY <1>2, QueuedTransactions
  <2>2. Cardinality(Queued) = tokens + Cardinality(enqueuing) + 0
    BY <1>1, <1>2 DEF QueueInv
  <2>3. Cardinality(Queued') = tokens' + Cardinality(enqueuing) + 1
    BY <1>1, <1>3, <1>4, <2>1, <2>2
  <2>4. Cardinality(Queued') = tokens' + Cardinality(enqueuing') + (IF dequeuing' THEN 1 ELSE 0)
    BY <1>1, <2>3
  <2> QED  BY <1>1, <1>2, <2>4 DEF QueueInv
<1>7. PlaceInv' /\ StepInv' /\ EngineInv' /\ ListInv'
  BY <1>1, <1>2, <1>3 DEF PlaceInv, StepInv, EngineInv, ListInv
<1>8. CommStub => StubInv'
  BY <1>1, <1>3 DEF ManagerInv, StubInv
<1>9. ~CommStub => HeapInv'
  BY <1>1 DEF ManagerInv, HeapInv
<1> QED  BY <1>1, <1>5, <1>6, <1>7, <1>8, <1>9 DEF ManagerInv

(* An element is taken for it.                                             *)
LEMMA DequeueInv ==
  ASSUME ManagerInv, NEW r \in Receivers, NEW t \in Tx, Dequeue(r, t)
  PROVE  /\ ManagerInv' /\ ~CommStub
         /\ t \in Queued /\ Queued' = Queued \ {t} /\ Waiting' = Waiting
<1>1. /\ dequeuing /\ t \in broadcastTransactions[r] /\ IsFirst(r, t)
      /\ broadcastTransactions' = [broadcastTransactions EXCEPT ![r] = @ \ {t}]
      /\ processedTransaction' = processedTransaction \cup {t}
      /\ dequeuing' = FALSE
      /\ UNCHANGED <<CommStub, receivers, commEpoch, epochTrSentNum, enqueuing,
                     delivered, tokens, currentEpoch, transactionMap, epochOf,
                     result, freed, pc, epoch, arg, leftBehind, trWrapper,
                     currentEpochTrWrapper, nextEpochTrWrapper, blocks,
                     engineEpoch, inEngine, lastEpochFinishSignal>>
  BY DEF Dequeue, txVars, engineVars
<1>2. Typed /\ QueueInv /\ PlaceInv /\ StepInv /\ EngineInv /\ ListInv
  BY DEF ManagerInv
<1>3. r \in receivers /\ ~CommStub /\ HeapInv /\ pc \in {"pull", "refill"}
  BY <1>1, <1>2 DEF ManagerInv, QueueInv, Typed
<1>4. /\ commEpoch \in Nat \ {0} /\ \A u \in Tx : epochOf[u] \in Nat
  BY <1>2, Numbers
<1>5. \A s \in Receivers : broadcastTransactions'[s] =
        IF s = r THEN broadcastTransactions[r] \ {t} ELSE broadcastTransactions[s]
  BY <1>1, <1>2 DEF Typed
<1>6. t \in Queued /\ Queued' = Queued \ {t}
  <2>1. \A s \in Receivers : t \in broadcastTransactions[s] => s = r
    BY <1>1, <1>2 DEF QueueInv
  <2>2. \A s \in Receivers : broadcastTransactions'[s] = broadcastTransactions[s] \ {t}
    BY <1>5, <2>1
  <2>3. \A u : u \in Queued' <=> u \in Queued /\ u # t
    BY <2>2 DEF Queued
  <2> QED  BY <1>1, <2>3 DEF Queued
<1>7. Waiting' = Waiting /\ Wrapped' = Wrapped
  BY <1>1, <1>6 DEF Waiting, Wrapped
<1>8. Typed'
  BY <1>1, <1>2 DEF Typed
<1>9. QueueInv'
  <2>1. \A q, s \in Receivers : q # s => broadcastTransactions'[q] \cap broadcastTransactions'[s] = {}
    <3> SUFFICES ASSUME NEW q \in Receivers, NEW s \in Receivers, q # s
                 PROVE  broadcastTransactions'[q] \cap broadcastTransactions'[s] = {}
      OBVIOUS
    <3>1. broadcastTransactions[q] \cap broadcastTransactions[s] = {}
      BY <1>2 DEF QueueInv
    <3> QED  BY <1>5, <3>1
  <2>2. Cardinality(Queued') = Cardinality(Queued) - 1
    BY <1>2, <1>6, QueuedTransactions, FS_RemoveElement
  <2>3. Cardinality(Queued) = tokens + Cardinality(enqueuing) + 1
    BY <1>1, <1>2 DEF QueueInv
  <2>4. Cardinality(enqueuing) \in Nat /\ tokens \in Nat
    BY <1>2, QueuedTransactions DEF Typed
  <2>5. Cardinality(Queued') = tokens + Cardinality(enqueuing) + 0
    BY <2>2, <2>3, <2>4
  <2>6. Cardinality(Queued') = tokens' + Cardinality(enqueuing') + (IF dequeuing' THEN 1 ELSE 0)
    BY <1>1, <2>5
  <2>7. \A s \in Receivers : s \notin receivers => broadcastTransactions'[s] = {}
    BY <1>2, <1>3, <1>5 DEF QueueInv
  <2> QED  BY <1>1, <2>1, <2>6, <2>7 DEF QueueInv
<1>10. PlaceInv'
  <2>1. Queued' \cap processedTransaction' = {}
    BY <1>1, <1>2, <1>6 DEF PlaceInv
  <2> QED  BY <1>1, <1>2, <1>7, <2>1 DEF PlaceInv
<1>11. StepInv' /\ EngineInv' /\ ListInv'
  BY <1>1, <1>2, <1>7 DEF StepInv, EngineInv, ListInv
<1>12. HeapInv'
  <2>1. currentEpochTrWrapper = {} /\ pc = "pull" => \E u \in processedTransaction' : epochOf[u] = FirstEpoch
    <3> SUFFICES ASSUME currentEpochTrWrapper = {}, pc = "pull"
                 PROVE  \E u \in processedTransaction' : epochOf[u] = FirstEpoch
      OBVIOUS
    <3>1. CASE processedTransaction # {}
      BY <1>1, <1>3, <3>1 DEF HeapInv
    <3>2. CASE processedTransaction = {}
      <4>1. t \in Waiting /\ t \in processedTransaction' /\ trWrapper = {}
        BY <1>1, <1>2, <1>6 DEF Waiting, StepInv
      <4>2. FirstEpoch <= epochOf[t] /\ epochOf[t] <= commEpoch /\ FirstEpoch <= commEpoch /\ FirstEpoch \in Nat
        BY <1>2, <4>1, ConstantNumbers DEF PlaceInv, Typed
      <4>3. CASE FirstEpoch < commEpoch
        <5>1. PICK u \in broadcastTransactions[r] : epochOf[u] = FirstEpoch
          BY <1>3, <3>2, <4>1, <4>3 DEF HeapInv
        <5>2. epochOf[t] <= FirstEpoch
          BY <1>1, <5>1 DEF IsFirst
        <5> QED  BY <1>4, <4>1, <4>2, <5>2
      <4>4. CASE ~(FirstEpoch < commEpoch)
        BY <1>4, <4>1, <4>2, <4>4
      <4> QED  BY <4>3, <4>4
    <3> QED  BY <3>1, <3>2
  <2>2. processedTransaction' # {} /\ pc # "take" /\ pc # "get" /\ pc # "test"
    BY <1>1, <1>3
  <2> QED  BY <1>1, <1>3, <2>1, <2>2 DEF HeapInv
<1> QED  BY <1>1, <1>3, <1>6, <1>7, <1>8, <1>9, <1>10, <1>11, <1>12 DEF ManagerInv

(* There is no token any more.                                             *)
LEMMA EndTransferInv ==
  ASSUME ManagerInv, EndTransfer
  PROVE  ManagerInv' /\ ~CommStub
<1>1. /\ pc \in {"pull", "refill"} /\ ~dequeuing /\ processedTransaction # {}
      /\ pc' = IF pc = "pull" THEN "test" ELSE "take"
      /\ UNCHANGED <<CommStub, receivers, commEpoch, epochTrSentNum, broadcastTransactions, enqueuing,
                     delivered, tokens, processedTransaction, currentEpoch, transactionMap, epochOf,
                     result, freed, epoch, arg, dequeuing, trWrapper,
                     currentEpochTrWrapper, nextEpochTrWrapper, blocks,
                     engineEpoch, inEngine, lastEpochFinishSignal>>
  BY DEF EndTransfer, Waits, commVars, queueVars, heapVars, txVars, engineVars
<1>2. Typed /\ QueueInv /\ PlaceInv /\ StepInv /\ EngineInv /\ ListInv
  BY DEF ManagerInv
<1>3. ~CommStub /\ HeapInv
  BY <1>1 DEF ManagerInv, StubInv
<1>4. Queued' = Queued /\ Waiting' = Waiting /\ Wrapped' = Wrapped
  BY <1>1 DEF Waiting, Queued, Wrapped
<1>5. /\ pc' \in {"test", "take"} /\ (pc' = "take" => pc = "refill" /\ trWrapper # {})
      /\ (pc' = "test" => pc = "pull")
  BY <1>1, <1>2 DEF StepInv
<1>6. Typed' /\ QueueInv' /\ PlaceInv'
  BY <1>1, <1>2, <1>4, <1>5 DEF Typed, QueueInv, PlaceInv
<1>7. StepInv' /\ EngineInv' /\ ListInv'
  BY <1>1, <1>2, <1>4, <1>5 DEF StepInv, EngineInv, ListInv
<1>8. HeapInv'
  BY <1>1, <1>3, <1>5 DEF HeapInv
<1> QED  BY <1>1, <1>3, <1>6, <1>7, <1>8 DEF ManagerInv

(* The top is of the epoch asked for, or of the next one.                  *)
LEMMA TestInv ==
  ASSUME ManagerInv, Checks, Test
  PROVE  /\ ManagerInv' /\ ~CommStub
         /\ \/ TopEpoch = arg /\ arg' = arg /\ pc' = "take"
            \/ TopEpoch # arg /\ arg' = epoch + 1 /\ pc' \in {"get", "poll"}
<1>1. /\ pc = "test"
      /\ IF TopEpoch = arg THEN pc' = "take" /\ arg' = arg
         ELSE IF arg = epoch THEN pc' = "get" /\ arg' = epoch + 1 ELSE pc' = "poll" /\ arg' = arg
      /\ UNCHANGED <<CommStub, receivers, commEpoch, epochTrSentNum, broadcastTransactions, enqueuing,
                     delivered, tokens, processedTransaction, currentEpoch, transactionMap, epochOf,
                     result, freed, epoch, dequeuing, leftBehind, trWrapper,
                     currentEpochTrWrapper, nextEpochTrWrapper, blocks,
                     engineEpoch, inEngine, lastEpochFinishSignal>>
  BY DEF Test, ReturnNull, commVars, queueVars, heapVars, txVars, transferVars, engineVars
<1>2. Typed /\ QueueInv /\ PlaceInv /\ StepInv /\ EngineInv /\ ListInv
  BY DEF ManagerInv
<1>3. ~CommStub /\ HeapInv
  BY <1>1 DEF ManagerInv, StubInv
<1>4. /\ commEpoch \in Nat \ {0} /\ epoch \in Nat \ {0} /\ arg \in Nat \ {0}
      /\ arg = epoch \/ arg = epoch + 1
      /\ epoch # epoch + 1 /\ \A u \in Tx : epochOf[u] \in Nat
  BY <1>2, Numbers
<1>5. Queued' = Queued /\ Waiting' = Waiting /\ Wrapped' = Wrapped
  BY <1>1 DEF Waiting, Queued, Wrapped
<1>6. trWrapper = {} /\ ~dequeuing /\ processedTransaction # {}
  BY <1>1, <1>2, <1>3 DEF StepInv, Typed, HeapInv
<1>7. /\ Top \in processedTransaction /\ Top \in Tx /\ TopEpoch = epochOf[Top] /\ TopEpoch \in Nat
      /\ \A u \in processedTransaction : TopEpoch <= epochOf[u]
      /\ Top \in Waiting
  BY <1>2, <1>6, TopIsFirst DEF Waiting
<1>8. QueueInv' /\ EngineInv' /\ ListInv'
  BY <1>1, <1>2, <1>5 DEF QueueInv, EngineInv, ListInv
<1>9. CASE TopEpoch = arg
  <2>1. pc' = "take" /\ arg' = arg
    BY <1>1, <1>9
  <2>2. Typed' /\ PlaceInv' /\ StepInv'
    BY <1>1, <1>2, <1>5, <1>6, <2>1 DEF Typed, PlaceInv, StepInv
  <2>3. HeapInv'
    BY <1>1, <1>3, <1>6, <1>7, <1>9, <2>1 DEF HeapInv
  <2> QED  BY <1>1, <1>3, <1>8, <1>9, <2>1, <2>2, <2>3 DEF ManagerInv
<1>10. CASE TopEpoch # arg
  <2>1. (pc' = "get" \/ pc' = "poll") /\ arg' = epoch + 1
    BY <1>1, <1>4, <1>10
  <2>2. TopEpoch = arg + 1 /\ TopEpoch <= commEpoch
    BY <1>1, <1>2, <1>7, <1>10 DEF Checks, PlaceInv
  <2>3. epoch + 1 <= commEpoch
    BY <1>4, <1>7, <2>2
  <2>4. currentEpochTrWrapper # {}
    <3> SUFFICES ASSUME currentEpochTrWrapper = {} PROVE FALSE
      OBVIOUS
    <3>1. arg = epoch /\ epoch = FirstEpoch
      BY <1>2, <1>4 DEF StepInv
    <3>2. PICK u \in processedTransaction : epochOf[u] = FirstEpoch
      BY <1>1, <1>3, <1>6 DEF HeapInv
    <3> QED  BY <1>4, <1>7, <2>2, <3>1, <3>2
  <2>5. Typed' /\ PlaceInv'
    BY <1>1, <1>2, <1>5, <1>6, <2>1, <2>3 DEF Typed, PlaceInv
  <2>6. StepInv'
    BY <1>1, <1>2, <1>4, <1>6, <2>1, <2>4 DEF StepInv
  <2>7. HeapInv'
    BY <1>1, <1>3, <1>6, <2>1, <2>4 DEF HeapInv
  <2> QED  BY <1>1, <1>3, <1>8, <1>10, <2>1, <2>5, <2>6, <2>7 DEF ManagerInv
<1> QED  BY <1>9, <1>10

(* The wrapper is full or the epoch is over.                               *)
LEMMA StopTakingInv ==
  ASSUME ManagerInv, StopTaking
  PROVE  ManagerInv' /\ ~CommStub
<1>1. /\ pc = "take" /\ ~TakesMore /\ pc' = "send"
      /\ UNCHANGED <<CommStub, receivers, commEpoch, epochTrSentNum, broadcastTransactions, enqueuing,
                     delivered, tokens, processedTransaction, currentEpoch, transactionMap, epochOf,
                     result, freed, epoch, arg, dequeuing, leftBehind, trWrapper,
                     currentEpochTrWrapper, nextEpochTrWrapper, blocks,
                     engineEpoch, inEngine, lastEpochFinishSignal>>
  BY DEF StopTaking, commVars, queueVars, heapVars, txVars, transferVars, engineVars
<1>2. Typed /\ QueueInv /\ PlaceInv /\ StepInv /\ EngineInv /\ ListInv
  BY DEF ManagerInv
<1>3. ~CommStub /\ HeapInv
  BY <1>1 DEF ManagerInv, StubInv
<1>4. trWrapper # {}
  <2> SUFFICES ASSUME trWrapper = {} PROVE FALSE
    OBVIOUS
  <2>1. Cardinality(trWrapper) < MaxSize
    BY FS_EmptySet, ConstantNumbers
  <2>2. PICK u \in processedTransaction : epochOf[u] = arg
    BY <1>1, <1>3 DEF HeapInv
  <2>3. Top \in processedTransaction /\ TopEpoch = epochOf[Top] /\ TopEpoch \in Nat /\ TopEpoch <= epochOf[u]
    BY <1>2, <2>2, TopIsFirst
  <2>4. arg <= epochOf[Top] /\ arg \in Nat
    BY <1>1, <1>2, <1>3, <2>3, Numbers DEF HeapInv
  <2>5. TopEpoch = arg
    BY <2>2, <2>3, <2>4
  <2> QED  BY <1>1, <2>1, <2>5 DEF TakesMore
<1>5. Queued' = Queued /\ Waiting' = Waiting /\ Wrapped' = Wrapped
  BY <1>1 DEF Waiting, Queued, Wrapped
<1>6. Typed' /\ QueueInv' /\ PlaceInv'
  BY <1>1, <1>2, <1>5 DEF Typed, QueueInv, PlaceInv
<1>7. StepInv' /\ EngineInv' /\ ListInv'
  BY <1>1, <1>2, <1>4, <1>5 DEF StepInv, EngineInv, ListInv
<1>8. HeapInv'
  BY <1>1, <1>3, <1>4 DEF HeapInv
<1> QED  BY <1>1, <1>3, <1>6, <1>7, <1>8 DEF ManagerInv

(* A transaction is taken from the heap into the wrapper.                  *)
LEMMA TakeInv ==
  ASSUME ManagerInv, Checks, Take
  PROVE  /\ ManagerInv' /\ ~CommStub
         /\ Top \in processedTransaction /\ epochOf[Top] = arg /\ currentEpoch' = arg
         /\ \A u \in processedTransaction : arg <= epochOf[u]
         /\ Queued' = Queued /\ Waiting' = Waiting \ {Top}
         /\ Cardinality(trWrapper') <= MaxSize
<1>1. /\ pc = "take" /\ Cardinality(trWrapper) < MaxSize /\ TopEpoch = arg
      /\ trWrapper' = trWrapper \cup {Top}
      /\ processedTransaction' = processedTransaction \ {Top}
      /\ transactionMap' = [transactionMap EXCEPT ![commEpoch] = @ \cup {Top}]
      /\ currentEpoch' = TopEpoch
      /\ pc' = IF processedTransaction' # {} THEN "take"
               ELSE IF Enough(Cardinality(trWrapper')) THEN "send" ELSE "refill"
      /\ UNCHANGED <<CommStub, receivers, commEpoch, epochTrSentNum, broadcastTransactions, enqueuing,
                     delivered, tokens, epochOf, result, freed, epoch, arg, dequeuing, leftBehind,
                     currentEpochTrWrapper, nextEpochTrWrapper, blocks,
                     engineEpoch, inEngine, lastEpochFinishSignal>>
  BY DEF Take, TakesMore, queueVars, txVars, transferVars, engineVars
<1>2. Typed /\ QueueInv /\ PlaceInv /\ StepInv /\ EngineInv /\ ListInv
  BY DEF ManagerInv
<1>3. ~CommStub /\ HeapInv
  BY <1>1 DEF ManagerInv, StubInv
<1>4. /\ commEpoch \in Nat \ {0} /\ epoch \in Nat \ {0} /\ arg \in Nat \ {0}
      /\ arg = epoch \/ arg = epoch + 1
      /\ currentEpoch \in Nat /\ \A u \in Tx : epochOf[u] \in Nat
  BY <1>2, Numbers
<1>5. processedTransaction # {} /\ ~dequeuing
  BY <1>1, <1>2, <1>3 DEF HeapInv, Typed
<1>6. /\ Top \in processedTransaction /\ Top \in Tx /\ epochOf[Top] = arg /\ Top \in Waiting
      /\ \A u \in processedTransaction : arg <= epochOf[u]
  BY <1>1, <1>2, <1>5, TopIsFirst DEF Waiting
<1>7. currentEpoch <= arg
  <2>1. ~(epochOf[Top] < currentEpoch)
    BY <1>1 DEF Checks, TakesMore, Stale, Take
  <2> QED  BY <1>4, <1>6, <2>1
<1>8. /\ Top \notin Queued /\ Top \notin Wrapped /\ arg <= MaxEpoch /\ arg <= commEpoch
      /\ Top \notin freed /\ \A f \in Epochs : Top \notin transactionMap[f]
  BY <1>2, <1>6 DEF PlaceInv, ListInv, Waiting
<1>9. /\ IsFiniteSet(trWrapper) /\ Cardinality(trWrapper) \in Nat
      /\ Cardinality(trWrapper') <= MaxSize
  <2>1. IsFiniteSet(Tx)
    BY ConstantNumbers, FS_Interval DEF Tx
  <2>2. IsFiniteSet(trWrapper) /\ Cardinality(trWrapper) \in Nat
    BY <1>2, <2>1, FS_Subset, FS_CardinalityType DEF Typed
  <2>3. Cardinality(trWrapper') = Cardinality(trWrapper) + 1
    BY <1>1, <1>8, <2>2, FS_AddElement DEF Wrapped
  <2> QED  BY <1>1, <2>2, <2>3, ConstantNumbers
<1>10. /\ pc' \in {"take", "refill", "send"} /\ (pc' = "take" => processedTransaction' # {})
       /\ trWrapper' # {}
  BY <1>1
<1>11. Queued' = Queued /\ Waiting' = Waiting \ {Top} /\ Wrapped' = Wrapped \cup {Top}
  <2>1. Queued' = Queued
    BY <1>1 DEF Queued
  <2> QED  BY <1>1, <1>8, <2>1 DEF Waiting, Wrapped
<1>12. Typed'
  <2>1. transactionMap' \in [Epochs -> SUBSET Tx]
    BY <1>1, <1>2, <1>6 DEF Typed
  <2>2. currentEpoch' \in 0..MaxEpoch
    BY <1>1, <1>4, <1>8, ConstantNumbers
  <2>3. trWrapper' \in SUBSET Tx /\ processedTransaction' \in SUBSET Tx
    BY <1>1, <1>2, <1>6 DEF Typed
  <2> QED  BY <1>1, <1>2, <1>5, <1>9, <1>10, <2>1, <2>2, <2>3 DEF Typed
<1>13. QueueInv'
  BY <1>1, <1>2, <1>11 DEF QueueInv
<1>14. PlaceInv'
  <2>1. Waiting' \cup Wrapped' = Waiting \cup Wrapped
    BY <1>6, <1>11
  <2>2. \A t \in trWrapper' : epochOf[t] = arg
    BY <1>1, <1>2, <1>6 DEF PlaceInv
  <2>3. Queued' \cap processedTransaction' = {} /\ Waiting' \cap Wrapped' = {}
    BY <1>1, <1>2, <1>11 DEF PlaceInv
  <2>4. trWrapper' \cap (currentEpochTrWrapper \cup nextEpochTrWrapper) = {}
    BY <1>1, <1>2, <1>8 DEF PlaceInv, Wrapped
  <2>5. \A e \in Epochs : \A t \in blocks[e] : epochOf[t] = e /\ e < epoch /\ t \notin Waiting'
    BY <1>2, <1>11 DEF PlaceInv
  <2>6. \A t \in Waiting' : epochOf[t] # 0 /\ epochOf[t] <= MaxEpoch
    BY <1>2, <1>11 DEF PlaceInv
  <2>7. \A t \in Tx : epochOf[t] # 0 =>
          t \in Waiting' \cup Wrapped' \/ (epochOf[t] < epoch /\ t \in blocks[epochOf[t]])
    BY <1>2, <2>1 DEF PlaceInv
  <2> QED  BY <1>1, <1>2, <2>2, <2>3, <2>4, <2>5, <2>6, <2>7 DEF PlaceInv
<1>15. StepInv'
  <2>1. arg = epoch => nextEpochTrWrapper = {}
    <3> SUFFICES ASSUME arg = epoch, nextEpochTrWrapper # {} PROVE FALSE
      OBVIOUS
    <3>1. epoch < currentEpoch
      BY <1>3 DEF HeapInv
    <3> QED  BY <1>4, <1>7, <3>1
  <2> QED  BY <1>1, <1>2, <1>10, <2>1 DEF StepInv
<1>16. EngineInv'
  BY <1>1, <1>2 DEF EngineInv
<1>17. ListInv'
  <2>1. \A f \in Epochs : transactionMap'[f] = IF f = commEpoch THEN transactionMap[f] \cup {Top} ELSE transactionMap[f]
    BY <1>1, <1>2 DEF Typed
  <2>2. epochOf[Top] \in 1..commEpoch
    BY <1>4, <1>6, <1>8
  <2>3. \A f \in Epochs : \A t \in transactionMap'[f] :
          /\ epochOf[t] \in 1..f /\ t \notin Waiting' /\ t \notin freed
          /\ \A g \in Epochs : t \in transactionMap'[g] => f = g
    <3> SUFFICES ASSUME NEW f \in Epochs, NEW t \in transactionMap'[f]
                 PROVE  /\ epochOf[t] \in 1..f /\ t \notin Waiting' /\ t \notin freed
                        /\ \A g \in Epochs : t \in transactionMap'[g] => f = g
      OBVIOUS
    <3>1. CASE t = Top
      <4>1. \A g \in Epochs : Top \in transactionMap'[g] => g = commEpoch
        BY <1>8, <2>1
      <4>2. f = commEpoch
        BY <3>1, <4>1
      <4> QED  BY <1>8, <1>11, <2>2, <3>1, <4>1, <4>2
    <3>2. CASE t # Top
      <4>1. \A g \in Epochs : t \in transactionMap'[g] => t \in transactionMap[g]
        BY <2>1, <3>2
      <4> QED  BY <1>2, <1>11, <4>1 DEF ListInv
    <3> QED  BY <3>1, <3>2
  <2>4. \A t \in freed : epochOf[t] \in 1..(epoch - 1) /\ t \notin Waiting'
    BY <1>2, <1>11 DEF ListInv
  <2> QED  BY <1>1, <2>3, <2>4 DEF ListInv
<1>18. HeapInv'
  <2>1. nextEpochTrWrapper # {} => epoch < arg
    <3>1. nextEpochTrWrapper # {} => epoch < currentEpoch
      BY <1>3 DEF HeapInv
    <3> QED  BY <1>4, <1>7, <3>1
  <2> QED  BY <1>1, <1>3, <1>8, <1>10, <2>1 DEF HeapInv
<1> QED  BY <1>1, <1>3, <1>6, <1>9, <1>11, <1>12, <1>13, <1>14, <1>15, <1>16, <1>17, <1>18 DEF ManagerInv

(* The wrapper goes to the coordinator.                                    *)
LEMMA SendInv ==
  ASSUME ManagerInv, Send
  PROVE  /\ ManagerInv' /\ currentEpochTrWrapper' # {}
         /\ Queued' = Queued /\ Waiting' = Waiting
<1>1. /\ pc = "send"
      /\ inEngine' = inEngine \cup trWrapper /\ trWrapper' = {}
      /\ IF arg = epoch
         THEN /\ currentEpochTrWrapper' = currentEpochTrWrapper \cup trWrapper
              /\ pc' = "get" /\ nextEpochTrWrapper' = nextEpochTrWrapper
         ELSE /\ nextEpochTrWrapper' = nextEpochTrWrapper \cup trWrapper
              /\ pc' = "poll" /\ currentEpochTrWrapper' = currentEpochTrWrapper
      /\ UNCHANGED <<CommStub, receivers, commEpoch, epochTrSentNum, broadcastTransactions, enqueuing,
                     delivered, tokens, processedTransaction, currentEpoch, transactionMap, epochOf,
                     result, freed, epoch, arg, dequeuing, leftBehind, blocks,
                     engineEpoch, lastEpochFinishSignal>>
  BY DEF Send, commVars, queueVars, heapVars, txVars, transferVars
<1>2. Typed /\ QueueInv /\ PlaceInv /\ StepInv /\ EngineInv /\ ListInv
  BY DEF ManagerInv
<1>3. /\ commEpoch \in Nat \ {0} /\ epoch \in Nat \ {0} /\ arg \in Nat \ {0} /\ (arg = epoch \/ arg = epoch + 1)
      /\ epoch # epoch + 1 /\ epoch < epoch + 1
      /\ \A u \in Tx : epochOf[u] \in Nat
  BY <1>2, Numbers
<1>4. trWrapper # {} /\ currentEpochTrWrapper' # {} /\ currentEpochTrWrapper \subseteq currentEpochTrWrapper'
      /\ ~dequeuing
  BY <1>1, <1>2, <1>3 DEF StepInv, Typed
<1>5. Queued' = Queued /\ Waiting' = Waiting /\ Wrapped' = Wrapped
  <2>1. Wrapped' = Wrapped
    BY <1>1 DEF Wrapped
  <2> QED  BY <1>1, <2>1 DEF Waiting, Queued
<1>6. Cardinality({}) = 0 /\ 0 <= MaxSize
  BY FS_EmptySet, ConstantNumbers
<1>7. Typed'
  <2>1. pc' \in {"get", "pull", "test", "take", "refill", "send", "poll"}
    BY <1>1
  <2>2. /\ currentEpochTrWrapper' \in SUBSET Tx /\ nextEpochTrWrapper' \in SUBSET Tx /\ inEngine' \in SUBSET Tx
        /\ trWrapper' \in SUBSET Tx /\ Cardinality(trWrapper') <= MaxSize
    BY <1>1, <1>2, <1>6 DEF Typed
  <2> QED  BY <1>1, <1>2, <1>4, <2>1, <2>2 DEF Typed
<1>8. QueueInv'
  BY <1>1, <1>2, <1>5 DEF QueueInv
<1>9. PlaceInv'
  <2>1. /\ \A t \in currentEpochTrWrapper' : epochOf[t] = epoch
        /\ \A t \in nextEpochTrWrapper' : epochOf[t] = epoch + 1
    BY <1>1, <1>2, <1>3 DEF PlaceInv
  <2> QED  BY <1>1, <1>2, <1>5, <2>1 DEF PlaceInv
<1>10. StepInv'
  <2>1. pc' = "poll" => arg = epoch + 1
    BY <1>1, <1>3
  <2> QED  BY <1>1, <1>2, <1>4, <2>1 DEF StepInv
<1>11. EngineInv'
  <2>1. CASE engineEpoch = epoch /\ inEngine = currentEpochTrWrapper \cup nextEpochTrWrapper
    BY <1>1, <1>2, <2>1 DEF EngineInv
  <2>2. CASE /\ engineEpoch = epoch + 1
             /\ inEngine = nextEpochTrWrapper /\ nextEpochTrWrapper # {}
             /\ \A t \in currentEpochTrWrapper : result[t] # "PENDING"
             /\ \E t \in currentEpochTrWrapper : result[t] # "ABORT"
    <3>1. arg # epoch
      BY <1>2, <1>4, <2>2 DEF StepInv
    <3>2. /\ nextEpochTrWrapper' = nextEpochTrWrapper \cup trWrapper
          /\ currentEpochTrWrapper' = currentEpochTrWrapper
      BY <1>1, <3>1
    <3>3. inEngine' = nextEpochTrWrapper' /\ nextEpochTrWrapper' # {}
      BY <1>1, <2>2, <3>2
    <3> QED  BY <1>1, <1>2, <2>2, <3>2, <3>3 DEF EngineInv
  <2> QED  BY <1>2, <2>1, <2>2 DEF EngineInv
<1>12. ListInv'
  BY <1>1, <1>2, <1>5 DEF ListInv
<1>13. CommStub => StubInv'
  BY <1>1, <1>4, <1>5 DEF ManagerInv, StubInv
<1>14. ~CommStub => HeapInv'
  <2> SUFFICES ASSUME ~CommStub PROVE HeapInv'
    OBVIOUS
  <2>1. HeapInv
    BY DEF ManagerInv
  <2>2. nextEpochTrWrapper' # {} => epoch < currentEpoch
    <3>1. CASE nextEpochTrWrapper # {}
      BY <2>1, <3>1 DEF HeapInv
    <3>2. CASE nextEpochTrWrapper' # {} /\ nextEpochTrWrapper = {}
      <4>1. arg = epoch + 1 /\ currentEpoch = arg
        BY <1>1, <1>3, <1>4, <2>1, <3>2 DEF HeapInv
      <4> QED  BY <1>3, <4>1
    <3> QED  BY <3>1, <3>2
  <2> QED  BY <1>1, <1>4, <2>1, <2>2 DEF HeapInv
<1> QED  BY <1>1, <1>4, <1>5, <1>7, <1>8, <1>9, <1>10, <1>11, <1>12, <1>13, <1>14 DEF ManagerInv

(* The epoch is not finished: the manager asks for more of it.             *)
LEMMA NotFinishedInv ==
  ASSUME ManagerInv, NotFinished
  PROVE  /\ ManagerInv' /\ arg = epoch + 1 /\ currentEpochTrWrapper # {}
<1>1. /\ pc = "poll" /\ pc' = "get" /\ arg' = epoch
      /\ UNCHANGED <<CommStub, receivers, commEpoch, epochTrSentNum, broadcastTransactions, enqueuing,
                     delivered, tokens, processedTransaction, currentEpoch, transactionMap, epochOf,
                     result, freed, epoch, dequeuing, leftBehind, trWrapper,
                     currentEpochTrWrapper, nextEpochTrWrapper, blocks,
                     engineEpoch, inEngine, lastEpochFinishSignal>>
  BY DEF NotFinished, commVars, queueVars, heapVars, txVars, transferVars, engineVars
<1>2. Typed /\ QueueInv /\ PlaceInv /\ StepInv /\ EngineInv /\ ListInv
  BY DEF ManagerInv
<1>3. /\ commEpoch \in Nat \ {0} /\ epoch \in Nat \ {0} /\ arg \in Nat \ {0} /\ epoch # epoch + 1
  BY <1>2, Numbers
<1>4. trWrapper = {} /\ arg = epoch + 1 /\ currentEpochTrWrapper # {} /\ epoch <= commEpoch /\ ~dequeuing
  <2>1. trWrapper = {} /\ arg = epoch + 1 /\ currentEpochTrWrapper # {} /\ arg <= commEpoch /\ ~dequeuing
    BY <1>1, <1>2 DEF StepInv, PlaceInv, Typed
  <2> QED  BY <1>3, <2>1
<1>5. Queued' = Queued /\ Waiting' = Waiting /\ Wrapped' = Wrapped
  BY <1>1 DEF Waiting, Queued, Wrapped
<1>6. Typed' /\ QueueInv' /\ PlaceInv'
  BY <1>1, <1>2, <1>4, <1>5 DEF Typed, QueueInv, PlaceInv
<1>7. StepInv' /\ EngineInv' /\ ListInv'
  BY <1>1, <1>2, <1>3, <1>4, <1>5 DEF StepInv, EngineInv, ListInv
<1>8. CommStub => StubInv'
  BY <1>1, <1>4, <1>5 DEF ManagerInv, StubInv
<1>9. ~CommStub => HeapInv'
  BY <1>1, <1>4 DEF ManagerInv, HeapInv
<1> QED  BY <1>1, <1>4, <1>6, <1>7, <1>8, <1>9 DEF ManagerInv

(* The coordinator decides the manager's epoch: one of the next is there.  *)
LEMMA EngineFinishInv ==
  ASSUME ManagerInv, EngineFinish
  PROVE  ManagerInv'
<1> DEFINE B == {t \in inEngine : epochOf[t] = engineEpoch}
<1>1. /\ \E t \in inEngine : epochOf[t] > engineEpoch
      /\ \E r \in [B -> {"COMMIT", "ABORT", "ABORT_NO_RETRY"}] :
           /\ B # {} => \E t \in B : r[t] # "ABORT"
           /\ result' = [t \in Tx |-> IF t \in B THEN r[t] ELSE result[t]]
      /\ inEngine' = inEngine \ B
      /\ lastEpochFinishSignal' = engineEpoch /\ engineEpoch' = engineEpoch + 1
      /\ UNCHANGED <<CommStub, receivers, commEpoch, epochTrSentNum, broadcastTransactions, enqueuing,
                     delivered, tokens, processedTransaction, currentEpoch, transactionMap, epochOf,
                     freed, pc, epoch, arg, dequeuing, leftBehind, trWrapper,
                     currentEpochTrWrapper, nextEpochTrWrapper, blocks>>
  BY DEF EngineFinish, commVars, queueVars, heapVars, transferVars, managerVars
<1>2. Typed /\ QueueInv /\ PlaceInv /\ StepInv /\ EngineInv /\ ListInv
  BY DEF ManagerInv
<1>3. epoch \in Nat \ {0} /\ epoch # epoch + 1 /\ \A u \in Tx : epochOf[u] \in Nat
  BY <1>2, Numbers
<1>4. /\ \A t \in currentEpochTrWrapper : epochOf[t] = epoch
      /\ \A t \in nextEpochTrWrapper : epochOf[t] = epoch + 1
      /\ currentEpochTrWrapper \subseteq Tx /\ nextEpochTrWrapper \subseteq Tx
  BY <1>2 DEF PlaceInv, Typed
<1>5. engineEpoch = epoch /\ inEngine = currentEpochTrWrapper \cup nextEpochTrWrapper
  <2> SUFFICES ASSUME engineEpoch = epoch + 1, inEngine = nextEpochTrWrapper PROVE FALSE
    BY <1>2 DEF EngineInv
  <2>1. \A t \in inEngine : ~(epochOf[t] > engineEpoch)
    BY <1>3, <1>4
  <2> QED  BY <1>1, <2>1
<1>6. B = currentEpochTrWrapper
  BY <1>3, <1>4, <1>5
<1>7. nextEpochTrWrapper # {} /\ currentEpochTrWrapper # {}
  <2>1. \A t \in currentEpochTrWrapper : ~(epochOf[t] > engineEpoch)
    BY <1>3, <1>4, <1>5
  <2>2. nextEpochTrWrapper # {}
    BY <1>1, <1>5, <2>1
  <2> QED  BY <1>2, <2>2 DEF StepInv
<1>8. inEngine' = nextEpochTrWrapper
  BY <1>1, <1>3, <1>4, <1>5, <1>6
<1> HIDE DEF B
<1>9. PICK r \in [B -> {"COMMIT", "ABORT", "ABORT_NO_RETRY"}] :
           /\ B # {} => \E t \in B : r[t] # "ABORT"
           /\ result' = [t \in Tx |-> IF t \in B THEN r[t] ELSE result[t]]
  BY <1>1
<1>10. \A t \in B : result'[t] = r[t] /\ r[t] \in {"COMMIT", "ABORT", "ABORT_NO_RETRY"}
  BY <1>4, <1>6, <1>9
<1>11. /\ result' \in [Tx -> {"PENDING", "COMMIT", "ABORT", "ABORT_NO_RETRY"}]
       /\ \A t \in currentEpochTrWrapper : result'[t] # "PENDING"
       /\ \E t \in currentEpochTrWrapper : result'[t] # "ABORT"
  <2>1. \A t \in Tx : (IF t \in B THEN r[t] ELSE result[t]) \in {"PENDING", "COMMIT", "ABORT", "ABORT_NO_RETRY"}
    BY <1>2, <1>10, <1>9 DEF Typed
  <2> QED  BY <1>6, <1>7, <1>9, <1>10, <2>1
<1>12. Queued' = Queued /\ Waiting' = Waiting /\ Wrapped' = Wrapped
  BY <1>1 DEF Waiting, Queued, Wrapped
<1>13. Typed'
  <2>1. inEngine' \in SUBSET Tx
    BY <1>4, <1>8
  <2> QED  BY <1>1, <1>2, <1>11, <2>1 DEF Typed
<1>14. QueueInv' /\ PlaceInv' /\ StepInv' /\ ListInv'
  BY <1>1, <1>2, <1>12 DEF QueueInv, PlaceInv, StepInv, ListInv
<1>15. EngineInv'
  <2>1. lastEpochFinishSignal' = engineEpoch' - 1
    BY <1>1, <1>3, <1>5
  <2> QED  BY <1>1, <1>5, <1>7, <1>8, <1>11, <2>1 DEF EngineInv
<1>16. CommStub => StubInv'
  BY <1>1, <1>12 DEF ManagerInv, StubInv
<1>17. ~CommStub => HeapInv'
  BY <1>1 DEF ManagerInv, HeapInv
<1> QED  BY <1>1, <1>13, <1>14, <1>15, <1>16, <1>17 DEF ManagerInv

(* The stub's epoch is the one it is asked for, or a later one; it gives   *)
(* out the smallest unused IDs.                                            *)
LEMMA StubGetTransactionInv ==
  ASSUME ManagerInv, StubGetTransaction
  PROVE  ManagerInv'
<1> DEFINE W == Min(New)..(Min(New) + StubCount - 1)
<1>1. /\ pc = "get" /\ CommStub
      /\ UNCHANGED <<CommStub, receivers, broadcastTransactions, enqueuing, delivered, tokens,
                     processedTransaction, currentEpoch, result, freed, epoch, dequeuing, leftBehind,
                     currentEpochTrWrapper, nextEpochTrWrapper, blocks,
                     engineEpoch, inEngine, lastEpochFinishSignal>>
  BY DEF StubGetTransaction, queueVars, transferVars, engineVars
<1>2. Typed /\ QueueInv /\ PlaceInv /\ StepInv /\ EngineInv /\ ListInv /\ StubInv
  BY <1>1 DEF ManagerInv
<1>3. /\ commEpoch \in Nat \ {0} /\ epoch \in Nat \ {0} /\ arg \in Nat \ {0} /\ (arg = epoch \/ arg = epoch + 1)
      /\ epoch # epoch + 1 /\ \A u \in Tx : epochOf[u] \in Nat
  BY <1>2, Numbers
<1>4. /\ Queued' = Queued /\ Waiting = {} /\ Waiting' = {} /\ trWrapper = {} /\ ~dequeuing
      /\ Wrapped = currentEpochTrWrapper \cup nextEpochTrWrapper
      /\ arg <= commEpoch /\ commEpoch <= epoch + 2
  <2>1. Queued' = Queued /\ Waiting' = Waiting
    BY <1>1 DEF Queued, Waiting
  <2> QED  BY <1>1, <1>2, <2>1 DEF StepInv, StubInv, PlaceInv, Typed, Wrapped
<1>0. QueueInv'
  BY <1>1, <1>2, <1>4 DEF QueueInv
<1>5. CASE arg < commEpoch
  <2>1. /\ IF arg = epoch THEN pc' = "get" /\ arg' = epoch + 1 ELSE pc' = "poll" /\ arg' = arg
        /\ UNCHANGED <<commEpoch, epochTrSentNum, transactionMap, trWrapper, epochOf>>
    BY <1>5 DEF StubGetTransaction, StubReturnsNull, ReturnNull
  <2>2. /\ pc' = "get" \/ pc' = "poll"
        /\ arg' = epoch + 1
    BY <1>3, <2>1
  <2>3. epoch + 1 <= commEpoch
    BY <1>3, <1>5
  <2>4. currentEpochTrWrapper # {}
    <3>1. currentEpochTrWrapper = {} => commEpoch = epoch
      BY <1>1, <1>2 DEF StubInv, StepInv
    <3> QED  BY <1>3, <2>3, <3>1
  <2>5. Typed'
    BY <1>1, <1>2, <1>4, <2>1, <2>2 DEF Typed
  <2>6. PlaceInv'
    BY <1>1, <1>2, <1>4, <2>1, <2>2, <2>3 DEF PlaceInv, Wrapped
  <2>7. StepInv' /\ EngineInv' /\ ListInv'
    BY <1>1, <1>2, <1>3, <1>4, <2>1, <2>2, <2>4 DEF StepInv, EngineInv, ListInv
  <2>8. StubInv'
    BY <1>1, <1>2, <1>4, <2>1, <2>2, <2>4 DEF StubInv
  <2> QED  BY <1>0, <1>1, <2>5, <2>6, <2>7, <2>8 DEF ManagerInv
<1>6. CASE ~(arg < commEpoch)
  <2>1. /\ commEpoch <= MaxEpoch /\ Cardinality(New) >= StubCount
        /\ trWrapper' = W
        /\ epochOf' = [t \in Tx |-> IF t \in W THEN commEpoch ELSE epochOf[t]]
        /\ transactionMap' = [transactionMap EXCEPT ![commEpoch] = @ \cup W]
        /\ epochTrSentNum' = (epochTrSentNum + StubCount) % StubEpochSize
        /\ commEpoch' = IF epochTrSentNum' = 0 THEN commEpoch + 1 ELSE commEpoch
        /\ pc' = "send" /\ arg' = arg
    BY <1>6 DEF StubGetTransaction, StubReturnsNull
  <2>2. commEpoch = arg
    BY <1>3, <1>4, <1>6
  <2>3. StubCount \in Nat \ {0} /\ StubCount <= MaxSize /\ epochTrSentNum' \in 0..(StubEpochSize - 1)
    <3>1. StubCount \in Nat \ {0} /\ StubCount <= MinSize
      BY <1>2, ConstantNumbers DEF Typed, StubCount
    <3>2. StubCount <= MaxSize
      BY <3>1, ConstantNumbers
    <3>3. epochTrSentNum + StubCount \in Nat
      BY <1>2, <3>1, ConstantNumbers DEF Typed
    <3>4. (epochTrSentNum + StubCount) % StubEpochSize \in 0..(StubEpochSize - 1)
      BY <3>3, ConstantNumbers
    <3> QED  BY <2>1, <3>1, <3>2, <3>4
  <2>4. New # {} /\ New \subseteq Tx /\ IsFiniteSet(New)
    <3>1. IsFiniteSet(Tx) /\ New \subseteq Tx
      <4>1. IsFiniteSet(Tx)
        BY ConstantNumbers, FS_Interval DEF Tx
      <4> QED  BY <4>1 DEF New
    <3>2. IsFiniteSet(New)
      BY <3>1, FS_Subset
    <3>3. New = {} => ~(Cardinality(New) >= StubCount)
      BY <2>3, FS_EmptySet
    <3> QED  BY <2>1, <3>1, <3>2, <3>3
  <2>5. Min(New) \in New /\ \A t \in New : Min(New) <= t
    <3>1. New \in SUBSET Nat
      BY <2>4, ConstantNumbers
    <3>2. PICK x \in New : \A y \in New : x <= y
      BY <2>4, <3>1, Smallest
    <3> QED  BY <3>2 DEF Min
  <2>6. New = Min(New)..MaxTx
    <3>1. Min(New) \in Nat /\ MaxTx \in Nat /\ Min(New) \in Tx /\ epochOf[Min(New)] = 0
      BY <2>4, <2>5, ConstantNumbers DEF New
    <3>2. \A t \in New : t \in Min(New)..MaxTx
      BY <2>4, <2>5, <3>1 DEF Tx
    <3>3. ASSUME NEW t \in Min(New)..MaxTx PROVE t \in New
      <4>1. t \in Tx /\ (t = Min(New) \/ Min(New) < t)
        BY <3>1 DEF Tx
      <4> QED  BY <1>2, <3>1, <4>1 DEF StubInv, New
    <3> QED  BY <3>2, <3>3
  <2>7. /\ W \subseteq New /\ W # {} /\ \A t \in New \ W : \A u \in W : u < t
        /\ Cardinality(W) <= MaxSize
    <3>1. Min(New) \in Nat \ {0} /\ MaxTx \in Nat /\ Min(New) <= MaxTx
      <4>1. MaxTx \in Nat
        BY ConstantNumbers
      <4>2. Min(New) \in 1..MaxTx
        BY <2>4, <2>5 DEF Tx
      <4> QED  BY <4>1, <4>2
    <3>2. Cardinality(New) = MaxTx - Min(New) + 1
      BY <2>6, <3>1, FS_Interval
    <3>3. Min(New) + StubCount - 1 <= MaxTx
      BY <2>1, <2>3, <3>1, <3>2
    <3>4. W \subseteq Min(New)..MaxTx /\ Min(New) \in W
      BY <2>3, <3>1, <3>3
    <3>5. Cardinality(W) = StubCount
      <4>1. Min(New) + StubCount - 1 \in Int /\ ~(Min(New) > Min(New) + StubCount - 1)
        BY <2>3, <3>1
      <4>2. Cardinality(W) = (Min(New) + StubCount - 1) - Min(New) + 1
        BY <3>1, <4>1, FS_Interval
      <4> QED  BY <2>3, <3>1, <4>2
    <3>6. \A t \in (Min(New)..MaxTx) \ W : \A u \in W : u < t
      BY <2>3, <3>1, <3>3
    <3> QED  BY <2>3, <2>6, <3>4, <3>5, <3>6
  <2> HIDE DEF W
  <2>8. \A t \in W : t \in Tx /\ epochOf[t] = 0
    BY <2>4, <2>7 DEF New
  <2>9. /\ \A t \in W : epochOf'[t] = commEpoch
        /\ \A t \in Tx : t \notin W => epochOf'[t] = epochOf[t]
        /\ \A t \in Tx : epochOf[t] # 0 => epochOf'[t] = epochOf[t] /\ t \notin W
        /\ epochOf' \in [Tx -> {0} \cup Epochs]
    <3>1. \A t \in Tx : epochOf'[t] = IF t \in W THEN commEpoch ELSE epochOf[t]
      BY <2>1
    <3>2. epochOf' \in [Tx -> {0} \cup Epochs]
      BY <1>2, <2>1 DEF Typed
    <3> QED  BY <2>8, <3>1, <3>2
  <2>10. /\ commEpoch' \in Epochs /\ commEpoch <= commEpoch' /\ commEpoch' <= epoch + 2
         /\ commEpoch' \in Nat
    <3>1. commEpoch' = commEpoch \/ commEpoch' = commEpoch + 1
      BY <2>1
    <3>2. commEpoch \in Epochs /\ commEpoch + 1 \in Epochs
      BY <1>2, <1>3, <2>1, ConstantNumbers DEF Typed
    <3> QED  BY <1>3, <2>2, <3>1, <3>2
  <2>11. \A t \in W : t \notin currentEpochTrWrapper /\ t \notin nextEpochTrWrapper /\ t \notin freed
                       /\ \A f \in Epochs : t \notin transactionMap[f] /\ t \notin blocks[f]
    <3>1. \A t \in W : /\ epochOf[t] # epoch /\ epochOf[t] # epoch + 1 /\ epochOf[t] \notin Epochs
                       /\ epochOf[t] \notin 1..(epoch - 1) /\ \A f \in Epochs : epochOf[t] \notin 1..f
      BY <1>3, <2>8, ConstantNumbers
    <3> QED  BY <1>2, <2>8, <3>1 DEF PlaceInv, ListInv
  <2>12. transactionMap' \in [Epochs -> SUBSET Tx]
         /\ \A f \in Epochs : transactionMap'[f] = IF f = commEpoch THEN transactionMap[f] \cup W ELSE transactionMap[f]
    BY <1>2, <2>1, <2>8 DEF Typed
  <2>13. Typed'
    <3>1. trWrapper' \in SUBSET Tx /\ Cardinality(trWrapper') <= MaxSize
      BY <2>1, <2>7, <2>8
    <3> QED  BY <1>1, <1>2, <1>4, <2>1, <2>3, <2>9, <2>10, <2>12, <3>1 DEF Typed
  <2>14. PlaceInv'
    <3>1. Wrapped' = Wrapped \cup W
      BY <1>1, <1>4, <2>1 DEF Wrapped
    <3>2. \A t \in Tx : epochOf'[t] # 0 =>
            t \in Waiting' \cup Wrapped' \/ (epochOf'[t] < epoch /\ t \in blocks[epochOf'[t]])
      <4> SUFFICES ASSUME NEW t \in Tx, epochOf'[t] # 0, t \notin W
                   PROVE  t \in Wrapped \/ (epochOf'[t] < epoch /\ t \in blocks[epochOf'[t]])
        BY <3>1
      <4>1. epochOf'[t] = epochOf[t]
        BY <2>9
      <4> QED  BY <1>2, <1>4, <4>1 DEF PlaceInv
    <3>3. \A e \in Epochs : \A t \in blocks[e] : epochOf'[t] = e /\ e < epoch /\ t \notin Waiting'
      BY <1>2, <1>4, <2>9, <2>11 DEF PlaceInv, Typed
    <3>4. \A t \in Tx : epochOf'[t] <= commEpoch'
      <4> SUFFICES ASSUME NEW t \in Tx PROVE epochOf'[t] <= commEpoch'
        OBVIOUS
      <4>1. epochOf'[t] = commEpoch \/ epochOf'[t] = epochOf[t]
        BY <2>9
      <4>2. epochOf[t] <= commEpoch
        BY <1>2 DEF PlaceInv
      <4> QED  BY <1>3, <2>10, <4>1, <4>2
    <3>5. /\ \A t \in W : epochOf'[t] = arg
          /\ \A t \in currentEpochTrWrapper : epochOf'[t] = epoch
          /\ \A t \in nextEpochTrWrapper : epochOf'[t] = epoch + 1
      <4>1. currentEpochTrWrapper \subseteq Tx /\ nextEpochTrWrapper \subseteq Tx
        BY <1>2 DEF Typed
      <4> QED  BY <1>2, <2>2, <2>9, <2>11, <4>1 DEF PlaceInv
    <3>6. arg' <= commEpoch'
      BY <2>1, <2>2, <2>10
    <3>7. trWrapper' \cap (currentEpochTrWrapper \cup nextEpochTrWrapper) = {}
      BY <2>1, <2>11
    <3>8. Queued' \cap processedTransaction' = {}
      BY <1>1, <1>2, <1>4 DEF PlaceInv
    <3> QED  BY <1>1, <1>4, <2>1, <3>2, <3>3, <3>4, <3>5, <3>6, <3>7, <3>8 DEF PlaceInv
  <2>15. StepInv'
    <3>1. arg = epoch => nextEpochTrWrapper = {}
      <4> SUFFICES ASSUME arg = epoch, NEW t \in nextEpochTrWrapper PROVE FALSE
        OBVIOUS
      <4>1. t \in Tx /\ epochOf[t] = epoch + 1 /\ epochOf[t] <= commEpoch
        BY <1>2 DEF PlaceInv, Typed
      <4> QED  BY <1>3, <2>2, <4>1
    <3> QED  BY <1>1, <1>2, <2>1, <2>7, <3>1 DEF StepInv
  <2>16. EngineInv'
    BY <1>1, <1>2 DEF EngineInv
  <2>17. ListInv'
    <3>1. \A f \in Epochs : \A t \in transactionMap'[f] :
            /\ epochOf'[t] \in 1..f /\ t \notin Waiting' /\ t \notin freed
            /\ \A g \in Epochs : t \in transactionMap'[g] => f = g
      <4> SUFFICES ASSUME NEW f \in Epochs, NEW t \in transactionMap'[f]
                   PROVE  /\ epochOf'[t] \in 1..f /\ t \notin freed
                          /\ \A g \in Epochs : t \in transactionMap'[g] => f = g
        BY <1>4
      <4>1. CASE t \in W
        <5>1. \A g \in Epochs : t \in transactionMap'[g] => g = commEpoch
          BY <2>11, <2>12, <4>1
        <5>2. epochOf'[t] \in 1..commEpoch
          BY <1>3, <2>9, <4>1
        <5> QED  BY <2>11, <4>1, <5>1, <5>2
      <4>2. CASE t \notin W
        <5>1. \A g \in Epochs : t \in transactionMap'[g] => t \in transactionMap[g]
          BY <2>12, <4>2
        <5>2. t \in Tx /\ epochOf'[t] = epochOf[t]
          BY <1>2, <2>9, <4>2, <5>1 DEF Typed
        <5> QED  BY <1>2, <5>1, <5>2 DEF ListInv
      <4> QED  BY <4>1, <4>2
    <3>2. \A t \in freed : epochOf'[t] = epochOf[t]
      BY <1>2, <2>9, <2>11 DEF Typed
    <3> QED  BY <1>1, <1>2, <1>4, <3>1, <3>2 DEF ListInv
  <2>18. StubInv'
    <3>1. \A f \in Epochs : \A t \in transactionMap'[f] : epochOf'[t] = f
      <4> SUFFICES ASSUME NEW f \in Epochs, NEW t \in transactionMap'[f] PROVE epochOf'[t] = f
        OBVIOUS
      <4>1. CASE t \in W
        BY <2>9, <2>11, <2>12, <4>1
      <4>2. CASE t \notin W
        <5>1. t \in transactionMap[f] /\ t \in Tx
          BY <1>2, <2>12, <4>2 DEF Typed
        <5> QED  BY <1>2, <2>9, <4>2, <5>1 DEF StubInv
      <4> QED  BY <4>1, <4>2
    <3>2. \A t, u \in Tx : epochOf'[t] = 0 /\ t < u => epochOf'[u] = 0
      <4> SUFFICES ASSUME NEW t \in Tx, NEW u \in Tx, epochOf'[t] = 0, t < u PROVE epochOf'[u] = 0
        OBVIOUS
      <4>1. t \notin W
        BY <1>3, <2>9
      <4>2. epochOf[t] = 0 /\ epochOf[u] = 0
        BY <1>2, <2>9, <4>1 DEF StubInv
      <4>3. t \in New \ W
        BY <4>1, <4>2 DEF New
      <4>4. u \in W => u < t
        BY <2>7, <4>3
      <4>5. t \in Nat /\ u \in Nat
        BY ConstantNumbers
      <4>6. u \notin W
        BY <4>4, <4>5
      <4> QED  BY <2>9, <4>2, <4>6
    <3> QED  BY <1>1, <1>4, <2>1, <2>10, <3>1, <3>2 DEF StubInv
  <2> QED  BY <1>0, <1>1, <2>13, <2>14, <2>15, <2>16, <2>17, <2>18 DEF ManagerInv
<1> QED  BY <1>5, <1>6

(* The epoch is brought to an end: the aborted transactions go to the next *)
(* one, the others into the block, and what is listed under the epoch is   *)
(* deleted or listed under the next one.                                   *)
LEMMA FinishFacts ==
  ASSUME ManagerInv, Finishes
  PROVE  /\ pc = "poll" /\ trWrapper = {} /\ arg = epoch + 1 /\ currentEpochTrWrapper # {} /\ ~dequeuing
         /\ epoch + 1 \in Epochs /\ epoch + 1 <= commEpoch
         /\ engineEpoch = epoch + 1 /\ inEngine = nextEpochTrWrapper /\ nextEpochTrWrapper # {}
         /\ Decided # {} /\ Decided = currentEpochTrWrapper \ Aborted
         /\ Aborted \subseteq currentEpochTrWrapper /\ Aborted \subseteq Tx
         /\ \A t \in Aborted : epochOf[t] = epoch /\ EpochAfter[t] = epoch + 1
         /\ \A t \in Tx : t \notin Aborted => EpochAfter[t] = epochOf[t]
         /\ \A t \in Tx : epochOf[t] # epoch => t \notin Aborted /\ EpochAfter[t] = epochOf[t]
         /\ \A t \in Tx : EpochAfter[t] = epochOf[t] \/ EpochAfter[t] = epoch + 1
         /\ \A t \in Waiting : t \notin Aborted /\ EpochAfter[t] = epochOf[t]
<1>1. pc = "poll" /\ lastEpochFinishSignal = epoch /\ epoch < MaxEpoch + 1
  BY DEF Finishes
<1>2. Typed /\ PlaceInv /\ StepInv /\ EngineInv
  BY DEF ManagerInv
<1>3. epoch \in Nat \ {0} /\ epoch # epoch + 1
  BY <1>2, Numbers
<1>4. trWrapper = {} /\ arg = epoch + 1 /\ currentEpochTrWrapper # {} /\ epoch + 1 <= commEpoch /\ ~dequeuing
  BY <1>1, <1>2 DEF StepInv, PlaceInv, Typed
<1>5. /\ engineEpoch = epoch + 1 /\ inEngine = nextEpochTrWrapper /\ nextEpochTrWrapper # {}
      /\ \A t \in currentEpochTrWrapper : result[t] # "PENDING"
      /\ \E t \in currentEpochTrWrapper : result[t] # "ABORT"
  <2>1. engineEpoch # epoch
    <3>1. lastEpochFinishSignal = engineEpoch - 1
      BY <1>2 DEF EngineInv
    <3> QED  BY <1>1, <1>3, <3>1
  <2> QED  BY <1>2, <2>1 DEF EngineInv
<1>6. /\ currentEpochTrWrapper \subseteq Tx /\ Waiting \subseteq Tx
      /\ \A t \in currentEpochTrWrapper : epochOf[t] = epoch
  BY <1>2, QueuedTransactions DEF Typed, PlaceInv
<1>7. Aborted \subseteq currentEpochTrWrapper /\ Aborted \subseteq Tx
  BY <1>6 DEF Aborted
<1>8. Decided = currentEpochTrWrapper \ Aborted /\ Decided # {}
  <2>1. \A t \in currentEpochTrWrapper : result[t] \in {"PENDING", "COMMIT", "ABORT", "ABORT_NO_RETRY"}
    BY <1>2, <1>6 DEF Typed
  <2>2. Decided = currentEpochTrWrapper \ Aborted
    BY <1>5, <2>1 DEF Decided, Aborted, Retry
  <2> QED  BY <1>5, <2>2 DEF Aborted, Retry
<1>9. epoch + 1 \in Epochs
  BY <1>1, <1>2, <1>3, ConstantNumbers DEF Typed
<1>10. \A t \in Tx : EpochAfter[t] = IF t \in Aborted THEN epoch + 1 ELSE epochOf[t]
  BY DEF EpochAfter
<1>11. \A t \in Waiting : t \in Tx /\ t \notin Aborted
  BY <1>2, <1>6, <1>7 DEF PlaceInv, Wrapped
<1>12. \A t \in Aborted : epochOf[t] = epoch /\ EpochAfter[t] = epoch + 1
  BY <1>6, <1>7, <1>10
<1>13. \A t \in Tx : epochOf[t] # epoch => t \notin Aborted
  BY <1>12
<1>14. \A t \in Waiting : t \notin Aborted /\ EpochAfter[t] = epochOf[t]
  BY <1>10, <1>11
<1> QED  BY <1>1, <1>4, <1>5, <1>7, <1>8, <1>9, <1>10, <1>12, <1>13, <1>14

LEMMA FinishEpochInv ==
  ASSUME ManagerInv, FinishEpoch
  PROVE  ManagerInv'
<1> DEFINE L == transactionMap[epoch]
<1>1. /\ Finishes
      /\ epochOf' = EpochAfter
      /\ result' = [t \in Tx |-> IF t \in Aborted THEN "PENDING" ELSE result[t]]
      /\ inEngine' = inEngine \cup Aborted
      /\ blocks' = [blocks EXCEPT ![epoch] = Decided]
      /\ freed' = freed \cup {t \in L : EpochAfter[t] = epoch}
      /\ transactionMap' = [f \in Epochs |->
           IF f = epoch THEN {} ELSE transactionMap[f] \cup {t \in L : EpochAfter[t] = f}]
      /\ epoch' = epoch + 1 /\ arg' = epoch + 1 /\ pc' = "get"
      /\ currentEpochTrWrapper' = nextEpochTrWrapper \cup Aborted
      /\ nextEpochTrWrapper' = {}
      /\ UNCHANGED <<CommStub, receivers, commEpoch, broadcastTransactions, enqueuing, delivered, tokens,
                     processedTransaction, currentEpoch, epochTrSentNum, dequeuing, leftBehind,
                     trWrapper, engineEpoch, lastEpochFinishSignal>>
  BY DEF FinishEpoch, ClearTransactions, queueVars, transferVars
<1>2. Typed /\ QueueInv /\ PlaceInv /\ StepInv /\ EngineInv /\ ListInv
  BY DEF ManagerInv
<1>3. /\ commEpoch \in Nat \ {0} /\ epoch \in Nat \ {0} /\ epoch # epoch + 1
      /\ \A t \in Tx : epochOf[t] \in Nat
  BY <1>2, Numbers
<1>4. /\ pc = "poll" /\ trWrapper = {} /\ arg = epoch + 1 /\ currentEpochTrWrapper # {} /\ ~dequeuing
      /\ epoch + 1 \in Epochs /\ epoch + 1 <= commEpoch
      /\ engineEpoch = epoch + 1 /\ inEngine = nextEpochTrWrapper /\ nextEpochTrWrapper # {}
      /\ Decided = currentEpochTrWrapper \ Aborted
      /\ Aborted \subseteq currentEpochTrWrapper /\ Aborted \subseteq Tx
  BY <1>1, FinishFacts
<1>5. /\ \A t \in Aborted : epochOf[t] = epoch /\ EpochAfter[t] = epoch + 1
      /\ \A t \in Tx : t \notin Aborted => EpochAfter[t] = epochOf[t]
      /\ \A t \in Tx : epochOf[t] # epoch => t \notin Aborted /\ EpochAfter[t] = epochOf[t]
      /\ \A t \in Tx : EpochAfter[t] = epochOf[t] \/ EpochAfter[t] = epoch + 1
      /\ \A t \in Waiting : t \notin Aborted /\ EpochAfter[t] = epochOf[t]
  BY <1>1, FinishFacts
<1>6. /\ currentEpochTrWrapper \subseteq Tx /\ nextEpochTrWrapper \subseteq Tx /\ freed \subseteq Tx
      /\ Waiting \subseteq Tx
      /\ \A t \in currentEpochTrWrapper : epochOf[t] = epoch
      /\ \A t \in nextEpochTrWrapper : epochOf[t] = epoch + 1
  BY <1>2, QueuedTransactions DEF Typed, PlaceInv
<1>7. Queued' = Queued /\ Waiting' = Waiting /\ Wrapped' = nextEpochTrWrapper \cup Aborted
  <2>1. Queued' = Queued /\ Waiting' = Waiting
    BY <1>1 DEF Queued, Waiting
  <2> QED  BY <1>1, <1>4, <2>1 DEF Wrapped
<1>8. L \subseteq Tx /\ \A t \in L : epochOf[t] \in 1..epoch
  BY <1>2 DEF ListInv, Typed
<1>9. /\ transactionMap' \in [Epochs -> SUBSET Tx]
      /\ \A f \in Epochs : \A t \in transactionMap'[f] :
           f # epoch /\ (t \in transactionMap[f] \/ (t \in L /\ EpochAfter[t] = f))
  BY <1>1, <1>2, <1>8 DEF Typed
<1>10. Typed'
  <2>1. epochOf' \in [Tx -> {0} \cup Epochs]
    BY <1>1, <1>2, <1>4 DEF Typed, EpochAfter
  <2>2. result' \in [Tx -> {"PENDING", "COMMIT", "ABORT", "ABORT_NO_RETRY"}]
    BY <1>1, <1>2 DEF Typed
  <2>3. blocks' \in [Epochs -> SUBSET Tx]
    BY <1>1, <1>2, <1>4, <1>6 DEF Typed
  <2>4. /\ freed' \in SUBSET Tx /\ inEngine' \in SUBSET Tx /\ currentEpochTrWrapper' \in SUBSET Tx
        /\ nextEpochTrWrapper' \in SUBSET Tx
    BY <1>1, <1>4, <1>6, <1>8
  <2>5. /\ broadcastTransactions' \in [Receivers -> SUBSET Tx]
        /\ processedTransaction' \in SUBSET Tx /\ trWrapper' \in SUBSET Tx
        /\ CommStub' \in BOOLEAN /\ commEpoch' \in Epochs /\ currentEpoch' \in 0..MaxEpoch
        /\ receivers' \in SUBSET Receivers /\ (CommStub' <=> receivers' = {})
        /\ enqueuing' \in SUBSET receivers' /\ delivered' \in SUBSET receivers' /\ tokens' \in Nat
        /\ epochTrSentNum' \in 0..(StubEpochSize - 1) /\ Cardinality(trWrapper') <= MaxSize
        /\ dequeuing' = FALSE
    BY <1>1, <1>2, <1>4 DEF Typed
  <2>6. /\ epoch' \in Epochs /\ arg' \in {epoch', epoch' + 1}
        /\ pc' \in {"get", "pull", "test", "take", "refill", "send", "poll"}
    BY <1>1, <1>4
  <2> QED  BY <1>9, <2>1, <2>2, <2>3, <2>4, <2>5, <2>6 DEF Typed
<1>11. QueueInv'
  BY <1>1, <1>2, <1>7 DEF QueueInv
<1>12. \A t \in nextEpochTrWrapper \cup Aborted : EpochAfter[t] = epoch + 1
  BY <1>3, <1>5, <1>6
<1>13. PlaceInv'
  <2>1. ASSUME NEW t \in Tx, EpochAfter[t] # 0, t \notin Waiting, t \notin nextEpochTrWrapper \cup Aborted
        PROVE  EpochAfter[t] < epoch + 1 /\ t \in blocks'[EpochAfter[t]]
    <3>1. EpochAfter[t] = epochOf[t] /\ epochOf[t] \in Epochs /\ epochOf[t] \in Nat
      BY <1>2, <1>3, <1>5, <2>1 DEF Typed
    <3>2. CASE t \in currentEpochTrWrapper
      <4>1. epochOf[t] = epoch /\ t \in Decided /\ epoch < epoch + 1
        BY <1>3, <1>4, <1>6, <2>1, <3>2
      <4> QED  BY <1>1, <1>2, <3>1, <4>1 DEF Typed
    <3>3. CASE t \notin currentEpochTrWrapper
      <4>1. t \notin Waiting \cup Wrapped
        BY <1>4, <2>1, <3>3 DEF Wrapped
      <4>2. epochOf[t] < epoch /\ t \in blocks[epochOf[t]]
        BY <1>2, <2>1, <3>1, <4>1 DEF PlaceInv
      <4>3. epochOf[t] # epoch /\ epochOf[t] < epoch + 1
        BY <1>3, <3>1, <4>2
      <4> QED  BY <1>1, <1>2, <3>1, <4>2, <4>3 DEF Typed
    <3> QED  BY <3>2, <3>3
  <2>2. ASSUME NEW e \in Epochs, NEW t \in blocks'[e]
        PROVE  EpochAfter[t] = e /\ e < epoch + 1 /\ t \notin Waiting
    <3>1. CASE e = epoch
      <4>1. t \in Decided
        BY <1>1, <1>2, <2>2, <3>1 DEF Typed
      <4>2. t \in currentEpochTrWrapper /\ t \in Tx /\ t \notin Aborted /\ epochOf[t] = epoch
        BY <1>4, <1>6, <4>1
      <4>3. t \notin Waiting
        BY <1>2, <4>2 DEF PlaceInv, Wrapped
      <4> QED  BY <1>3, <1>5, <3>1, <4>2, <4>3
    <3>2. CASE e # epoch
      <4>1. t \in blocks[e] /\ t \in Tx
        BY <1>1, <1>2, <2>2, <3>2 DEF Typed
      <4>2. epochOf[t] = e /\ e < epoch /\ t \notin Waiting
        BY <1>2, <4>1 DEF PlaceInv
      <4>3. EpochAfter[t] = e /\ e < epoch + 1
        BY <1>3, <1>5, <3>2, <4>1, <4>2
      <4> QED  BY <4>2, <4>3
    <3> QED  BY <3>1, <3>2
  <2>3. \A t \in Tx : EpochAfter[t] <= commEpoch
    <3>1. \A t \in Tx : epochOf[t] <= commEpoch
      BY <1>2 DEF PlaceInv
    <3> QED  BY <1>4, <1>5, <3>1
  <2>4. Waiting \cap (nextEpochTrWrapper \cup Aborted) = {}
    BY <1>2, <1>5 DEF PlaceInv, Wrapped
  <2>5. Queued \cap processedTransaction = {}
    BY <1>2 DEF PlaceInv
  <2>6. \A t \in Waiting : EpochAfter[t] # 0 /\ EpochAfter[t] <= MaxEpoch
    BY <1>2, <1>5 DEF PlaceInv
  <2>7. \A t \in Tx : epochOf'[t] # 0 =>
          t \in Waiting' \cup Wrapped' \/ (epochOf'[t] < epoch' /\ t \in blocks'[epochOf'[t]])
    BY <1>1, <1>7, <2>1
  <2>8. \A e \in Epochs : \A t \in blocks'[e] : epochOf'[t] = e /\ e < epoch' /\ t \notin Waiting'
    BY <1>1, <1>7, <2>2
  <2>9. trWrapper' = {} /\ nextEpochTrWrapper' = {}
    BY <1>1, <1>4
  <2>10. \A t \in currentEpochTrWrapper' : epochOf'[t] = epoch'
    BY <1>1, <1>12
  <2>11. /\ \A t \in Tx : epochOf'[t] <= commEpoch'
         /\ arg' <= commEpoch'
    BY <1>1, <1>4, <2>3
  <2>12. \A t \in Waiting' : epochOf'[t] # 0 /\ epochOf'[t] <= MaxEpoch
    BY <1>1, <1>7, <2>6
  <2>13. Queued' \cap processedTransaction' = {} /\ Waiting' \cap Wrapped' = {}
    BY <1>1, <1>7, <2>4, <2>5
  <2> QED  BY <2>7, <2>8, <2>9, <2>10, <2>11, <2>12, <2>13 DEF PlaceInv
<1>14. StepInv'
  <2>1. epoch + 1 # (epoch + 1) + 1
    BY <1>3
  <2> QED  BY <1>1, <1>4, <2>1 DEF StepInv
<1>15. EngineInv'
  BY <1>1, <1>2, <1>4 DEF EngineInv
<1>16. ListInv'
  <2>1. \A t \in freed' : EpochAfter[t] \in 1..epoch /\ t \notin Waiting
    <3> SUFFICES ASSUME NEW t \in freed' PROVE EpochAfter[t] \in 1..epoch /\ t \notin Waiting
      OBVIOUS
    <3>1. CASE t \in freed
      <4>1. t \in Tx /\ epochOf[t] \in 1..(epoch - 1) /\ t \notin Waiting
        BY <1>2, <1>6, <3>1 DEF ListInv
      <4>2. epochOf[t] # epoch /\ epochOf[t] \in 1..epoch
        BY <1>3, <4>1
      <4> QED  BY <1>5, <4>1, <4>2
    <3>2. CASE t \notin freed
      <4>1. t \in L /\ EpochAfter[t] = epoch
        BY <1>1, <3>2
      <4> QED  BY <1>2, <1>3, <4>1 DEF ListInv, Typed
    <3> QED  BY <3>1, <3>2
  <2>2. \A f \in Epochs : \A t \in transactionMap'[f] :
       /\ EpochAfter[t] \in 1..f /\ t \notin Waiting /\ t \notin freed'
       /\ \A g \in Epochs : t \in transactionMap'[g] => f = g
    <3> SUFFICES ASSUME NEW f \in Epochs, NEW t \in transactionMap'[f]
                 PROVE  /\ EpochAfter[t] \in 1..f /\ t \notin Waiting /\ t \notin freed'
                        /\ \A g \in Epochs : t \in transactionMap'[g] => f = g
      OBVIOUS
    <3>0. f # epoch /\ epoch \in Epochs /\ f \in Nat \ {0} /\ t \in Tx
      BY <1>2, <1>9, ConstantNumbers DEF Typed
    <3>1. CASE t \in L
      <4>1. \A g \in Epochs : t \in transactionMap'[g] => g = EpochAfter[t]
        <5> SUFFICES ASSUME NEW g \in Epochs, t \in transactionMap'[g] PROVE g = EpochAfter[t]
          OBVIOUS
        <5>1. t \in transactionMap[g] => g = epoch
          BY <1>2, <3>0, <3>1 DEF ListInv
        <5> QED  BY <1>9, <5>1
      <4>2. f = EpochAfter[t]
        BY <4>1
      <4>3. t \notin Waiting /\ t \notin freed
        BY <1>2, <3>0, <3>1 DEF ListInv
      <4>4. t \notin freed'
        BY <1>1, <3>0, <4>2, <4>3
      <4>5. EpochAfter[t] \in 1..f
        BY <3>0, <4>2
      <4> QED  BY <4>1, <4>2, <4>3, <4>4, <4>5
    <3>2. CASE t \notin L
      <4>1. \A g \in Epochs : t \in transactionMap'[g] => t \in transactionMap[g]
        BY <1>9, <3>2
      <4>2. /\ t \in transactionMap[f] /\ epochOf[t] \in 1..f /\ t \notin Waiting /\ t \notin freed
            /\ \A g \in Epochs : t \in transactionMap[g] => f = g
        BY <1>2, <4>1 DEF ListInv
      <4>3. t \notin freed'
        BY <1>1, <3>2, <4>2
      <4>4. EpochAfter[t] \in 1..f
        <5>1. CASE t \in Aborted
          <6>1. epochOf[t] = epoch /\ EpochAfter[t] = epoch + 1
            BY <1>5, <5>1
          <6> QED  BY <1>3, <3>0, <4>2, <6>1
        <5>2. CASE t \notin Aborted
          BY <1>5, <3>0, <4>2, <5>2
        <5> QED  BY <5>1, <5>2
      <4> QED  BY <4>1, <4>2, <4>3, <4>4
    <3> QED  BY <3>1, <3>2
  <2>3. (epoch + 1) - 1 = epoch
    BY <1>3
  <2>4. \A t \in freed' : epochOf'[t] \in 1..(epoch' - 1) /\ t \notin Waiting'
    BY <1>1, <1>7, <2>1, <2>3
  <2>5. \A f \in Epochs : \A t \in transactionMap'[f] :
       /\ epochOf'[t] \in 1..f /\ t \notin Waiting' /\ t \notin freed'
       /\ \A g \in Epochs : t \in transactionMap'[g] => f = g
    BY <1>1, <1>7, <2>2
  <2> QED  BY <2>4, <2>5 DEF ListInv
<1>17. CommStub => StubInv'
  <2> SUFFICES ASSUME CommStub PROVE StubInv'
    OBVIOUS
  <2>1. StubInv
    BY DEF ManagerInv
  <2>2. commEpoch <= (epoch + 1) + 2
    BY <1>3, <2>1 DEF StubInv
  <2>3. \A f \in Epochs : \A t \in transactionMap'[f] : epochOf'[t] = f
    <3> SUFFICES ASSUME NEW f \in Epochs, NEW t \in transactionMap'[f] PROVE EpochAfter[t] = f
      BY <1>1
    <3>1. CASE t \in transactionMap[f]
      <4>1. epochOf[t] = f /\ f # epoch /\ t \in Tx
        BY <1>2, <1>9, <2>1, <3>1 DEF StubInv, Typed
      <4> QED  BY <1>5, <4>1
    <3> QED  BY <1>9, <3>1
  <2>4. \A t \in Tx : EpochAfter[t] = 0 <=> epochOf[t] = 0
    <3>1. epoch # 0 /\ epoch + 1 # 0
      BY <1>3
    <3> QED  BY <1>5, <3>1
  <2>5. \A t, u \in Tx : epochOf'[t] = 0 /\ t < u => epochOf'[u] = 0
    BY <1>1, <2>1, <2>4 DEF StubInv
  <2> QED  BY <1>1, <1>4, <1>7, <2>1, <2>2, <2>3, <2>5 DEF StubInv
<1>18. ~CommStub => HeapInv'
  <2> SUFFICES ASSUME ~CommStub PROVE HeapInv'
    OBVIOUS
  <2>1. HeapInv
    BY DEF ManagerInv
  <2>2. delivered # {} => \E t \in Tx : EpochAfter[t] = commEpoch
    <3> SUFFICES ASSUME delivered # {} PROVE \E t \in Tx : EpochAfter[t] = commEpoch
      OBVIOUS
    <3>1. PICK t \in Tx : epochOf[t] = commEpoch
      BY <2>1 DEF HeapInv
    <3>2. epochOf[t] # epoch
      BY <1>3, <1>4, <3>1
    <3> QED  BY <1>5, <3>1, <3>2
  <2>3. currentEpochTrWrapper' # {} /\ trWrapper' = {} /\ nextEpochTrWrapper' = {}
    BY <1>1, <1>4
  <2> QED  BY <1>1, <2>1, <2>2, <2>3 DEF HeapInv
<1> QED  BY <1>1, <1>10, <1>11, <1>13, <1>14, <1>15, <1>16, <1>17, <1>18 DEF ManagerInv

-----------------------------------------------------------------------------
(* A failing CHECK changes nothing else.                                   *)
LEMMA StutterInv ==
  ASSUME ManagerInv, UNCHANGED <<commVars, txVars, managerVars, engineVars>>
  PROVE  ManagerInv'
<1>1. UNCHANGED <<CommStub, receivers, commEpoch, epochTrSentNum, broadcastTransactions, enqueuing,
                  delivered, tokens, processedTransaction, currentEpoch, transactionMap, epochOf,
                  result, freed, pc, epoch, arg, dequeuing, leftBehind, trWrapper,
                  currentEpochTrWrapper, nextEpochTrWrapper, blocks,
                  engineEpoch, inEngine, lastEpochFinishSignal>>
  BY DEF commVars, queueVars, heapVars, txVars, managerVars, transferVars, engineVars
<1>2. Typed /\ QueueInv /\ PlaceInv /\ StepInv /\ EngineInv /\ ListInv
  BY DEF ManagerInv
<1>3. Queued' = Queued /\ Waiting' = Waiting /\ Wrapped' = Wrapped
  BY <1>1 DEF Waiting, Queued, Wrapped
<1>4. Typed' /\ QueueInv'
  BY <1>1, <1>2, <1>3 DEF Typed, QueueInv
<1>5. PlaceInv' /\ StepInv' /\ EngineInv' /\ ListInv'
  BY <1>1, <1>2, <1>3 DEF PlaceInv, StepInv, EngineInv, ListInv
<1>6. CommStub => StubInv'
  BY <1>1, <1>3 DEF ManagerInv, StubInv
<1>7. ~CommStub => HeapInv'
  BY <1>1 DEF ManagerInv, HeapInv
<1> QED  BY <1>1, <1>4, <1>5, <1>6, <1>7 DEF ManagerInv

LEMMA EveryStepInv ==
  ASSUME ManagerInv, [Next]_vars
  PROVE  ManagerInv'
<1>1. ASSUME NEW r \in Receivers, NEW t \in Tx, Deliver(r, t) PROVE ManagerInv'
  BY <1>1, DeliverInv
<1>2. CASE NextDelivery
  BY <1>2, NextDeliveryInv
<1>3. ASSUME NEW r \in Receivers, Signal(r) PROVE ManagerInv'
  BY <1>3, SignalInv
<1>4. CASE EngineFinish
  BY <1>4, EngineFinishInv
<1>5. ASSUME Checks, ManagerAction PROVE ManagerInv'
  <2>1. ASSUME NEW r \in Receivers, NEW t \in Tx, Dequeue(r, t) PROVE ManagerInv'
    BY <2>1, DequeueInv
  <2> QED
    BY <1>5, <2>1, GetTransactionInv, AcquireInv, EndTransferInv, TestInv, TakeInv, StopTakingInv,
       StubGetTransactionInv, SendInv, NotFinishedInv, FinishEpochInv DEF ManagerAction
<1>6. CASE UNCHANGED <<commVars, txVars, managerVars, engineVars>>
  BY <1>6, StutterInv
<1>7. UNCHANGED vars => UNCHANGED <<commVars, txVars, managerVars, engineVars>>
  BY DEF vars
<1> QED  BY <1>1, <1>2, <1>3, <1>4, <1>5, <1>6, <1>7 DEF Next, ManagerStep, EngineStep, Signalling, Abort

LEMMA InvariantHolds == Spec => []ManagerInv
<1>1. Init => ManagerInv
  BY StartInv
<1>2. ManagerInv /\ [Next]_vars => ManagerInv'
  BY EveryStepInv
<1> QED  BY <1>1, <1>2, PTL DEF Spec

(* What the invariant says of where a transaction is.                      *)
LEMMA OnePlace == ManagerInv => InOnePlace
<1> SUFFICES ASSUME ManagerInv, NEW t \in Tx, epochOf[t] # 0
             PROVE  LET places == <<processedTransaction, trWrapper, currentEpochTrWrapper,
                                    nextEpochTrWrapper>>
                    IN  Cardinality({r \in Receivers : t \in broadcastTransactions[r]})
                        + Cardinality({i \in DOMAIN places : t \in places[i]})
                        + Cardinality({e \in Epochs : t \in blocks[e]}) = 1
  BY DEF InOnePlace
<1> DEFINE places == <<processedTransaction, trWrapper, currentEpochTrWrapper,
                       nextEpochTrWrapper>>
           Q == {r \in Receivers : t \in broadcastTransactions[r]}
           I == {i \in DOMAIN places : t \in places[i]}
           J == {e \in Epochs : t \in blocks[e]}
<1>1. Typed /\ PlaceInv /\ QueueInv
  BY DEF ManagerInv
<1>2. epoch \in Nat \ {0} /\ epochOf[t] \in Epochs /\ epoch # epoch + 1 /\ epochOf[t] \in Nat
      /\ epoch <= epoch + 1 /\ (arg = epoch \/ arg = epoch + 1)
  BY <1>1, Numbers DEF Typed
<1>3. DOMAIN places = 1..4 /\ places[1] = processedTransaction
      /\ places[2] = trWrapper /\ places[3] = currentEpochTrWrapper /\ places[4] = nextEpochTrWrapper
  OBVIOUS
<1>4. /\ I \subseteq {1, 2, 3, 4}
      /\ (1 \in I) <=> (t \in processedTransaction)
      /\ (2 \in I) <=> (t \in trWrapper)
      /\ (3 \in I) <=> (t \in currentEpochTrWrapper)
      /\ (4 \in I) <=> (t \in nextEpochTrWrapper)
  <2> HIDE DEF places
  <2>1. 1..4 = {1, 2, 3, 4}
    OBVIOUS
  <2> QED  BY <1>3, <2>1
<1> HIDE DEF I
<1>5. /\ t \in Queued <=> Q # {}
      /\ \A r, s \in Q : r = s
      /\ \A r \in Q : Q = {r}
  <2>1. t \in Queued <=> Q # {}
    BY <1>1, QueuedTransactions
  <2>2. \A r, s \in Q : r = s
    BY <1>1 DEF QueueInv
  <2> QED  BY <2>1, <2>2
<1> HIDE DEF Q
<1>6. /\ J # {} => epochOf[t] < epoch /\ J = {epochOf[t]} /\ t \notin Waiting
      /\ epochOf[t] < epoch /\ t \in blocks[epochOf[t]] => epochOf[t] \in J
  BY <1>1, <1>2 DEF PlaceInv
<1> HIDE DEF J
<1>7. /\ t \in Waiting <=> t \in Queued \/ t \in processedTransaction
      /\ t \in Wrapped <=> t \in trWrapper \/ t \in currentEpochTrWrapper \/ t \in nextEpochTrWrapper
      /\ ~(t \in Queued /\ t \in processedTransaction) /\ ~(t \in Waiting /\ t \in Wrapped)
      /\ t \in trWrapper => t \notin currentEpochTrWrapper /\ t \notin nextEpochTrWrapper
      /\ ~(t \in currentEpochTrWrapper /\ t \in nextEpochTrWrapper)
      /\ t \in Wrapped => ~(epochOf[t] < epoch)
      /\ t \in Waiting \/ t \in Wrapped \/ epochOf[t] \in J
  <2>1. t \in Wrapped => epochOf[t] = epoch \/ epochOf[t] = epoch + 1
    BY <1>1, <1>2 DEF PlaceInv, Wrapped
  <2>2. ~(epoch < epoch) /\ ~(epoch + 1 < epoch)
    BY <1>2
  <2>3. ~(t \in currentEpochTrWrapper /\ t \in nextEpochTrWrapper)
    BY <1>1, <1>2 DEF PlaceInv
  <2> QED  BY <1>1, <1>6, <2>1, <2>2, <2>3 DEF PlaceInv, Waiting, Wrapped
<1>8. Cardinality({}) = 0 /\ \A x : Cardinality({x}) = 1
  BY FS_EmptySet, FS_Singleton
<1>9. CASE t \in Queued
  <2>1. I = {} /\ J = {}
    BY <1>4, <1>6, <1>7, <1>9
  <2>2. Cardinality(Q) = 1
    BY <1>5, <1>8, <1>9
  <2>3. Cardinality(I) = 0 /\ Cardinality(J) = 0
    BY <1>8, <2>1
  <2> QED  BY <2>2, <2>3 DEF Q, I, J
<1>10. CASE t \notin Queued /\ (t \in processedTransaction \/ t \in Wrapped)
  <2>1. Q = {} /\ J = {}
    BY <1>5, <1>6, <1>7, <1>10
  <2>2. \E i : I = {i}
    <3>1. CASE t \in processedTransaction
      <4>1. I = {1}
        BY <1>4, <1>7, <3>1
      <4> QED  BY <4>1
    <3>2. CASE t \in trWrapper
      <4>1. I = {2}
        BY <1>4, <1>7, <3>2
      <4> QED  BY <4>1
    <3>3. CASE t \in currentEpochTrWrapper
      <4>1. I = {3}
        BY <1>4, <1>7, <3>3
      <4> QED  BY <4>1
    <3>4. CASE t \in nextEpochTrWrapper
      <4>1. I = {4}
        BY <1>4, <1>7, <3>4
      <4> QED  BY <4>1
    <3> QED  BY <1>7, <1>10, <3>1, <3>2, <3>3, <3>4
  <2>3. Cardinality(I) = 1
    BY <1>8, <2>2
  <2>4. Cardinality(Q) = 0 /\ Cardinality(J) = 0
    BY <1>8, <2>1
  <2> QED  BY <2>3, <2>4 DEF Q, I, J
<1>11. CASE t \notin Waiting /\ t \notin Wrapped
  <2>1. Q = {} /\ I = {} /\ J = {epochOf[t]}
    BY <1>4, <1>5, <1>6, <1>7, <1>11
  <2>2. Cardinality(Q) = 0 /\ Cardinality(I) = 0 /\ Cardinality(J) = 1
    BY <1>8, <2>1
  <2> QED  BY <2>2 DEF Q, I, J
<1> QED  BY <1>7, <1>9, <1>10, <1>11

LEMMA KeptByInv == ManagerInv => TransactionsKept
<1> SUFFICES ASSUME ManagerInv PROVE TransactionsKept
  OBVIOUS
<1>1. Typed /\ QueueInv /\ PlaceInv /\ StepInv /\ EngineInv /\ ListInv
  BY DEF ManagerInv
<1>2. epoch \in Nat \ {0} /\ (arg = epoch \/ arg = epoch + 1) /\ \A t \in Tx : epochOf[t] \in Nat
  BY <1>1, Numbers
<1>3. pc \in {"test", "take"} => processedTransaction # {}
  BY DEF ManagerInv, StubInv, HeapInv
<1>4. TypeOK
  BY <1>1, <1>3 DEF Typed, TypeOK, Epochs
<1>5. TokensMatch
  BY <1>1 DEF Typed, QueueInv, TokensMatch
<1>6. NoUseAfterFree
  <2>1. \A t \in freed : t \in Tx /\ epochOf[t] < epoch /\ t \notin Waiting
    BY <1>1, <1>2 DEF ListInv, Typed
  <2>2. \A t \in Wrapped : ~(epochOf[t] < epoch)
    <3>1. \A t \in Wrapped : epochOf[t] = epoch \/ epochOf[t] = epoch + 1
      BY <1>1, <1>2 DEF PlaceInv, Wrapped
    <3> QED  BY <1>2, <3>1
  <2>3. inEngine \subseteq currentEpochTrWrapper \cup nextEpochTrWrapper
    BY <1>1 DEF EngineInv
  <2>4. \A e \in Epochs : freed \cap transactionMap[e] = {}
    BY <1>1 DEF ListInv
  <2> QED  BY <2>1, <2>2, <2>3, <2>4 DEF NoUseAfterFree, Waiting, Wrapped
<1> QED  BY <1>4, <1>5, <1>6, OnePlace DEF TransactionsKept

(* No transaction is lost, doubled or deleted early between the queue, the *)
(* heap, the wrappers, the coordinator and the blocks, and no token is     *)
(* without an element, also when an older transaction is left behind:      *)
(* CommController's transferTransaction, getTransaction and                *)
(* clearTransactionForEpoch, TransactionManagerImpl::run.                  *)
THEOREM TransactionsAreKept == Spec => []TransactionsKept
<1>1. ManagerInv => TransactionsKept
  BY KeptByInv
<1> QED  BY <1>1, InvariantHolds, PTL

(* The coordinator is sent transactions epoch by epoch and none of an      *)
(* epoch it has closed, whatever the order in the queue: CHECK(epoch >=    *)
(* currentEpoch) in getTransaction stops the others                        *)
(* (TransactionManagerImpl::run, sendTransaction).                         *)
THEOREM SentEpochByEpoch == Spec => SentInOrder
<1> DEFINE InOrder == \A t \in inEngine' \ inEngine :
             /\ epochOf'[t] >= engineEpoch
             /\ \A u \in inEngine : epochOf[u] <= epochOf'[t]
<1>1. ASSUME ManagerInv, [Next]_vars PROVE InOrder
  <2>1. Typed /\ PlaceInv /\ StepInv /\ EngineInv
    BY <1>1 DEF ManagerInv
  <2>2. /\ epoch \in Nat \ {0} /\ epoch # epoch + 1 /\ epoch <= epoch + 1 /\ (arg = epoch \/ arg = epoch + 1)
        /\ \A u \in Tx : epochOf[u] \in Nat
    BY <2>1, Numbers
  <2>3. /\ currentEpochTrWrapper \subseteq Tx /\ nextEpochTrWrapper \subseteq Tx /\ trWrapper \subseteq Tx
        /\ \A u \in currentEpochTrWrapper : epochOf[u] = epoch
        /\ \A u \in nextEpochTrWrapper : epochOf[u] = epoch + 1
        /\ \A u \in trWrapper : epochOf[u] = arg
        /\ inEngine \subseteq currentEpochTrWrapper \cup nextEpochTrWrapper
        /\ engineEpoch = epoch \/ (engineEpoch = epoch + 1 /\ nextEpochTrWrapper # {} /\ inEngine = nextEpochTrWrapper)
    BY <2>1 DEF PlaceInv, Typed, EngineInv
  <2>4. CASE Send
    <3>1. /\ pc = "send" /\ inEngine' = inEngine \cup trWrapper /\ epochOf' = epochOf
      BY <2>4 DEF Send, txVars
    <3>2. arg = epoch => nextEpochTrWrapper = {}
      BY <2>1, <3>1 DEF StepInv
    <3>3. engineEpoch <= arg /\ \A u \in inEngine : epochOf[u] <= arg
      <4>1. CASE arg = epoch
        <5>1. nextEpochTrWrapper = {}
          BY <3>2, <4>1
        <5> QED  BY <2>2, <2>3, <4>1, <5>1
      <4>2. CASE arg = epoch + 1
        <5>1. engineEpoch = epoch \/ engineEpoch = epoch + 1
          BY <2>3
        <5>2. \A u \in inEngine : epochOf[u] = epoch \/ epochOf[u] = epoch + 1
          BY <2>3
        <5> QED  BY <2>2, <4>2, <5>1, <5>2
      <4> QED  BY <2>2, <4>1, <4>2
    <3>4. \A t \in inEngine' \ inEngine : epochOf'[t] = arg
      BY <2>3, <3>1
    <3> QED  BY <2>2, <2>3, <3>3, <3>4
  <2>5. CASE FinishEpoch
    <3>1. /\ inEngine' = inEngine \cup Aborted /\ epochOf' = EpochAfter
          /\ engineEpoch = epoch + 1 /\ inEngine = nextEpochTrWrapper
          /\ \A t \in Aborted : EpochAfter[t] = epoch + 1
      BY <1>1, <2>5, FinishFacts DEF FinishEpoch
    <3>2. \A t \in inEngine' \ inEngine : epochOf'[t] = epoch + 1
      BY <3>1
    <3>3. \A u \in inEngine : epochOf[u] = epoch + 1
      BY <2>3, <3>1
    <3> QED  BY <2>2, <3>1, <3>2, <3>3
  <2>6. ASSUME inEngine' \subseteq inEngine PROVE InOrder
    BY <2>6
  <2>7. ASSUME NEW r \in Receivers, NEW t \in Tx, Dequeue(r, t) PROVE InOrder
    BY <2>6, <2>7 DEF Dequeue, engineVars
  <2>8. CASE \/ GetTransaction \/ Acquire \/ EndTransfer \/ Test \/ Take \/ StopTaking
             \/ StubGetTransaction \/ NotFinished
    <3>1. inEngine' = inEngine
      BY <2>8 DEF GetTransaction, Acquire, EndTransfer, Test, Take, StopTaking, StubGetTransaction,
                  NotFinished, engineVars
    <3> QED  BY <2>6, <3>1
  <2>9. CASE ManagerAction
    BY <2>4, <2>5, <2>7, <2>8, <2>9 DEF ManagerAction
  <2>10. ASSUME NEW r \in Receivers, NEW t \in Tx, Deliver(r, t) PROVE InOrder
    BY <2>6, <2>10 DEF Deliver, engineVars
  <2>11. ASSUME NEW r \in Receivers, Signal(r) PROVE InOrder
    BY <2>6, <2>11 DEF Signal, engineVars
  <2>12. CASE NextDelivery \/ EngineFinish \/ Abort \/ UNCHANGED vars
    <3>1. inEngine' \subseteq inEngine
      BY <2>12 DEF NextDelivery, EngineFinish, Abort, vars, engineVars
    <3> QED  BY <2>6, <3>1
  <2> QED  BY <1>1, <2>9, <2>10, <2>11, <2>12 DEF Next, ManagerStep, EngineStep, Signalling
<1>2. ManagerInv /\ [Next]_vars => [InOrder]_vars
  BY <1>1
<1> QED  BY <1>2, InvariantHolds, PTL DEF Spec, SentInOrder

-----------------------------------------------------------------------------
(* While no transaction has been left behind, every CHECK holds: the heap's *)
(* top is of the epoch asked for or of one of the next two, since no epoch *)
(* is empty and none overtakes another; it is not of an epoch before that  *)
(* of the transaction taken last; an epoch that is finished has a block.   *)
LEMMA ChecksByOrder ==
  ASSUME ManagerInv, Ordered, ~leftBehind
  PROVE  Checks
<1>1. Typed /\ PlaceInv /\ StepInv /\ EngineInv /\ ListInv
  BY DEF ManagerInv
<1>2. /\ commEpoch \in Nat \ {0} /\ epoch \in Nat \ {0} /\ arg \in Nat \ {0} /\ (arg = epoch \/ arg = epoch + 1)
      /\ currentEpoch \in Nat /\ \A u \in Tx : epochOf[u] \in Nat
  BY <1>1, Numbers
<1>3. ASSUME ~CommStub, processedTransaction # {}
      PROVE  /\ ControllerInv /\ Top \in Waiting /\ TopEpoch = epochOf[Top] /\ TopEpoch \in Nat
             /\ \A u \in processedTransaction : TopEpoch <= epochOf[u]
             /\ arg <= TopEpoch /\ currentEpoch <= TopEpoch /\ TopEpoch <= commEpoch
  <2>1. /\ Top \in processedTransaction /\ Top \in Tx /\ TopEpoch = epochOf[Top] /\ TopEpoch \in Nat
        /\ \A u \in processedTransaction : TopEpoch <= epochOf[u]
    BY <1>1, <1>3, TopIsFirst
  <2>2. ControllerInv /\ Top \in Waiting
    BY <1>3, <2>1 DEF Ordered, Waiting
  <2> QED  BY <1>1, <2>1, <2>2 DEF ControllerInv, PlaceInv
<1>4. pc = "get" /\ ~CommStub => arg <= commEpoch /\ (processedTransaction # {} => TopEpoch \in arg..(arg + 2))
  <2> SUFFICES ASSUME pc = "get", ~CommStub, processedTransaction # {}, TopEpoch > arg + 2 PROVE FALSE
    BY <1>1, <1>2, <1>3 DEF PlaceInv
  <2>1. epoch + 2 \in Epochs /\ epoch + 1 < epoch + 2 /\ epoch + 2 < commEpoch /\ epoch + 2 < TopEpoch
    <3>1. epoch + 2 < TopEpoch /\ epoch + 2 < commEpoch
      BY <1>2, <1>3
    <3>2. commEpoch <= MaxEpoch + 1 /\ FirstEpoch <= epoch /\ MaxEpoch \in Nat /\ FirstEpoch \in Nat
      BY <1>1, ConstantNumbers DEF Typed
    <3>3. epoch + 2 \in Nat /\ FirstEpoch <= epoch + 2 /\ epoch + 2 <= MaxEpoch + 1
      BY <1>2, <3>1, <3>2
    <3> QED  BY <1>2, <3>1, <3>3, ConstantNumbers
  <2>2. PICK u \in Waiting : epochOf[u] = epoch + 2
    BY <1>3, <2>1 DEF ControllerInv
  <2>3. TopEpoch <= epochOf[u]
    <3>1. CASE u \in processedTransaction
      BY <1>3, <3>1
    <3>2. CASE u \in Queued
      <4>1. Top \in processedTransaction
        BY <1>1, TopIsFirst
      <4> QED  BY <1>3, <3>2, <4>1 DEF ControllerInv
    <3> QED  BY <3>1, <3>2 DEF Waiting
  <2> QED  BY <1>2, <1>3, <2>1, <2>2, <2>3
<1>5. pc = "test" => TopEpoch \in {arg, arg + 1}
  <2> SUFFICES ASSUME pc = "test" PROVE TopEpoch = arg
    OBVIOUS
  <2>1. ~CommStub /\ processedTransaction # {}
    BY DEF ManagerInv, StubInv, HeapInv
  <2>2. PICK u \in processedTransaction : epochOf[u] = arg
    BY <1>3, <2>1 DEF ControllerInv
  <2> QED  BY <1>2, <1>3, <2>1, <2>2
<1>6. pc = "take" /\ TakesMore => ~Stale(Top)
  <2> SUFFICES ASSUME pc = "take" PROVE ~(epochOf[Top] < currentEpoch)
    BY DEF Stale
  <2>1. ~CommStub /\ processedTransaction # {}
    BY DEF ManagerInv, StubInv, HeapInv
  <2> QED  BY <1>2, <1>3, <2>1
<1>7. Finishes => /\ Decided # {}
                  /\ \A t \in currentEpochTrWrapper : epochOf[t] = epoch
                  /\ ClearChecks(EpochAfter)
  <2> SUFFICES ASSUME Finishes PROVE Decided # {} /\ ClearChecks(EpochAfter)
    BY <1>1 DEF PlaceInv
  <2>1. /\ Decided # {} /\ epoch + 1 <= commEpoch
        /\ \A t \in Tx : EpochAfter[t] = epochOf[t] \/ EpochAfter[t] = epoch + 1
    BY FinishFacts
  <2>2. CASE CommStub
    <3>1. StubInv
      BY <2>2 DEF ManagerInv
    <3>2. \A t \in transactionMap[epoch] : t \in Tx /\ epochOf[t] = epoch
      BY <1>1, <3>1 DEF StubInv, Typed
    <3>3. \A t \in transactionMap[epoch] : EpochAfter[t] = epoch \/ EpochAfter[t] = epoch + 1
      BY <2>1, <3>2
    <3>4. commEpoch = epoch + 1 \/ commEpoch = (epoch + 1) + 1
      <4>1. commEpoch <= epoch + 2
        BY <3>1 DEF StubInv
      <4> QED  BY <1>2, <2>1, <4>1
    <3> QED  BY <2>1, <2>2, <3>3, <3>4 DEF ClearChecks
  <2>3. CASE ~CommStub
    <3>1. epoch < commEpoch
      BY <1>2, <2>1
    <3> QED  BY <2>1, <2>3, <3>1 DEF ClearChecks
  <2> QED  BY <2>2, <2>3
<1> QED  BY <1>4, <1>5, <1>6, <1>7 DEF Checks

-----------------------------------------------------------------------------
(* Steps that move no transaction out of the queue or the heap.            *)
LEMMA NothingMoved ==
  ASSUME Ordered,
         UNCHANGED <<CommStub, receivers, commEpoch, broadcastTransactions, processedTransaction,
                     currentEpoch, epochOf, epoch, leftBehind>>,
         ~CommStub /\ ~leftBehind /\ ControllerInv =>
           /\ pc \in {"pull", "refill"} => pc' = pc
           /\ \A t \in Waiting : arg' <= epochOf[t]
           /\ processedTransaction = {} =>
                pc' = "refill" \/ (pc' \in {"get", "pull"} /\ currentEpochTrWrapper' = {})
           /\ pc' \in {"pull", "test"} /\ processedTransaction # {} =>
                \E t \in processedTransaction : epochOf[t] = arg'
  PROVE  Ordered' /\ leftBehind' = leftBehind
<1>1. Queued' = Queued /\ Waiting' = Waiting
  BY DEF Queued, Waiting
<1>2. ~CommStub' /\ ~leftBehind' => ControllerInv'
  <2> SUFFICES ASSUME ~CommStub, ~leftBehind PROVE ControllerInv'
    OBVIOUS
  <2>1. ControllerInv
    BY DEF Ordered
  <2>2. pc' \notin {"pull", "refill"} => pc \notin {"pull", "refill"}
    BY <2>1
  <2> QED  BY <1>1, <2>1, <2>2 DEF ControllerInv
<1>3. SingleInv'
  BY <1>1 DEF Ordered, SingleInv
<1> QED  BY <1>2, <1>3 DEF Ordered

LEMMA SignalOrdered ==
  ASSUME Ordered, NEW r \in Receivers, Signal(r)
  PROVE  Ordered' /\ leftBehind' = leftBehind
<1>1. UNCHANGED <<CommStub, receivers, commEpoch, broadcastTransactions, processedTransaction,
                  currentEpoch, epochOf, epoch, leftBehind, pc, arg, currentEpochTrWrapper>>
  BY DEF Signal, heapVars, txVars, managerVars, transferVars
<1> QED  BY <1>1, NothingMoved DEF ControllerInv

LEMMA AcquireOrdered ==
  ASSUME Ordered, Acquire
  PROVE  Ordered' /\ leftBehind' = leftBehind
<1>1. UNCHANGED <<CommStub, receivers, commEpoch, broadcastTransactions, processedTransaction,
                  currentEpoch, epochOf, epoch, leftBehind, pc, arg, currentEpochTrWrapper>>
  BY DEF Acquire, heapVars, txVars
<1> QED  BY <1>1, NothingMoved DEF ControllerInv

LEMMA EngineFinishOrdered ==
  ASSUME Ordered, EngineFinish
  PROVE  Ordered' /\ leftBehind' = leftBehind
<1>1. UNCHANGED <<CommStub, receivers, commEpoch, broadcastTransactions, processedTransaction,
                  currentEpoch, epochOf, epoch, leftBehind, pc, arg, currentEpochTrWrapper>>
  BY DEF EngineFinish, commVars, queueVars, heapVars, managerVars, transferVars
<1> QED  BY <1>1, NothingMoved DEF ControllerInv

LEMMA GetTransactionOrdered ==
  ASSUME ManagerInv, Checks, Ordered, GetTransaction
  PROVE  Ordered' /\ leftBehind' = leftBehind
<1>1. /\ pc = "get"
      /\ UNCHANGED <<CommStub, receivers, commEpoch, broadcastTransactions, processedTransaction,
                     currentEpoch, epochOf, epoch, leftBehind, currentEpochTrWrapper>>
  BY DEF GetTransaction, commVars, queueVars, heapVars, txVars, transferVars
<1>2. \/ processedTransaction # {} /\ TopEpoch # arg /\ arg' = epoch + 1 /\ pc' # "pull"
      \/ (processedTransaction # {} => TopEpoch = arg) /\ arg' = arg /\ pc' = "pull"
  BY GetTransactionInv
<1>3. Typed
  BY DEF ManagerInv
<1>4. /\ epoch \in Nat \ {0} /\ arg \in Nat \ {0} /\ (arg = epoch \/ arg = epoch + 1)
      /\ \A u \in Tx : epochOf[u] \in Nat
      /\ Waiting \subseteq Tx
  BY <1>3, Numbers, QueuedTransactions
<1>5. processedTransaction # {} => Top \in processedTransaction /\ TopEpoch = epochOf[Top] /\ TopEpoch \in Nat
                                    /\ \A u \in processedTransaction : TopEpoch <= epochOf[u]
  BY <1>3, TopIsFirst
<1>6. ASSUME ~CommStub, ~leftBehind, ControllerInv
      PROVE  /\ \A t \in Waiting : arg' <= epochOf[t]
             /\ processedTransaction = {} => pc' \in {"get", "pull"} /\ currentEpochTrWrapper' = {}
             /\ pc' \in {"pull", "test"} /\ processedTransaction # {} =>
                  \E t \in processedTransaction : epochOf[t] = arg'
  <2>1. CASE processedTransaction # {} /\ TopEpoch # arg /\ arg' = epoch + 1 /\ pc' # "pull"
    <3>1. \A t \in Waiting : TopEpoch <= epochOf[t]
      BY <1>1, <1>5, <1>6, <2>1 DEF ControllerInv, Waiting
    <3>2. epoch + 1 <= TopEpoch
      <4>1. arg <= TopEpoch
        BY <1>5, <1>6, <2>1 DEF ControllerInv, Waiting
      <4> QED  BY <1>4, <1>5, <2>1, <4>1
    <3>3. \A t \in Waiting : epoch + 1 <= epochOf[t]
      BY <1>4, <1>5, <2>1, <3>1, <3>2
    <3>4. pc' # "test"
      BY <1>1 DEF GetTransaction, ReturnNull
    <3> QED  BY <2>1, <3>3, <3>4
  <2>2. CASE (processedTransaction # {} => TopEpoch = arg) /\ arg' = arg /\ pc' = "pull"
    BY <1>1, <1>5, <1>6, <2>2 DEF ControllerInv
  <2> QED  BY <1>2, <2>1, <2>2
<1> QED  BY <1>1, <1>6, NothingMoved

LEMMA TestOrdered ==
  ASSUME ManagerInv, Checks, Ordered, Test
  PROVE  Ordered' /\ leftBehind' = leftBehind
<1>1. /\ pc = "test"
      /\ UNCHANGED <<CommStub, receivers, commEpoch, broadcastTransactions, processedTransaction,
                     currentEpoch, epochOf, epoch, leftBehind>>
  BY DEF Test, commVars, queueVars, heapVars, txVars, transferVars
<1>2. \/ TopEpoch = arg /\ arg' = arg /\ pc' = "take"
      \/ TopEpoch # arg /\ arg' = epoch + 1 /\ pc' \in {"get", "poll"}
  BY TestInv
<1>3. Typed
  BY DEF ManagerInv
<1>4. ASSUME ~CommStub, ~leftBehind, ControllerInv
      PROVE  processedTransaction # {} /\ arg' = arg /\ pc' = "take"
  <2>1. processedTransaction # {}
    BY <1>1, <1>4 DEF ManagerInv, HeapInv
  <2>2. PICK u \in processedTransaction : epochOf[u] = arg
    BY <1>1, <1>4, <2>1 DEF ControllerInv
  <2>3. Top \in processedTransaction /\ TopEpoch = epochOf[Top] /\ TopEpoch \in Nat /\ TopEpoch <= epochOf[u]
    BY <1>3, <2>1, TopIsFirst
  <2>4. arg <= epochOf[Top] /\ arg \in Nat
    BY <1>3, <1>4, <2>3, Numbers DEF ControllerInv, Waiting
  <2>5. TopEpoch = arg
    BY <2>2, <2>3, <2>4
  <2> QED  BY <1>2, <2>1, <2>5
<1>5. ~CommStub /\ ~leftBehind /\ ControllerInv =>
           /\ pc \in {"pull", "refill"} => pc' = pc
           /\ \A t \in Waiting : arg' <= epochOf[t]
           /\ processedTransaction = {} =>
                pc' = "refill" \/ (pc' \in {"get", "pull"} /\ currentEpochTrWrapper' = {})
           /\ pc' \in {"pull", "test"} /\ processedTransaction # {} =>
                \E t \in processedTransaction : epochOf[t] = arg'
  BY <1>1, <1>4 DEF ControllerInv
<1> QED  BY <1>1, <1>5, NothingMoved

LEMMA StopTakingOrdered ==
  ASSUME ManagerInv, Ordered, StopTaking
  PROVE  Ordered' /\ leftBehind' = leftBehind
<1>1. /\ pc = "take" /\ pc' = "send"
      /\ UNCHANGED <<CommStub, receivers, commEpoch, broadcastTransactions, processedTransaction,
                     currentEpoch, epochOf, epoch, leftBehind, arg>>
  BY DEF StopTaking, commVars, queueVars, heapVars, txVars, transferVars
<1>2. ~CommStub => processedTransaction # {}
  BY <1>1 DEF ManagerInv, HeapInv
<1> QED  BY <1>1, <1>2, NothingMoved DEF ControllerInv

LEMMA SendOrdered ==
  ASSUME ManagerInv, Ordered, Send
  PROVE  Ordered' /\ leftBehind' = leftBehind
<1>1. /\ pc = "send" /\ pc' \in {"get", "poll"}
      /\ UNCHANGED <<CommStub, receivers, commEpoch, broadcastTransactions, processedTransaction,
                     currentEpoch, epochOf, epoch, leftBehind, arg>>
  BY DEF Send, commVars, queueVars, heapVars, txVars, transferVars
<1>2. ControllerInv => processedTransaction # {}
  BY <1>1 DEF ControllerInv
<1> QED  BY <1>1, <1>2, NothingMoved DEF ControllerInv

LEMMA NotFinishedOrdered ==
  ASSUME ManagerInv, Ordered, NotFinished
  PROVE  Ordered' /\ leftBehind' = leftBehind
<1>1. /\ pc = "poll" /\ pc' = "get" /\ arg' = epoch
      /\ UNCHANGED <<CommStub, receivers, commEpoch, broadcastTransactions, processedTransaction,
                     currentEpoch, epochOf, epoch, leftBehind>>
  BY DEF NotFinished, commVars, queueVars, heapVars, txVars, transferVars
<1>2. Typed /\ arg = epoch + 1
  BY NotFinishedInv DEF ManagerInv
<1>3. ControllerInv => processedTransaction # {} /\ \A t \in Waiting : epoch <= epochOf[t]
  <2> SUFFICES ASSUME ControllerInv, NEW t \in Waiting PROVE epoch <= epochOf[t]
    BY <1>1 DEF ControllerInv
  <2>1. epoch + 1 <= epochOf[t] /\ epochOf[t] \in Nat /\ epoch \in Nat
    BY <1>2, Numbers, QueuedTransactions DEF ControllerInv
  <2> QED  BY <2>1
<1> QED  BY <1>1, <1>3, NothingMoved

-----------------------------------------------------------------------------
(* Steps that do.  What is enqueued is of the last epoch there is.         *)
LEMMA DeliverOrdered ==
  ASSUME ManagerInv, Ordered, NEW r \in Receivers, NEW t \in Tx, Deliver(r, t)
  PROVE  Ordered' /\ leftBehind' = leftBehind
<1>1. UNCHANGED <<CommStub, receivers, commEpoch, processedTransaction,
                  currentEpoch, pc, epoch, arg, leftBehind, currentEpochTrWrapper>>
  BY DEF Deliver, heapVars, managerVars, transferVars
<1>2. Typed /\ PlaceInv /\ HeapInv /\ ~CommStub
  BY DeliverInv DEF ManagerInv
<1>3. /\ Queued' = Queued \cup {t} /\ Waiting' = Waiting \cup {t} /\ t \notin Waiting
      /\ epochOf'[t] = commEpoch /\ \A u \in Tx : u # t => epochOf'[u] = epochOf[u]
  BY DeliverInv
<1>4. /\ Waiting \subseteq Tx /\ Queued \subseteq Waiting /\ processedTransaction \subseteq Waiting
      /\ \A u \in Tx : epochOf[u] <= commEpoch
      /\ currentEpoch <= commEpoch /\ arg <= commEpoch /\ commEpoch \in Nat
  BY <1>2, Numbers, QueuedTransactions DEF PlaceInv, HeapInv, Waiting
<1>5. \A u \in Waiting : u # t /\ u \in Tx /\ epochOf'[u] = epochOf[u]
  BY <1>3, <1>4
<1>6. \A u \in Tx : epochOf'[u] <= commEpoch
  BY <1>3, <1>4
<1>7. ~leftBehind => ControllerInv'
  <2> SUFFICES ASSUME ~leftBehind PROVE ControllerInv'
    OBVIOUS
  <2>1. ControllerInv
    BY <1>2 DEF Ordered
  <2>2. \A w \in Queued' : \A u \in Tx \ Waiting' : epochOf'[u] <= epochOf'[w]
    BY <1>3, <1>4, <1>5, <1>6, <2>1 DEF ControllerInv
  <2>3. pc \notin {"pull", "refill"} =>
          \A w \in Queued' : \A u \in processedTransaction : epochOf'[u] <= epochOf'[w]
    BY <1>3, <1>4, <1>5, <1>6, <2>1 DEF ControllerInv
  <2>4. \A w \in Waiting' : currentEpoch <= epochOf'[w] /\ arg <= epochOf'[w]
    BY <1>3, <1>4, <1>5, <2>1 DEF ControllerInv
  <2>5. \A e \in Epochs : epoch + 1 < e /\ e < commEpoch => \E w \in Waiting' : epochOf'[w] = e
    BY <1>3, <1>5, <2>1 DEF ControllerInv
  <2>6. pc \in {"pull", "test"} /\ processedTransaction # {} =>
          \E w \in processedTransaction : epochOf'[w] = arg
    BY <1>4, <1>5, <2>1 DEF ControllerInv
  <2> QED  BY <1>1, <2>1, <2>2, <2>3, <2>4, <2>5, <2>6 DEF ControllerInv
<1>8. SingleInv'
  BY <1>1, <1>3, <1>4, <1>5, <1>6 DEF Ordered, SingleInv
<1> QED  BY <1>1, <1>2, <1>7, <1>8 DEF Ordered

(* No epoch is without transactions: every receiver has one of it.         *)
LEMMA NextDeliveryOrdered ==
  ASSUME ManagerInv, Ordered, NextDelivery
  PROVE  Ordered' /\ leftBehind' = leftBehind
<1>1. /\ delivered = receivers /\ ~CommStub /\ commEpoch' = commEpoch + 1
      /\ UNCHANGED <<CommStub, receivers, broadcastTransactions, processedTransaction, epochOf,
                     currentEpoch, pc, epoch, arg, leftBehind, currentEpochTrWrapper>>
  BY DEF NextDelivery, heapVars, txVars, managerVars, transferVars
<1>2. Typed /\ PlaceInv /\ HeapInv
  BY <1>1 DEF ManagerInv
<1>3. commEpoch \in Nat \ {0} /\ epoch \in Nat \ {0} /\ arg \in {epoch, epoch + 1} /\ \A u \in Tx : epochOf[u] \in Nat
  BY <1>2, Numbers
<1>4. Queued' = Queued /\ Waiting' = Waiting
  BY <1>1 DEF Queued, Waiting
<1>5. ~leftBehind => ControllerInv'
  <2> SUFFICES ASSUME ~leftBehind PROVE ControllerInv'
    OBVIOUS
  <2>1. ControllerInv
    BY <1>1 DEF Ordered
  <2>2. \A e \in Epochs : epoch + 1 < e /\ e < commEpoch + 1 => \E t \in Waiting : epochOf[t] = e
    <3> SUFFICES ASSUME NEW e \in Epochs, epoch + 1 < e, e < commEpoch + 1
                 PROVE  \E t \in Waiting : epochOf[t] = e
      OBVIOUS
    <3>1. e \in Nat
      BY ConstantNumbers
    <3>2. CASE e < commEpoch
      BY <2>1, <3>2 DEF ControllerInv
    <3>3. CASE e = commEpoch
      <4>1. PICK t \in Tx : epochOf[t] = e
        BY <1>1, <1>2, <3>3 DEF HeapInv, Typed
      <4>2. epochOf[t] # 0 /\ ~(epochOf[t] < epoch) /\ epochOf[t] # epoch /\ epochOf[t] # epoch + 1
        BY <1>3, <3>1, <4>1
      <4>3. t \notin Wrapped
        BY <1>2, <1>3, <4>2 DEF PlaceInv, Wrapped
      <4> QED  BY <1>2, <4>1, <4>2, <4>3 DEF PlaceInv
    <3> QED  BY <1>3, <3>1, <3>2, <3>3
  <2> QED  BY <1>1, <1>4, <2>1, <2>2 DEF ControllerInv
<1>6. SingleInv'
  BY <1>1, <1>4 DEF Ordered, SingleInv
<1> QED  BY <1>1, <1>5, <1>6 DEF Ordered

(* A single sub-queue gives the oldest that is queued.                     *)
LEMMA DequeueOrdered ==
  ASSUME ManagerInv, Ordered, NEW r \in Receivers, NEW t \in Tx, Dequeue(r, t)
  PROVE  Ordered' /\ leftBehind' = leftBehind
<1>1. /\ dequeuing /\ t \in broadcastTransactions[r] /\ IsFirst(r, t)
      /\ processedTransaction' = processedTransaction \cup {t}
      /\ UNCHANGED <<CommStub, receivers, commEpoch, epochOf,
                     currentEpoch, pc, epoch, arg, leftBehind, currentEpochTrWrapper>>
  BY DEF Dequeue, txVars
<1>2. Typed /\ QueueInv /\ StepInv /\ ~CommStub /\ HeapInv'
  BY <1>1, DequeueInv DEF ManagerInv
<1>3. t \in Queued /\ Queued' = Queued \ {t} /\ Waiting' = Waiting
  BY DequeueInv
<1>4. pc \in {"pull", "refill"} /\ processedTransaction' # {}
  BY <1>1, <1>2 DEF Typed
<1>5. ~leftBehind => ControllerInv'
  <2> SUFFICES ASSUME ~leftBehind PROVE ControllerInv'
    OBVIOUS
  <2>1. ControllerInv
    BY <1>2 DEF Ordered
  <2>2. pc = "pull" => \E u \in processedTransaction' : epochOf[u] = arg
    <3> SUFFICES ASSUME pc = "pull" PROVE \E u \in processedTransaction' : epochOf[u] = arg
      OBVIOUS
    <3>1. CASE processedTransaction # {}
      BY <1>1, <2>1, <3>1 DEF ControllerInv
    <3>2. CASE processedTransaction = {}
      <4>1. currentEpochTrWrapper = {} /\ arg = epoch /\ epoch = FirstEpoch
        BY <1>2, <2>1, <3>2, Numbers DEF ControllerInv, StepInv
      <4> QED  BY <1>1, <1>2, <1>4, <4>1 DEF HeapInv
    <3> QED  BY <3>1, <3>2
  <2> QED  BY <1>1, <1>3, <1>4, <2>1, <2>2 DEF ControllerInv
<1>6. SingleInv'
  <2> SUFFICES ASSUME receivers \subseteq {Local}
               PROVE  \A u \in Queued' : \A w \in processedTransaction' : epochOf[w] <= epochOf[u]
    BY <1>1 DEF Ordered, SingleInv
  <2>1. \A u \in Queued : u \in broadcastTransactions[r]
    <3> SUFFICES ASSUME NEW u \in Queued PROVE u \in broadcastTransactions[r]
      OBVIOUS
    <3>1. PICK s \in Receivers : u \in broadcastTransactions[s]
      BY <1>2, QueuedTransactions
    <3>2. s \in receivers /\ r \in receivers
      BY <1>1, <1>2, <3>1 DEF QueueInv
    <3> QED  BY <3>1, <3>2
  <2>2. \A u \in Queued : epochOf[t] <= epochOf[u]
    BY <1>1, <2>1 DEF IsFirst
  <2> QED  BY <1>1, <1>3, <2>2 DEF Ordered, SingleInv
<1> QED  BY <1>1, <1>2, <1>5, <1>6 DEF Ordered

(* What is in the queue now is of no earlier epoch than the heap, or       *)
(* leftBehind says so.                                                     *)
LEMMA EndTransferOrdered ==
  ASSUME ManagerInv, Ordered, EndTransfer
  PROVE  Ordered' /\ (leftBehind => leftBehind')
<1>1. /\ pc \in {"pull", "refill"} /\ processedTransaction # {}
      /\ pc' = IF pc = "pull" THEN "test" ELSE "take"
      /\ leftBehind' = (leftBehind \/ \E t \in processedTransaction, u \in Queued : epochOf[u] < epochOf[t])
      /\ UNCHANGED <<CommStub, receivers, commEpoch, broadcastTransactions, processedTransaction, epochOf,
                     currentEpoch, epoch, arg, currentEpochTrWrapper>>
  BY DEF EndTransfer, Waits, commVars, queueVars, heapVars, txVars
<1>2. Typed
  BY DEF ManagerInv
<1>3. Queued' = Queued /\ Waiting' = Waiting /\ Queued \subseteq Tx /\ processedTransaction \subseteq Tx
      /\ \A t \in Tx : epochOf[t] \in Nat
  BY <1>1, <1>2, Numbers, QueuedTransactions DEF Queued, Waiting, Typed
<1>4. leftBehind' \in BOOLEAN /\ (leftBehind => leftBehind')
  BY <1>1 DEF Ordered
<1>5. ~CommStub /\ ~leftBehind' => ControllerInv'
  <2> SUFFICES ASSUME ~CommStub, ~leftBehind' PROVE ControllerInv'
    OBVIOUS
  <2>1. ControllerInv
    BY <1>4 DEF Ordered
  <2>2. \A t \in Queued : \A u \in processedTransaction : epochOf[u] <= epochOf[t]
    <3> SUFFICES ASSUME NEW t \in Queued, NEW u \in processedTransaction PROVE epochOf[u] <= epochOf[t]
      OBVIOUS
    <3>1. ~(epochOf[t] < epochOf[u])
      BY <1>1
    <3> QED  BY <1>3, <3>1
  <2>3. pc' = "test" => \E t \in processedTransaction : epochOf[t] = arg
    BY <1>1, <2>1 DEF ControllerInv
  <2>4. pc' # "pull"
    BY <1>1
  <2> QED  BY <1>1, <1>3, <2>1, <2>2, <2>3, <2>4 DEF ControllerInv
<1>6. SingleInv'
  <2> SUFFICES ASSUME receivers \subseteq {Local}
               PROVE  ~leftBehind' /\ \A t \in Queued : \A u \in processedTransaction : epochOf[u] <= epochOf[t]
    BY <1>1, <1>3 DEF SingleInv
  <2>1. ~leftBehind /\ \A t \in Queued : \A u \in processedTransaction : epochOf[u] <= epochOf[t]
    BY DEF Ordered, SingleInv
  <2>2. \A t \in Queued : \A u \in processedTransaction : ~(epochOf[t] < epochOf[u])
    BY <1>3, <2>1
  <2> QED  BY <1>1, <2>1, <2>2
<1> QED  BY <1>1, <1>4, <1>5, <1>6 DEF Ordered

(* As MinSize is MaxSize, the wrapper is not complete with the heap empty. *)
LEMMA TakeOrdered ==
  ASSUME OneSize, ManagerInv, Checks, Ordered, Take
  PROVE  Ordered' /\ leftBehind' = leftBehind
<1>1. /\ pc = "take"
      /\ processedTransaction' = processedTransaction \ {Top}
      /\ pc' = IF processedTransaction' # {} THEN "take"
               ELSE IF Enough(Cardinality(trWrapper')) THEN "send" ELSE "refill"
      /\ UNCHANGED <<CommStub, receivers, commEpoch, broadcastTransactions, epochOf,
                     epoch, arg, leftBehind, currentEpochTrWrapper>>
  BY DEF Take, queueVars, txVars, transferVars
<1>2. /\ ~CommStub /\ Top \in processedTransaction /\ epochOf[Top] = arg /\ currentEpoch' = arg
      /\ \A u \in processedTransaction : arg <= epochOf[u]
      /\ Queued' = Queued /\ Waiting' = Waiting \ {Top}
      /\ Cardinality(trWrapper') <= MaxSize
  BY TakeInv
<1>3. Typed /\ Typed' /\ epoch \in Nat /\ arg \in {epoch, epoch + 1}
  BY TakeInv, Numbers DEF ManagerInv
<1>4. ~Enough(Cardinality(trWrapper'))
  <2>1. IsFiniteSet(Tx)
    BY ConstantNumbers, FS_Interval DEF Tx
  <2>2. Cardinality(trWrapper') \in Nat
    BY <1>3, <2>1, FS_Subset, FS_CardinalityType DEF Typed
  <2>3. ~(Cardinality(trWrapper') > MaxSize)
    BY <1>2, <2>2, ConstantNumbers
  <2> QED  BY <2>3 DEF Enough, OneSize
<1>5. pc' \in {"take", "refill"} /\ (processedTransaction' = {} => pc' = "refill")
      /\ pc' # "pull" /\ pc' # "test"
  BY <1>1, <1>4
<1>6. ~leftBehind => ControllerInv'
  <2> SUFFICES ASSUME ~leftBehind PROVE ControllerInv'
    OBVIOUS
  <2>1. ControllerInv
    BY <1>2 DEF Ordered
  <2>2. \A t \in Queued : \A u \in processedTransaction : epochOf[u] <= epochOf[t]
    BY <1>1, <2>1 DEF ControllerInv
  <2>3. \A t \in Queued : \A u \in Tx \ Waiting' : epochOf[u] <= epochOf[t]
    BY <1>2, <2>1, <2>2 DEF ControllerInv
  <2>4. \A t \in Waiting' : arg <= epochOf[t]
    BY <1>2, <2>1 DEF ControllerInv
  <2>5. \A e \in Epochs : epoch + 1 < e /\ e < commEpoch => \E t \in Waiting' : epochOf[t] = e
    <3> SUFFICES ASSUME NEW e \in Epochs, epoch + 1 < e, e < commEpoch
                 PROVE  \E t \in Waiting' : epochOf[t] = e
      OBVIOUS
    <3>1. PICK t \in Waiting : epochOf[t] = e
      BY <2>1 DEF ControllerInv
    <3>2. e # arg
      BY <1>3, ConstantNumbers
    <3> QED  BY <1>2, <3>1, <3>2
  <2> QED  BY <1>1, <1>2, <1>5, <2>2, <2>3, <2>4, <2>5 DEF ControllerInv
<1>7. SingleInv'
  BY <1>1, <1>2 DEF Ordered, SingleInv
<1> QED  BY <1>1, <1>2, <1>6, <1>7 DEF Ordered

(* The stub's queue is empty.                                              *)
LEMMA StubGetTransactionOrdered ==
  ASSUME ManagerInv, Ordered, StubGetTransaction
  PROVE  Ordered' /\ leftBehind' = leftBehind
<1>1. /\ CommStub
      /\ UNCHANGED <<CommStub, receivers, broadcastTransactions, processedTransaction, leftBehind>>
  BY DEF StubGetTransaction, queueVars, transferVars
<1>2. Queued' = Queued /\ Queued = {}
  BY <1>1 DEF Queued, ManagerInv, StubInv, Waiting
<1>3. SingleInv'
  BY <1>1, <1>2 DEF Ordered, SingleInv
<1> QED  BY <1>1, <1>3 DEF Ordered

(* The next epoch is the one of which the manager has already been given.  *)
LEMMA FinishEpochOrdered ==
  ASSUME ManagerInv, Ordered, FinishEpoch
  PROVE  Ordered' /\ leftBehind' = leftBehind
<1>1. /\ Finishes /\ epochOf' = EpochAfter /\ epoch' = epoch + 1 /\ arg' = epoch + 1 /\ pc' = "get"
      /\ UNCHANGED <<CommStub, receivers, commEpoch, broadcastTransactions, processedTransaction,
                     currentEpoch, leftBehind>>
  BY DEF FinishEpoch, queueVars, transferVars
<1>2. /\ pc = "poll" /\ arg = epoch + 1
      /\ \A t \in Tx : EpochAfter[t] = epochOf[t] \/ EpochAfter[t] = epoch + 1
      /\ \A t \in Waiting : EpochAfter[t] = epochOf[t]
  BY <1>1, FinishFacts
<1>3. Typed /\ epoch \in Nat
  BY Numbers DEF ManagerInv
<1>4. Queued' = Queued /\ Waiting' = Waiting /\ Queued \subseteq Waiting /\ processedTransaction \subseteq Waiting
  BY <1>1 DEF Queued, Waiting
<1>5. ~CommStub /\ ~leftBehind => ControllerInv'
  <2> SUFFICES ASSUME ~CommStub, ~leftBehind PROVE ControllerInv'
    OBVIOUS
  <2>1. ControllerInv
    BY DEF Ordered
  <2>2. \A t \in Queued : \A u \in Tx \ Waiting : EpochAfter[u] <= EpochAfter[t]
    <3> SUFFICES ASSUME NEW t \in Queued, NEW u \in Tx \ Waiting PROVE EpochAfter[u] <= EpochAfter[t]
      OBVIOUS
    <3>1. EpochAfter[t] = epochOf[t] /\ epoch + 1 <= epochOf[t] /\ epochOf[u] <= epochOf[t]
      BY <1>2, <1>4, <2>1 DEF ControllerInv
    <3> QED  BY <1>2, <3>1
  <2>3. \A t \in Queued : \A u \in processedTransaction : EpochAfter[u] <= EpochAfter[t]
    BY <1>2, <1>4, <2>1 DEF ControllerInv
  <2>4. \A t \in Waiting : currentEpoch <= EpochAfter[t] /\ epoch + 1 <= EpochAfter[t]
    BY <1>2, <2>1 DEF ControllerInv
  <2>5. \A e \in Epochs : (epoch + 1) + 1 < e /\ e < commEpoch => \E t \in Waiting : EpochAfter[t] = e
    <3> SUFFICES ASSUME NEW e \in Epochs, (epoch + 1) + 1 < e, e < commEpoch
                 PROVE  \E t \in Waiting : EpochAfter[t] = e
      OBVIOUS
    <3>1. epoch + 1 < e
      BY <1>3, ConstantNumbers
    <3>2. PICK t \in Waiting : epochOf[t] = e
      BY <2>1, <3>1 DEF ControllerInv
    <3> QED  BY <1>2, <3>2
  <2>6. processedTransaction # {}
    BY <1>2, <2>1 DEF ControllerInv
  <2> QED  BY <1>1, <1>4, <2>2, <2>3, <2>4, <2>5, <2>6 DEF ControllerInv
<1>6. SingleInv'
  <2> SUFFICES ASSUME receivers \subseteq {Local}
               PROVE  ~leftBehind /\ \A t \in Queued : \A u \in processedTransaction : EpochAfter[u] <= EpochAfter[t]
    BY <1>1, <1>4 DEF SingleInv
  <2> QED  BY <1>2, <1>4 DEF Ordered, SingleInv
<1> QED  BY <1>1, <1>5, <1>6 DEF Ordered

-----------------------------------------------------------------------------
LEMMA EveryStepOrdered ==
  ASSUME OneSize, ManagerInv, OrderInv, [Next]_vars
  PROVE  OrderInv'
<1>1. Ordered /\ failed \in BOOLEAN /\ (~leftBehind => ~failed)
  BY DEF OrderInv
<1>2. ASSUME Ordered', leftBehind => leftBehind', failed' = failed PROVE OrderInv'
  <2>1. ~leftBehind' => ~failed'
    BY <1>1, <1>2
  <2> QED  BY <1>1, <1>2, <2>1 DEF OrderInv
<1>3. CASE Abort /\ ~failed
  <2>1. ~Checks /\ failed' = TRUE
    BY <1>3 DEF Abort
  <2>2. leftBehind
    BY <1>1, <2>1, ChecksByOrder
  <2>3. UNCHANGED <<CommStub, receivers, commEpoch, broadcastTransactions, processedTransaction,
                    currentEpoch, epochOf, epoch, leftBehind, pc, arg, currentEpochTrWrapper>>
    BY <1>3 DEF Abort, commVars, queueVars, heapVars, txVars, managerVars, transferVars
  <2>4. Ordered' /\ leftBehind' = leftBehind
    BY <1>1, <2>3, NothingMoved DEF ControllerInv
  <2> QED  BY <2>1, <2>2, <2>4 DEF OrderInv
<1>4. ASSUME Checks, ManagerAction PROVE Ordered' /\ (leftBehind => leftBehind')
  <2>1. ASSUME NEW r \in Receivers, NEW t \in Tx, Dequeue(r, t) PROVE Ordered' /\ (leftBehind => leftBehind')
    BY <1>1, <2>1, DequeueOrdered
  <2> QED
    BY <1>1, <1>4, <2>1, GetTransactionOrdered, AcquireOrdered, EndTransferOrdered, TestOrdered,
       TakeOrdered, StopTakingOrdered, StubGetTransactionOrdered, SendOrdered, NotFinishedOrdered,
       FinishEpochOrdered DEF ManagerAction
<1>5. CASE ManagerStep
  BY <1>2, <1>3, <1>4, <1>5 DEF ManagerStep
<1>6. CASE EngineStep
  BY <1>1, <1>2, <1>6, EngineFinishOrdered DEF EngineStep
<1>7. ASSUME NEW r \in Receivers, Signalling(r) PROVE OrderInv'
  BY <1>1, <1>2, <1>7, SignalOrdered DEF Signalling
<1>8. ASSUME NEW r \in Receivers, NEW t \in Tx, Deliver(r, t), failed' = failed PROVE OrderInv'
  BY <1>1, <1>2, <1>8, DeliverOrdered
<1>9. CASE NextDelivery /\ failed' = failed
  BY <1>1, <1>2, <1>9, NextDeliveryOrdered
<1>10. CASE UNCHANGED vars
  <2>1. UNCHANGED <<CommStub, receivers, commEpoch, broadcastTransactions, processedTransaction,
                    currentEpoch, epochOf, epoch, leftBehind, pc, arg, currentEpochTrWrapper, failed>>
    BY <1>10 DEF vars, commVars, queueVars, heapVars, txVars, managerVars, transferVars
  <2>2. Ordered' /\ leftBehind' = leftBehind
    BY <1>1, <2>1, NothingMoved DEF ControllerInv
  <2> QED  BY <1>2, <2>1, <2>2
<1> QED  BY <1>5, <1>6, <1>7, <1>8, <1>9, <1>10 DEF Next

LEMMA OrderHolds ==
  ASSUME OneSize
  PROVE  Spec => [](ManagerInv /\ OrderInv)
<1>1. Init => ManagerInv /\ OrderInv
  BY StartInv
<1>2. (ManagerInv /\ OrderInv) /\ [Next]_vars => (ManagerInv /\ OrderInv)'
  BY EveryStepInv, EveryStepOrdered
<1> QED  BY <1>1, <1>2, PTL DEF Spec

LEMMA CompleteByOrder == ManagerInv /\ OrderInv => BlocksComplete
<1> SUFFICES ASSUME ManagerInv, OrderInv PROVE BlocksComplete
  OBVIOUS
<1>1. Typed /\ PlaceInv /\ Ordered
  BY DEF ManagerInv, OrderInv
<1>2. /\ epoch \in Nat \ {0} /\ arg \in Nat /\ epoch <= arg /\ (arg = epoch \/ arg = epoch + 1)
      /\ \A t \in Tx : epochOf[t] \in Nat /\ epochOf[t] \in {0} \cup Epochs
      /\ Waiting \subseteq Tx
  BY <1>1, Numbers, QueuedTransactions DEF Typed
<1>3. ~leftBehind => ChecksHold
  BY <1>1, ChecksByOrder DEF OrderInv, ChecksHold
<1>4. ~leftBehind => \A t \in Waiting : arg <= epochOf[t]
  BY <1>1 DEF Ordered, ControllerInv, ManagerInv, StubInv
<1>5. ~leftBehind => BlockOfEpoch
  <2> SUFFICES ASSUME ~leftBehind, NEW e \in FirstEpoch..(epoch - 1)
               PROVE  blocks[e] = {t \in Tx : epochOf[t] = e}
    BY DEF BlockOfEpoch
  <2>1. e \in Epochs /\ e \in Nat \ {0} /\ e < epoch
    <3>1. epoch <= MaxEpoch + 1 /\ MaxEpoch \in Nat /\ FirstEpoch \in Nat
      BY <1>1, ConstantNumbers DEF Typed
    <3>2. e \in Nat /\ FirstEpoch <= e /\ e < epoch /\ e <= MaxEpoch + 1
      BY <1>2, <3>1
    <3> QED  BY <3>2, ConstantNumbers
  <2>2. \A t \in blocks[e] : t \in Tx /\ epochOf[t] = e
    BY <1>1, <2>1 DEF PlaceInv, Typed
  <2>3. ASSUME NEW t \in Tx, epochOf[t] = e PROVE t \in blocks[e]
    <3>1. t \notin Waiting
      <4>1. ~(arg <= e)
        BY <1>2, <2>1
      <4> QED  BY <1>4, <2>3, <4>1
    <3>2. t \notin Wrapped
      <4>1. epochOf[t] # epoch /\ epochOf[t] # epoch + 1 /\ epochOf[t] # arg
        BY <1>2, <2>1, <2>3
      <4> QED  BY <1>1, <4>1 DEF PlaceInv, Wrapped
    <3> QED  BY <1>1, <2>1, <2>3, <3>1, <3>2 DEF PlaceInv
  <2> QED  BY <2>2, <2>3
<1>6. receivers \subseteq {Local} => ~leftBehind
  BY <1>1 DEF Ordered, SingleInv
<1> QED  BY <1>3, <1>5, <1>6 DEF BlocksComplete

(* Unless a transfer has left an older transaction behind, the block of    *)
(* every epoch has all its transactions and none of the manager's CHECKs   *)
(* fails; and on a server that is alone no transfer does                   *)
(* (transaction_manager_impl.cpp; transferTransaction's try_dequeue).      *)
THEOREM BlocksAreComplete ==
  ASSUME OneSize
  PROVE  Spec => []BlocksComplete
<1>1. ManagerInv /\ OrderInv => BlocksComplete
  BY CompleteByOrder
<1> QED  BY <1>1, OrderHolds, PTL
=============================================================================
