------------------------- MODULE AriaExecutor_proofs -------------------------
(***************************************************************************)
(* Proofs about AriaExecutor, for every set of workers, keys and           *)
(* transactions, and whatever they ask for.                                *)
(***************************************************************************)
EXTENDS AriaExecutor, FiniteSetTheorems, TLAPS

-----------------------------------------------------------------------------
(* Type correctness.                                                       *)

(* What a payload asks for.                                                *)
LEMMA RequestType ==
  ASSUME TypeOK, NEW t \in Tid
  PROVE  /\ Request(t).ok \in BOOLEAN /\ Request(t).rwset \in SUBSET Slots
         /\ ~Request(t).ok => Request(t).rwset = {}
         /\ Home(t) \in Workers
<1>1. assignment \in [request : [Tid -> Requests], home : [Tid -> Workers]]
  BY ExecutorAssumption DEF TypeOK
<1>2. Request(t) \in Requests /\ Home(t) \in Workers
  BY <1>1 DEF Request, Home
<1> QED  BY <1>2, ExecutorAssumption

(* A worker that executes keeps the types.                                 *)
LEMMA ExecuteTypeStep ==
  ASSUME TypeOK, NEW w \in Workers, ExecuteStep(w),
         pc[w] # "idle" => cur[w] \in Tid
  PROVE  TypeOK'
<1> USE DEF TypeOK, Goto, Pcs, txVars, tableVars, dbVars
<1>1. CASE Invoke(w)
  <2>1. PICK t \in todo :
          /\ todo' = todo \ {t}
          /\ cur' = [cur EXCEPT ![w] = t]
          /\ InvokeChaincode(t)
          /\ IF Request(t).ok
             THEN /\ left' = [left EXCEPT ![w] = Request(t).rwset]
                  /\ Goto(w, "getTable")
                  /\ UNCHANGED result
             ELSE /\ result' = [result EXCEPT ![t] = "ABORT_NO_RETRY"]
                  /\ Goto(w, "buffer")
                  /\ UNCHANGED left
    BY <1>1 DEF Invoke
  <2>2. t \in Tid /\ Request(t).rwset \in SUBSET Slots
    BY RequestType
  <2>3. rwset' \in [Tid -> SUBSET Slots] /\ left' \in [Workers -> SUBSET Slots]
    BY <2>1, <2>2 DEF InvokeChaincode
  <2>4. result' \in [Tid -> Results]
    BY <2>1, <2>2 DEF Results
  <2>5. pc' \in [Workers -> Pcs] /\ cur' \in [Workers -> {0} \cup Tid]
    BY <2>1, <2>2
  <2> QED  BY <1>1, <2>1, <2>3, <2>4, <2>5 DEF Invoke
<1>2. CASE LoadPointer(w)
  BY <1>2 DEF LoadPointer
<1>3. CASE TestEpoch(w)
  BY <1>3 DEF TestEpoch
<1>4. CASE CreateTable(w)
  <2>1. /\ tableId' \in Nat /\ tableEpoch' \in 0..MaxEpoch
        /\ reserved' \in [Slots -> {0} \cup Tid]
    BY <1>4, ExecutorAssumption DEF CreateTable, CreateUnlessDone, Renew
  <2> QED  BY <1>4, <2>1 DEF CreateTable
<1>5. CASE LoadSlot(w)
  <2>1. PICK s \in NextSlots(w) :
          IF Taken(reserved[s], cur[w])
          THEN /\ left' = [left EXCEPT ![w] = @ \ {s}]
               /\ UNCHANGED <<slot, old, pc>>
          ELSE /\ slot' = [slot EXCEPT ![w] = s]
               /\ old' = [old EXCEPT ![w] = reserved[s]]
               /\ Goto(w, "storeSlot")
               /\ UNCHANGED left
    BY <1>5 DEF LoadSlot
  <2>2. s \in Slots
    BY DEF NextSlots
  <2>3. /\ left' \in [Workers -> SUBSET Slots]
        /\ slot' \in [Workers -> Slots \cup {NoSlot}]
        /\ old' \in [Workers -> {0} \cup Tid]
        /\ pc' \in [Workers -> Pcs]
    BY <2>1, <2>2
  <2> QED  BY <1>5, <2>3 DEF LoadSlot
<1>6. CASE StoreTid(w)
  BY <1>6 DEF StoreTid, StoreSlot
<1>7. CASE Exchange(w)
  <2>1. reserved' \in [Slots -> {0} \cup Tid] /\ left' \in [Workers -> SUBSET Slots]
    BY <1>7 DEF Exchange, StoreSlot
  <2> QED  BY <1>7, <2>1 DEF Exchange
<1>8. CASE FinishReserve(w)
  BY <1>8 DEF FinishReserve
<1>9. CASE BufferTest(w)
  BY <1>9 DEF BufferTest
<1>10. CASE BufferClear(w)
  BY <1>10 DEF BufferClear, clearBufferThreadSafe
<1>11. CASE BufferPut(w)
  BY <1>11 DEF BufferPut, BufferInsert
<1> QED
  BY <1>1, <1>2, <1>3, <1>4, <1>5, <1>6, <1>7, <1>8, <1>9, <1>10, <1>11 DEF ExecuteStep

(* So do a worker that commits, the coordinator and the manager.           *)
LEMMA CommitTypeStep ==
  ASSUME TypeOK, (\E w \in Workers : Commit(w)) \/ StartCommit \/ NextEpoch
  PROVE  TypeOK'
<1> USE DEF TypeOK, txVars, workerVars, tableVars, dbVars
<1>1. ASSUME NEW w \in Workers, Commit(w) PROVE TypeOK'
  <2>1. PICK t \in todo :
          /\ todo' = todo \ {t}
          /\ \/ /\ result[t] = "ABORT_NO_RETRY"
                /\ UNCHANGED <<result, dbVars>>
             \/ /\ result[t] # "ABORT_NO_RETRY" /\ ~MayCommit(t)
                /\ result' = [result EXCEPT ![t] = "ABORT"]
                /\ UNCHANGED dbVars
             \/ /\ result[t] # "ABORT_NO_RETRY" /\ MayCommit(t)
                /\ CommitUpdate(t, rwset[t], epoch)
                /\ result' = [result EXCEPT ![t] = "COMMIT"]
    BY <1>1 DEF Commit
  <2>2. result' \in [Tid -> Results]
    BY <2>1 DEF Results
  <2>3. /\ store' \in [Keys -> (0..MaxEpoch) \X ({0} \cup Tid)]
        /\ commitPhase' \in BOOLEAN /\ rwSetBuffer' \subseteq Tid
    <3>1. <<epoch, t>> \in (0..MaxEpoch) \X ({0} \cup Tid)
      BY ExecutorAssumption
    <3>2. CASE UNCHANGED dbVars
      BY <3>2
    <3>3. CASE CommitUpdate(t, rwset[t], epoch)
      <4>1. store' \in [Keys -> (0..MaxEpoch) \X ({0} \cup Tid)]
        BY <3>1, <3>3 DEF CommitUpdate
      <4> QED  BY <3>3, <4>1 DEF CommitUpdate
    <3> QED  BY <2>1, <3>2, <3>3
  <2> QED  BY <1>1, <2>1, <2>2, <2>3 DEF Commit
<1>2. CASE StartCommit
  BY <1>2 DEF StartCommit
<1>3. CASE NextEpoch
  <2>1. live' \subseteq Tid /\ todo' = live'
    BY <1>3 DEF NextEpoch, Proceed, Aborted, Arriving
  <2>2. rwset' \in [Tid -> SUBSET Slots] /\ result' \in [Tid -> Results]
    BY <1>3 DEF NextEpoch, Proceed, Results
  <2>3. epoch' \in 1..MaxEpoch /\ phase' = "READ"
    BY <1>3, ExecutorAssumption DEF NextEpoch, Proceed
  <2> QED  BY <1>3, <2>1, <2>2, <2>3 DEF NextEpoch, Proceed
<1> QED  BY <1>1, <1>2, <1>3

-----------------------------------------------------------------------------
(* The inductive invariant behind ReservationsHold, in named parts.        *)

(* The transactions that have been taken up in the execution phase, and    *)
(* those of them that no worker is still at.                               *)
Begun == {t \in live : phase = "COMMIT" \/ t \notin todo}
Done  == {t \in Begun : \A w \in Workers : cur[w] # t}

BeforeTable == {"getTable", "testEpoch", "createTable"}
WithTable   == {"reserve", "storeSlot", "exchange"}
AfterTable  == {"buffer", "clear", "insert"}

(* A busy worker is at a transaction of its own list, in the execution     *)
(* phase; it is with the table only if its chaincode went well.            *)
WorkerPlace ==
  \A w \in Workers :
    /\ pc[w] = "idle" <=> cur[w] = 0
    /\ pc[w] # "idle" =>
         phase = "READ" /\ cur[w] \in live \ todo /\ Home(cur[w]) = w
    /\ pc[w] \in BeforeTable \cup WithTable => Request(cur[w]).ok

(* What is left to be reserved is part of what the payload asks for.       *)
SlotPlace ==
  \A w \in Workers :
    /\ pc[w] \in BeforeTable => left[w] = Request(cur[w]).rwset
    /\ pc[w] \in WithTable => left[w] \subseteq Request(cur[w]).rwset
    /\ pc[w] \in {"storeSlot", "exchange"} => slot[w] \in left[w]

(* The rwset of a transaction is what it asked for, until it is reset.     *)
RwsetKept == \A t \in Begun : rwset[t] = Request(t).rwset

(* A worker that has got past getTable has the table of this epoch, also   *)
(* when it loaded the pointer before another worker replaced the table.    *)
HasTable(w) == table[w] = tableId /\ IsFor(epoch)

TableOfEpoch ==
  /\ tableEpoch <= epoch
  /\ \A w \in Workers :
       /\ pc[w] = "testEpoch" /\ table[w] # tableId => IsFor(epoch)
       /\ pc[w] \in WithTable => HasTable(w)
       /\ pc[w] \in AfterTable /\ Request(cur[w]).ok => HasTable(w)
  /\ \A t \in Done : Request(t).ok => HasTable(Home(t))

(* A slot of the epoch's table belongs to a transaction that wants it.     *)
HolderWants ==
  IsFor(epoch) =>
    \A s \in Slots : reserved[s] # 0 =>
      /\ reserved[s] \in Begun /\ Request(reserved[s]).ok
      /\ s \in Request(reserved[s]).rwset

(* What a transaction has dealt with is reserved, by it or before it.      *)
DealtWith ==
  /\ \A w \in Workers :
       /\ pc[w] \in WithTable =>
            \A s \in Request(cur[w]).rwset \ left[w] : reserved[s] # 0
       /\ pc[w] \in AfterTable /\ Request(cur[w]).ok =>
            \A s \in Request(cur[w]).rwset : reserved[s] # 0
  /\ \A t \in Done : Request(t).ok =>
       \A s \in Request(t).rwset : reserved[s] # 0

PlaceInv == TypeOK /\ WorkerPlace /\ SlotPlace /\ RwsetKept
ReserveInv == PlaceInv /\ TableOfEpoch /\ HolderWants /\ DealtWith

-----------------------------------------------------------------------------
(* Where the workers are.                                                  *)

(* Taking up a transaction.                                                *)
LEMMA InvokeFacts ==
  ASSUME PlaceInv, NEW w \in Workers, Invoke(w)
  PROVE  \E t \in todo :
           /\ phase = "READ" /\ pc[w] = "idle" /\ Home(t) = w /\ t \in Tid /\ t # 0
           /\ todo' = todo \ {t}
           /\ cur' = [cur EXCEPT ![w] = t]
           /\ rwset' = [rwset EXCEPT ![t] = Request(t).rwset]
           /\ \/ /\ Request(t).ok
                 /\ left' = [left EXCEPT ![w] = Request(t).rwset]
                 /\ pc' = [pc EXCEPT ![w] = "getTable"]
              \/ /\ ~Request(t).ok /\ UNCHANGED left
                 /\ pc' = [pc EXCEPT ![w] = "buffer"]
           /\ Begun' = Begun \cup {t} /\ t \notin Begun /\ Done' = Done
           /\ UNCHANGED <<epoch, phase, live, assignment, table, slot, tableVars>>
<1>1. PICK t \in todo :
        /\ phase = "READ" /\ pc[w] = "idle" /\ Home(t) = w
        /\ todo' = todo \ {t}
        /\ cur' = [cur EXCEPT ![w] = t]
        /\ rwset' = [rwset EXCEPT ![t] = Request(t).rwset]
        /\ \/ /\ Request(t).ok
              /\ left' = [left EXCEPT ![w] = Request(t).rwset]
              /\ pc' = [pc EXCEPT ![w] = "getTable"]
           \/ /\ ~Request(t).ok /\ UNCHANGED left
              /\ pc' = [pc EXCEPT ![w] = "buffer"]
  BY DEF Invoke, InvokeChaincode, Goto
<1>2. UNCHANGED <<epoch, phase, live, assignment, table, slot, tableVars>>
  BY DEF Invoke
<1>3. t \in live /\ t \in Tid /\ t # 0 /\ cur \in [Workers -> {0} \cup Tid]
  BY TidAssumption DEF PlaceInv, TypeOK, Tid
<1>4. cur[w] = 0
  BY <1>1 DEF PlaceInv, WorkerPlace
<1>5. Begun' = Begun \cup {t} /\ t \notin Begun
  BY <1>1, <1>2, <1>3 DEF Begun
<1>6. \A v \in Workers : cur'[v] = IF v = w THEN t ELSE cur[v]
  BY <1>1, <1>3
<1>7. Done' = Done
  <2>1. 0 \notin Begun
    BY TidAssumption DEF Begun, PlaceInv, TypeOK, Tid
  <2>2. \A u \in Begun : (\A v \in Workers : cur'[v] # u) <=> (\A v \in Workers : cur[v] # u)
    BY <1>4, <1>5, <1>6, <2>1
  <2>3. ~(\A v \in Workers : cur'[v] # t)
    BY <1>6
  <2> QED  BY <1>5, <2>2, <2>3 DEF Done
<1> QED  BY <1>1, <1>2, <1>3, <1>5, <1>7

(* The other steps of a worker but the last leave it at its transaction.   *)
LEMMA StayFacts ==
  ASSUME PlaceInv, NEW w \in Workers, ExecuteStep(w), ~Invoke(w), ~BufferPut(w)
  PROVE  /\ UNCHANGED <<epoch, phase, live, todo, assignment, rwset, result, cur>>
         /\ Begun' = Begun /\ Done' = Done
<1>1. UNCHANGED <<epoch, phase, live, todo, assignment, rwset, result, cur>>
  BY DEF ExecuteStep, LoadPointer, TestEpoch, CreateTable, LoadSlot, StoreTid, Exchange,
         FinishReserve, BufferTest, BufferClear, txVars
<1> QED  BY <1>1 DEF Begun, Done

(* A worker that executes stays with what its transaction asked for.       *)
LEMMA PlaceExecuteStep ==
  ASSUME PlaceInv, NEW w \in Workers, ExecuteStep(w)
  PROVE  (WorkerPlace /\ SlotPlace /\ RwsetKept)'
<1> USE DEF BeforeTable, WithTable, Request, Home, Goto
<1>0. /\ pc \in [Workers -> Pcs] /\ cur \in [Workers -> {0} \cup Tid]
      /\ left \in [Workers -> SUBSET Slots] /\ slot \in [Workers -> Slots \cup {NoSlot}]
      /\ rwset \in [Tid -> SUBSET Slots] /\ live \subseteq Tid
      /\ WorkerPlace /\ SlotPlace /\ RwsetKept
  BY DEF PlaceInv, TypeOK
<1>1. CASE Invoke(w)
  <2>1. PICK t \in todo :
           /\ phase = "READ" /\ pc[w] = "idle" /\ Home(t) = w /\ t \in Tid /\ t # 0
           /\ todo' = todo \ {t}
           /\ cur' = [cur EXCEPT ![w] = t]
           /\ rwset' = [rwset EXCEPT ![t] = Request(t).rwset]
           /\ \/ /\ Request(t).ok
                 /\ left' = [left EXCEPT ![w] = Request(t).rwset]
                 /\ pc' = [pc EXCEPT ![w] = "getTable"]
              \/ /\ ~Request(t).ok /\ UNCHANGED left
                 /\ pc' = [pc EXCEPT ![w] = "buffer"]
           /\ Begun' = Begun \cup {t} /\ t \notin Begun /\ Done' = Done
           /\ UNCHANGED <<epoch, phase, live, assignment, table, slot, tableVars>>
    BY <1>1, InvokeFacts
  <2>2. t \in live
    BY DEF PlaceInv, TypeOK
  <2>3. WorkerPlace'
    BY <1>0, <2>1, <2>2 DEF WorkerPlace
  <2>4. SlotPlace'
    BY <1>0, <2>1 DEF SlotPlace
  <2>5. RwsetKept'
    <3>1. \A u \in Begun : u \in Tid /\ u # t
      BY <1>0, <2>1 DEF Begun
    <3> QED  BY <1>0, <2>1, <3>1 DEF RwsetKept
  <2> QED  BY <2>3, <2>4, <2>5
<1>2. CASE BufferPut(w)
  <2>1. Begun' = Begun
    BY <1>2 DEF BufferPut, Begun
  <2> QED
    BY <1>0, <1>2, <2>1, TidAssumption
       DEF BufferPut, txVars, WorkerPlace, SlotPlace, RwsetKept, Tid
<1>3. CASE ~Invoke(w) /\ ~BufferPut(w)
  <2>1. /\ UNCHANGED <<phase, live, todo, assignment, rwset, cur>> /\ Begun' = Begun
    BY <1>3, StayFacts
  <2>2. RwsetKept'
    BY <1>0, <2>1 DEF RwsetKept
  <2>3. CASE LoadPointer(w)
    BY <1>0, <2>1, <2>2, <2>3 DEF LoadPointer, WorkerPlace, SlotPlace
  <2>4. CASE TestEpoch(w)
    BY <1>0, <2>1, <2>2, <2>4 DEF TestEpoch, WorkerPlace, SlotPlace
  <2>5. CASE CreateTable(w)
    BY <1>0, <2>1, <2>2, <2>5 DEF CreateTable, WorkerPlace, SlotPlace
  <2>6. CASE LoadSlot(w)
    <3>1. PICK s \in left[w] :
            \/ left' = [left EXCEPT ![w] = @ \ {s}] /\ UNCHANGED <<slot, pc>>
            \/ /\ slot' = [slot EXCEPT ![w] = s]
               /\ pc' = [pc EXCEPT ![w] = "storeSlot"]
               /\ UNCHANGED left
      BY <2>6 DEF LoadSlot, NextSlots
    <3> QED  BY <1>0, <2>1, <2>2, <2>6, <3>1 DEF LoadSlot, WorkerPlace, SlotPlace
  <2>7. CASE StoreTid(w)
    BY <1>0, <2>1, <2>2, <2>7 DEF StoreTid, WorkerPlace, SlotPlace
  <2>8. CASE Exchange(w)
    BY <1>0, <2>1, <2>2, <2>8 DEF Exchange, WorkerPlace, SlotPlace
  <2>9. CASE FinishReserve(w)
    BY <1>0, <2>1, <2>2, <2>9 DEF FinishReserve, WorkerPlace, SlotPlace
  <2>10. CASE BufferTest(w)
    BY <1>0, <2>1, <2>2, <2>10 DEF BufferTest, WorkerPlace, SlotPlace
  <2>11. CASE BufferClear(w)
    BY <1>0, <2>1, <2>2, <2>11 DEF BufferClear, WorkerPlace, SlotPlace
  <2> QED
    BY <1>3, <2>3, <2>4, <2>5, <2>6, <2>7, <2>8, <2>9, <2>10, <2>11 DEF ExecuteStep
<1> QED  BY <1>1, <1>2, <1>3

(* When all have been executed, when one is committed and when the next    *)
(* epoch starts, no worker is at a transaction.                            *)
LEMMA PlaceCommitStep ==
  ASSUME PlaceInv, (\E w \in Workers : Commit(w)) \/ StartCommit \/ NextEpoch
  PROVE  /\ \A w \in Workers : pc[w] = "idle" /\ cur[w] = 0
         /\ (WorkerPlace /\ SlotPlace /\ RwsetKept)'
<1>1. UNCHANGED <<assignment, workerVars>>
  BY DEF Commit, StartCommit, NextEpoch, Proceed
<1>2. \A w \in Workers : pc[w] = "idle" /\ cur[w] = 0
  BY DEF PlaceInv, WorkerPlace, Commit, StartCommit, NextEpoch, Proceed
<1>3. \A t \in Begun' : t \in Begun /\ rwset'[t] = rwset[t]
  <2>1. ASSUME NEW w \in Workers, Commit(w) PROVE Begun' = Begun /\ rwset' = rwset
    BY <2>1 DEF Commit, Begun
  <2>2. CASE StartCommit
    BY <2>2 DEF StartCommit, Begun, txVars
  <2>3. CASE NextEpoch
    BY <2>3 DEF NextEpoch, Proceed, Begun
  <2> QED  BY <2>1, <2>2, <2>3
<1>4. (WorkerPlace /\ SlotPlace)'
  BY <1>1, <1>2 DEF workerVars, WorkerPlace, SlotPlace, BeforeTable, WithTable
<1>5. RwsetKept'
  BY <1>1, <1>3 DEF PlaceInv, RwsetKept, Request
<1> QED  BY <1>2, <1>4, <1>5

(* A busy worker is at a transaction, so that the types are inductive.     *)
LEMMA PlaceStep == PlaceInv /\ [Next]_vars => PlaceInv'
<1> SUFFICES ASSUME PlaceInv, [Next]_vars PROVE PlaceInv'
  OBVIOUS
<1>1. ASSUME NEW w \in Workers, ExecuteStep(w) PROVE PlaceInv'
  <2>1. pc[w] # "idle" => cur[w] \in Tid
    BY DEF PlaceInv, WorkerPlace, TypeOK
  <2> QED  BY <1>1, <2>1, ExecuteTypeStep, PlaceExecuteStep DEF PlaceInv
<1>2. CASE (\E w \in Workers : Commit(w)) \/ StartCommit \/ NextEpoch
  BY <1>2, CommitTypeStep, PlaceCommitStep DEF PlaceInv
<1>3. CASE UNCHANGED vars
  BY <1>3 DEF PlaceInv, vars, txVars, workerVars, tableVars, dbVars, TypeOK, WorkerPlace,
     SlotPlace, RwsetKept, Begun, Request, Home
<1> QED  BY <1>1, <1>2, <1>3 DEF Next

-----------------------------------------------------------------------------
(* The table and its slots.                                                *)

(* The last step of a worker leaves its transaction done.                  *)
LEMMA PutFacts ==
  ASSUME PlaceInv, NEW w \in Workers, BufferPut(w)
  PROVE  /\ UNCHANGED <<epoch, phase, live, todo, assignment, rwset, table, left, slot,
                        tableVars>>
         /\ pc' = [pc EXCEPT ![w] = "idle"] /\ cur' = [cur EXCEPT ![w] = 0]
         /\ pc[w] = "insert" /\ cur[w] \in Tid /\ Home(cur[w]) = w
         /\ Begun' = Begun /\ Done' \subseteq Done \cup {cur[w]}
<1>1. /\ UNCHANGED <<epoch, phase, live, todo, assignment, rwset, table, left, slot, tableVars>>
      /\ pc' = [pc EXCEPT ![w] = "idle"] /\ cur' = [cur EXCEPT ![w] = 0]
      /\ pc[w] = "insert"
  BY DEF BufferPut, Goto, txVars
<1>2. cur[w] \in Tid /\ Home(cur[w]) = w
  BY <1>1 DEF PlaceInv, WorkerPlace, TypeOK
<1>3. Begun' = Begun
  BY <1>1 DEF Begun
<1>4. Done' \subseteq Done \cup {cur[w]}
  BY <1>1, <1>3 DEF Done, PlaceInv, TypeOK
<1> QED  BY <1>1, <1>2, <1>3, <1>4

(* What the steps below need of the types.                                 *)
LEMMA TableTypes ==
  ASSUME PlaceInv
  PROVE  /\ pc \in [Workers -> Pcs] /\ cur \in [Workers -> {0} \cup Tid]
         /\ table \in [Workers -> Nat] /\ tableId \in Nat /\ tableEpoch \in Nat /\ epoch \in Nat
         /\ left \in [Workers -> SUBSET Slots] /\ slot \in [Workers -> Slots \cup {NoSlot}]
         /\ reserved \in [Slots -> {0} \cup Tid] /\ old \in [Workers -> {0} \cup Tid]
         /\ Done \subseteq Begun /\ Begun \subseteq live /\ live \subseteq Tid
         /\ \A t \in Tid : t \in Nat /\ t # 0 /\ Home(t) \in Workers
                        /\ Request(t).rwset \subseteq Slots
         /\ WorkerPlace /\ SlotPlace
<1>1. /\ pc \in [Workers -> Pcs] /\ cur \in [Workers -> {0} \cup Tid]
      /\ table \in [Workers -> Nat] /\ tableId \in Nat /\ tableEpoch \in Nat /\ epoch \in Nat
      /\ left \in [Workers -> SUBSET Slots] /\ slot \in [Workers -> Slots \cup {NoSlot}]
      /\ reserved \in [Slots -> {0} \cup Tid] /\ old \in [Workers -> {0} \cup Tid]
      /\ WorkerPlace /\ SlotPlace /\ live \subseteq Tid
  BY ExecutorAssumption DEF PlaceInv, TypeOK
<1>2. Done \subseteq Begun /\ Begun \subseteq live
  BY DEF Done, Begun
<1>3. \A t \in Tid : t \in Nat /\ t # 0 /\ Home(t) \in Workers /\ Request(t).rwset \subseteq Slots
  BY RequestType, TidAssumption DEF PlaceInv, Tid
<1> QED  BY <1>1, <1>2, <1>3

(* The workers of an epoch get its one table.                              *)
LEMMA TableExecuteStep ==
  ASSUME PlaceInv, TableOfEpoch, NEW w \in Workers, ExecuteStep(w)
  PROVE  TableOfEpoch'
<1> USE TableTypes DEF BeforeTable, WithTable, AfterTable, Request, Home, Goto, HasTable, IsFor
<1>1. CASE Invoke(w)
  <2>1. /\ \E t \in todo : cur' = [cur EXCEPT ![w] = t]
              /\ \/ pc' = [pc EXCEPT ![w] = "getTable"]
                 \/ ~Request(t).ok /\ pc' = [pc EXCEPT ![w] = "buffer"]
        /\ Done' = Done /\ UNCHANGED <<epoch, assignment, table, tableVars>>
    BY <1>1, InvokeFacts
  <2> QED  BY <2>1 DEF TableOfEpoch, tableVars
<1>2. CASE BufferPut(w)
  <2>1. /\ UNCHANGED <<epoch, assignment, table, tableVars>>
        /\ pc' = [pc EXCEPT ![w] = "idle"] /\ cur' = [cur EXCEPT ![w] = 0]
        /\ pc[w] = "insert" /\ Home(cur[w]) = w /\ Done' \subseteq Done \cup {cur[w]}
    BY <1>2, PutFacts
  <2> QED  BY <2>1 DEF TableOfEpoch, tableVars
<1>3. CASE ~Invoke(w) /\ ~BufferPut(w)
  <2>1. UNCHANGED <<epoch, assignment, cur>> /\ Done' = Done
    BY <1>3, StayFacts
  <2>2. CASE LoadPointer(w)
    BY <2>1, <2>2 DEF LoadPointer, TableOfEpoch, tableVars
  <2>3. CASE TestEpoch(w)
    BY <2>1, <2>3 DEF TestEpoch, TableOfEpoch, tableVars
  <2>4. CASE CreateTable(w)
    <3>1. pc[w] = "createTable" /\ pc' = [pc EXCEPT ![w] = "reserve"]
          /\ table' = [table EXCEPT ![w] = tableId']
      BY <2>4 DEF CreateTable
    <3>2. CASE IsFor(epoch) /\ UNCHANGED tableVars
      BY <2>1, <3>1, <3>2 DEF TableOfEpoch, tableVars
    <3>3. CASE ~IsFor(epoch) /\ Renew(epoch)
      <4>1. tableId' = tableId + 1 /\ tableEpoch' = epoch
        BY <3>3 DEF Renew
      <4>2. IsFor(epoch)'
        BY <2>1, <4>1
      <4>3. \A v \in Workers : v # w => pc'[v] = pc[v] /\ table'[v] = table[v]
        BY <3>1
      <4>4. \A v \in Workers : v # w => pc[v] \notin WithTable
              /\ ~(pc[v] \in AfterTable /\ Request(cur[v]).ok)
        BY <3>3 DEF TableOfEpoch
      <4>5. \A t \in Done : ~Request(t).ok
        BY <3>3 DEF TableOfEpoch
      <4> QED  BY <2>1, <3>1, <4>1, <4>2, <4>3, <4>4, <4>5 DEF TableOfEpoch
    <3> QED  BY <2>4, <3>2, <3>3 DEF CreateTable, CreateUnlessDone
  <2>5. CASE LoadSlot(w)
    <3>1. UNCHANGED <<table, tableVars>> /\ pc[w] = "reserve"
          /\ (UNCHANGED pc \/ pc' = [pc EXCEPT ![w] = "storeSlot"])
      BY <2>5 DEF LoadSlot
    <3> QED  BY <2>1, <3>1 DEF TableOfEpoch, tableVars
  <2>6. CASE StoreTid(w)
    BY <2>1, <2>6 DEF StoreTid, TableOfEpoch
  <2>7. CASE Exchange(w)
    BY <2>1, <2>7 DEF Exchange, TableOfEpoch
  <2>8. CASE FinishReserve(w)
    BY <2>1, <2>8 DEF FinishReserve, TableOfEpoch, tableVars
  <2>9. CASE BufferTest(w)
    BY <2>1, <2>9 DEF BufferTest, TableOfEpoch, tableVars
  <2>10. CASE BufferClear(w)
    BY <2>1, <2>10 DEF BufferClear, TableOfEpoch, tableVars
  <2> QED
    BY <1>3, <2>2, <2>3, <2>4, <2>5, <2>6, <2>7, <2>8, <2>9, <2>10 DEF ExecuteStep
<1> QED  BY <1>1, <1>2, <1>3

(* No slot gets an ID that does not belong there.                          *)
LEMMA HolderExecuteStep ==
  ASSUME PlaceInv, TableOfEpoch, HolderWants, NEW w \in Workers, ExecuteStep(w)
  PROVE  HolderWants'
<1> USE TableTypes DEF WithTable, Request, IsFor
<1>1. CASE Invoke(w)
  <2>1. /\ UNCHANGED <<epoch, assignment, tableVars>>
        /\ Begun \subseteq Begun'
    BY <1>1, InvokeFacts
  <2> QED  BY <2>1 DEF HolderWants, tableVars
<1>2. CASE BufferPut(w)
  BY <1>2, PutFacts DEF HolderWants, tableVars
<1>3. CASE ~Invoke(w) /\ ~BufferPut(w)
  <2>1. UNCHANGED <<epoch, phase, assignment, cur>> /\ Begun' = Begun
    BY <1>3, StayFacts
  <2>2. CASE UNCHANGED tableVars
    BY <2>1, <2>2 DEF HolderWants, tableVars
  <2>3. CASE CreateTable(w)
    <3>1. CASE Renew(epoch)
      BY <2>1, <3>1 DEF Renew, HolderWants
    <3> QED  BY <2>2, <2>3, <3>1 DEF CreateTable, CreateUnlessDone
  <2>4. ASSUME pc[w] \in {"storeSlot", "exchange"}, StoreSlot(slot[w], cur[w]),
               UNCHANGED <<tableId, tableEpoch>>
        PROVE  HolderWants'
    <3>1. cur[w] \in Begun /\ Request(cur[w]).ok /\ slot[w] \in Request(cur[w]).rwset
      BY <2>4 DEF WorkerPlace, SlotPlace, Begun
    <3>2. \A s \in Slots : reserved'[s] = IF s = slot[w] THEN cur[w] ELSE reserved[s]
      BY <2>4 DEF StoreSlot
    <3> QED  BY <2>1, <2>4, <3>1, <3>2 DEF HolderWants
  <2>5. CASE StoreTid(w)
    BY <2>4, <2>5 DEF StoreTid
  <2>6. CASE Exchange(w)
    BY <2>2, <2>4, <2>6 DEF Exchange, tableVars
  <2> QED
    BY <1>3, <2>2, <2>3, <2>5, <2>6
       DEF ExecuteStep, LoadPointer, TestEpoch, LoadSlot, FinishReserve, BufferTest, BufferClear
<1> QED  BY <1>1, <1>2, <1>3

(* What has been reserved stays so, and a worker leaves out nothing.       *)
LEMMA DealtExecuteStep ==
  ASSUME PlaceInv, TableOfEpoch, DealtWith, NEW w \in Workers, ExecuteStep(w)
  PROVE  DealtWith'
<1> USE TableTypes DEF BeforeTable, WithTable, AfterTable, Request, Goto
<1>1. CASE Invoke(w)
  <2>1. /\ \E t \in todo : cur' = [cur EXCEPT ![w] = t]
              /\ \/ pc' = [pc EXCEPT ![w] = "getTable"]
                    /\ left' = [left EXCEPT ![w] = Request(t).rwset]
                 \/ ~Request(t).ok /\ pc' = [pc EXCEPT ![w] = "buffer"] /\ UNCHANGED left
        /\ Done' = Done /\ UNCHANGED <<assignment, tableVars>>
    BY <1>1, InvokeFacts
  <2> QED  BY <2>1 DEF DealtWith, tableVars
<1>2. CASE BufferPut(w)
  <2>1. /\ UNCHANGED <<assignment, left, tableVars>>
        /\ pc' = [pc EXCEPT ![w] = "idle"] /\ cur' = [cur EXCEPT ![w] = 0]
        /\ pc[w] = "insert" /\ Done' \subseteq Done \cup {cur[w]}
    BY <1>2, PutFacts
  <2> QED  BY <2>1 DEF DealtWith, tableVars
<1>3. CASE ~Invoke(w) /\ ~BufferPut(w)
  <2>1. UNCHANGED <<epoch, assignment, cur>> /\ Done' = Done
    BY <1>3, StayFacts
  <2>2. CASE LoadPointer(w)
    BY <2>1, <2>2 DEF LoadPointer, DealtWith, tableVars
  <2>3. CASE TestEpoch(w)
    BY <2>1, <2>3 DEF TestEpoch, DealtWith, SlotPlace, tableVars
  <2>4. CASE CreateTable(w)
    <3>1. /\ pc[w] = "createTable" /\ pc' = [pc EXCEPT ![w] = "reserve"] /\ left' = left
          /\ left[w] = Request(cur[w]).rwset
      BY <2>4 DEF CreateTable, SlotPlace
    <3>2. CASE UNCHANGED tableVars
      BY <2>1, <3>1, <3>2 DEF DealtWith, tableVars
    <3>3. CASE ~IsFor(epoch)
      <4>1. \A v \in Workers : v # w => pc'[v] = pc[v] /\ pc[v] \notin WithTable
              /\ ~(pc[v] \in AfterTable /\ Request(cur[v]).ok)
        BY <3>1, <3>3 DEF TableOfEpoch, HasTable
      <4>2. \A t \in Done : ~Request(t).ok
        BY <3>3 DEF TableOfEpoch, HasTable
      <4> QED  BY <2>1, <3>1, <4>1, <4>2 DEF DealtWith
    <3> QED  BY <2>4, <3>2, <3>3 DEF CreateTable, CreateUnlessDone
  <2>5. CASE LoadSlot(w)
    <3>1. PICK s \in left[w] :
            \/ /\ left' = [left EXCEPT ![w] = @ \ {s}] /\ UNCHANGED pc
               /\ reserved[s] # 0
            \/ /\ pc' = [pc EXCEPT ![w] = "storeSlot"] /\ UNCHANGED left
      BY <2>5 DEF LoadSlot, NextSlots, Taken
    <3>2. pc[w] = "reserve" /\ UNCHANGED tableVars
      BY <2>5 DEF LoadSlot
    <3> QED  BY <2>1, <3>1, <3>2 DEF DealtWith, tableVars
  <2>6. ASSUME pc[w] \in {"storeSlot", "exchange"},
               UNCHANGED reserved \/ StoreSlot(slot[w], cur[w])
        PROVE  /\ \A s \in Slots : reserved[s] # 0 => reserved'[s] # 0
               /\ StoreSlot(slot[w], cur[w]) => reserved'[slot[w]] # 0
    <3>1. cur[w] # 0 /\ slot[w] \in Slots
      BY <2>6 DEF WorkerPlace, SlotPlace
    <3> QED  BY <2>6, <3>1 DEF StoreSlot
  <2>7. CASE StoreTid(w)
    <3>1. \A s \in Slots : reserved[s] # 0 => reserved'[s] # 0
      BY <2>6, <2>7 DEF StoreTid
    <3>2. pc[w] = "storeSlot" /\ pc' = [pc EXCEPT ![w] = "exchange"] /\ UNCHANGED left
      BY <2>7 DEF StoreTid
    <3>3. \A t \in Done : t \in Tid
      OBVIOUS
    <3>4. \A v \in Workers : pc[v] # "idle" => cur[v] \in Tid
      BY DEF WorkerPlace
    <3> QED  BY <2>1, <3>1, <3>2, <3>3, <3>4 DEF DealtWith
  <2>8. CASE Exchange(w)
    <3>1. \A s \in Slots : reserved[s] # 0 => reserved'[s] # 0
      BY <2>6, <2>8 DEF Exchange
    <3>2. \/ /\ left' = [left EXCEPT ![w] = @ \ {slot[w]}] /\ reserved'[slot[w]] # 0
          \/ UNCHANGED left
      BY <2>6, <2>8 DEF Exchange
    <3>3. pc[w] = "exchange" /\ pc' = [pc EXCEPT ![w] = "reserve"]
      BY <2>8 DEF Exchange
    <3>4. \A v \in Workers : pc[v] # "idle" => cur[v] \in Tid
      BY DEF WorkerPlace
    <3> QED  BY <2>1, <3>1, <3>2, <3>3, <3>4 DEF DealtWith
  <2>9. CASE FinishReserve(w)
    BY <2>1, <2>9 DEF FinishReserve, DealtWith, tableVars
  <2>10. CASE BufferTest(w)
    BY <2>1, <2>10 DEF BufferTest, DealtWith, tableVars
  <2>11. CASE BufferClear(w)
    BY <2>1, <2>11 DEF BufferClear, DealtWith, tableVars
  <2> QED
    BY <1>3, <2>2, <2>3, <2>4, <2>5, <2>7, <2>8, <2>9, <2>10, <2>11 DEF ExecuteStep
<1> QED  BY <1>1, <1>2, <1>3

(* The table and the slots are left alone by the commits; the next epoch   *)
(* starts with nobody's reservations, for the table is not its own.        *)
LEMMA ReserveCommitStep ==
  ASSUME ReserveInv, (\E w \in Workers : Commit(w)) \/ StartCommit \/ NextEpoch
  PROVE  (TableOfEpoch /\ HolderWants /\ DealtWith)'
<1> USE TableTypes DEF ReserveInv, BeforeTable, WithTable, AfterTable, Request, Home
<1>1. /\ \A w \in Workers : pc[w] = "idle" /\ cur[w] = 0
      /\ UNCHANGED <<assignment, workerVars, tableVars>>
  BY PlaceCommitStep DEF Commit, StartCommit, NextEpoch, Proceed
<1>2. CASE NextEpoch
  <2>1. epoch' = epoch + 1 /\ Begun' = {}
    BY <1>2 DEF NextEpoch, Proceed, Begun
  <2>2. Done' = {} /\ ~IsFor(epoch)' /\ tableEpoch' <= epoch'
    BY <1>1, <2>1 DEF Done, IsFor, tableVars, TableOfEpoch
  <2> QED
    BY <1>1, <2>2 DEF workerVars, TableOfEpoch, HolderWants, DealtWith
<1>3. CASE (\E w \in Workers : Commit(w)) \/ StartCommit
  <2>1. UNCHANGED epoch /\ Begun' = Begun
    BY <1>3 DEF Commit, StartCommit, Begun
  <2>2. Done' = Done
    BY <1>1, <2>1 DEF Done, workerVars
  <2>3. UNCHANGED <<table, tableId, tableEpoch, reserved, pc, cur, left>>
    BY <1>1 DEF workerVars, tableVars
  <2>4. TableOfEpoch'
    BY <1>1, <2>1, <2>2, <2>3 DEF TableOfEpoch, HasTable, IsFor
  <2>5. HolderWants'
    BY <1>1, <2>1, <2>3 DEF HolderWants, IsFor
  <2>6. DealtWith'
    BY <1>1, <2>2, <2>3 DEF DealtWith
  <2> QED  BY <2>4, <2>5, <2>6
<1> QED  BY <1>2, <1>3

(* The reservations are kept in order by every step.                       *)
LEMMA ReserveStep == ReserveInv /\ [Next]_vars => ReserveInv'
<1> SUFFICES ASSUME ReserveInv, [Next]_vars PROVE ReserveInv'
  OBVIOUS
<1>1. PlaceInv'
  BY PlaceStep DEF ReserveInv
<1>2. ASSUME NEW w \in Workers, ExecuteStep(w) PROVE ReserveInv'
  BY <1>1, <1>2, TableExecuteStep, HolderExecuteStep, DealtExecuteStep DEF ReserveInv
<1>3. CASE (\E w \in Workers : Commit(w)) \/ StartCommit \/ NextEpoch
  BY <1>1, <1>3, ReserveCommitStep DEF ReserveInv
<1>4. CASE UNCHANGED vars
  BY <1>1, <1>4 DEF ReserveInv, vars, txVars, workerVars, tableVars, dbVars, TableOfEpoch,
     HolderWants, DealtWith, HasTable, IsFor, Begun, Done, Request, Home
<1> QED  BY <1>2, <1>3, <1>4 DEF Next

(* At first nobody has begun.                                              *)
LEMMA ReserveInit == Init => ReserveInv
<1> SUFFICES ASSUME Init PROVE ReserveInv
  OBVIOUS
<1> USE DEF Init, TableInit, DbInit
<1>1. TypeOK
  <2>1. reserved \in [Slots -> {0} \cup Tid] /\ store \in [Keys -> (0..MaxEpoch) \X ({0} \cup Tid)]
    BY ExecutorAssumption
  <2>2. rwset \in [Tid -> SUBSET Slots] /\ result \in [Tid -> Results]
    BY DEF Results
  <2>3. /\ pc \in [Workers -> Pcs] /\ cur \in [Workers -> {0} \cup Tid] /\ table \in [Workers -> Nat]
        /\ left \in [Workers -> SUBSET Slots] /\ slot \in [Workers -> Slots \cup {NoSlot}]
        /\ old \in [Workers -> {0} \cup Tid]
    BY DEF Pcs
  <2>4. commitPhase \in BOOLEAN
    OBVIOUS
  <2>5. /\ tableId \in Nat /\ tableEpoch \in 0..MaxEpoch
        /\ rwSetBuffer \subseteq Tid /\ epoch \in 1..MaxEpoch /\ phase \in {"READ", "COMMIT"}
    <3>1. MaxEpoch \in Nat \ {0}
      BY ExecutorAssumption
    <3> QED  BY <3>1
  <2>6. live \subseteq Tid /\ todo \subseteq live /\ assignment \in Assignments
    OBVIOUS
  <2> QED  BY <2>1, <2>2, <2>3, <2>4, <2>5, <2>6 DEF TypeOK
<1>2. Begun = {} /\ Done = {} /\ \A w \in Workers : pc[w] = "idle" /\ cur[w] = 0
  BY DEF Begun, Done
<1>3. WorkerPlace /\ SlotPlace /\ RwsetKept
  BY <1>2 DEF WorkerPlace, SlotPlace, RwsetKept, BeforeTable, WithTable
<1>4. TableOfEpoch /\ HolderWants /\ DealtWith
  BY <1>2, ExecutorAssumption DEF TableOfEpoch, HolderWants, DealtWith, WithTable, AfterTable, IsFor
<1> QED  BY <1>1, <1>3, <1>4 DEF ReserveInv, PlaceInv

(* They are in order always.                                               *)
LEMMA ReserveInvariance == Spec => []ReserveInv
BY ReserveInit, ReserveStep, PTL DEF Spec

(* In the commit phase all that the epoch's transactions asked for is done. *)
LEMMA AllDone ==
  ASSUME ReserveInv, phase = "COMMIT"
  PROVE  Done = live /\ Begun = live /\ \A t \in live : rwset[t] = Request(t).rwset
<1>1. Begun = live
  BY DEF Begun
<1>2. \A w \in Workers : cur[w] = 0
  BY DEF ReserveInv, PlaceInv, WorkerPlace
<1>3. Done = live
  BY <1>1, <1>2, TableTypes DEF Done, ReserveInv
<1> QED  BY <1>1, <1>3 DEF ReserveInv, PlaceInv, RwsetKept

(* Whatever the interleaving of the workers' loads, stores and exchanges   *)
(* and of their races to replace the table, the epoch has one table, all   *)
(* accesses of its transactions are reserved there when the commits start, *)
(* and each slot is held by a transaction of the epoch that accesses it.   *)
THEOREM Reservations == Spec => []ReservationsHold
<1>1. ReserveInv => ReservationsHold
  <2> SUFFICES ASSUME ReserveInv PROVE ReservationsHold
    OBVIOUS
  <2> USE TableTypes DEF ReserveInv
  <2>1. TypeOK
    BY DEF PlaceInv
  <2>2. OneTablePerEpoch
    BY AllDone DEF OneTablePerEpoch, TableOfEpoch, HasTable, WithTable, Reserving
  <2>3. ReservedByAccessor
    BY DEF ReservedByAccessor, HolderWants, Reserving, PlaceInv, RwsetKept
  <2>4. AccessReserved
    BY AllDone DEF AccessReserved, DealtWith, Reserving
  <2> QED  BY <2>1, <2>2, <2>3, <2>4 DEF ReservationsHold
<1> QED  BY <1>1, ReserveInvariance, PTL

-----------------------------------------------------------------------------
(* The buffer and the database.                                            *)

(* Whoever has buffered in this epoch has cleared the flag of the last.    *)
FlagCleared ==
  phase = "READ" =>
    /\ \A w \in Workers : pc[w] = "insert" => ~commitPhase
    /\ \A t \in Done : t \in rwSetBuffer /\ ~commitPhase

Committed == {t \in live \ todo : result[t] = "COMMIT"}

(* Only the first commit writes, and it writes everything.                 *)
FirstWrites ==
  phase = "COMMIT" /\ live # {} =>
    IF commitPhase
    THEN \E t \in Committed : \A k \in WriteKeys(rwset[t]) : store[k] = <<epoch, t>>
    ELSE Committed = {}

EffectInv == FlagCleared /\ BufferedUntilCommit /\ FirstWrites

(* The execution never loses an update to the clearing of the buffer.      *)
LEMMA EffectExecuteStep ==
  ASSUME ReserveInv, EffectInv, NEW w \in Workers, ExecuteStep(w)
  PROVE  EffectInv'
<1> USE TableTypes DEF ReserveInv, EffectInv, Goto
<1>1. phase = "READ" /\ phase' = "READ"
  BY PlaceCommitStep, InvokeFacts, StayFacts, PutFacts
     DEF PlaceInv, WorkerPlace, ExecuteStep, LoadPointer, TestEpoch, CreateTable, LoadSlot,
         StoreTid, Exchange, FinishReserve, BufferTest, BufferClear
<1> SUFFICES FlagCleared'
  BY <1>1 DEF BufferedUntilCommit, FirstWrites
<1>2. CASE Invoke(w)
  <2>1. UNCHANGED dbVars
    BY <1>2 DEF Invoke
  <2>2. \E l \in {"getTable", "buffer"} : pc' = [pc EXCEPT ![w] = l]
    BY <1>2, InvokeFacts
  <2>3. Done' = Done
    BY <1>2, InvokeFacts
  <2> QED  BY <1>1, <2>1, <2>2, <2>3 DEF dbVars, FlagCleared
<1>3. CASE BufferPut(w)
  <2>1. rwSetBuffer' = rwSetBuffer \cup {cur[w]} /\ UNCHANGED commitPhase
    BY <1>3 DEF BufferPut, BufferInsert
  <2>2. /\ pc' = [pc EXCEPT ![w] = "idle"] /\ pc[w] = "insert"
        /\ Done' \subseteq Done \cup {cur[w]}
    BY <1>3, PutFacts
  <2> QED  BY <1>1, <2>1, <2>2 DEF FlagCleared
<1>4. CASE ~Invoke(w) /\ ~BufferPut(w)
  <2>1. Done' = Done
    BY <1>4, StayFacts
  <2>2. CASE BufferTest(w)
    BY <1>1, <2>1, <2>2 DEF BufferTest, FlagCleared, dbVars
  <2>3. CASE BufferClear(w)
    BY <1>1, <2>1, <2>3 DEF BufferClear, clearBufferThreadSafe, FlagCleared
  <2>4. CASE ~BufferTest(w) /\ ~BufferClear(w)
    <3>1. /\ UNCHANGED dbVars
          /\ UNCHANGED pc \/ \E l \in BeforeTable \cup WithTable \cup {"buffer"} :
                               pc' = [pc EXCEPT ![w] = l]
      BY <1>4, <2>4
         DEF ExecuteStep, LoadPointer, TestEpoch, CreateTable, LoadSlot, StoreTid, Exchange,
             FinishReserve, BeforeTable, WithTable
    <3> QED
      BY <1>1, <2>1, <3>1 DEF FlagCleared, dbVars, BeforeTable, WithTable
  <2> QED  BY <2>2, <2>3, <2>4
<1> QED  BY <1>2, <1>3, <1>4

(* The commits find the flag cleared, and set it with the first of them.   *)
LEMMA EffectCommitStep ==
  ASSUME ReserveInv, EffectInv, (\E w \in Workers : Commit(w)) \/ StartCommit \/ NextEpoch
  PROVE  EffectInv'
<1> USE DEF EffectInv
<1>1. ASSUME NEW w \in Workers, Commit(w) PROVE EffectInv'
  <2>1. PICK t \in todo :
          /\ todo' = todo \ {t}
          /\ \/ UNCHANGED <<result, dbVars>> /\ result[t] = "ABORT_NO_RETRY"
             \/ result' = [result EXCEPT ![t] = "ABORT"] /\ UNCHANGED dbVars
             \/ CommitUpdate(t, rwset[t], epoch) /\ result' = [result EXCEPT ![t] = "COMMIT"]
    BY <1>1 DEF Commit
  <2>2. /\ phase = "COMMIT" /\ UNCHANGED <<phase, live, epoch, rwset>>
        /\ t \in live /\ live \subseteq Tid /\ todo \subseteq live
        /\ result \in [Tid -> Results] /\ commitPhase \in BOOLEAN
        /\ \A u \in Tid : WriteKeys(rwset[u]) \subseteq Keys
    BY <1>1 DEF Commit, ReserveInv, PlaceInv, TypeOK, WriteKeys
  <2>3. BufferedUntilCommit'
    BY <2>1, <2>2 DEF BufferedUntilCommit, CommitUpdate, dbVars
  <2>4. CASE UNCHANGED dbVars /\ result'[t] # "COMMIT"
    <3>1. Committed' = Committed
      BY <2>1, <2>2, <2>4 DEF Committed
    <3>2. FirstWrites'
      BY <2>2, <2>4, <3>1 DEF FirstWrites, dbVars, WriteKeys
    <3> QED  BY <2>2, <2>3, <3>2 DEF FlagCleared
  <2>5. CASE CommitUpdate(t, rwset[t], epoch) /\ result' = [result EXCEPT ![t] = "COMMIT"]
    <3>1. Committed' = Committed \cup {t}
      BY <2>1, <2>2, <2>5 DEF Committed, Results
    <3>2. commitPhase'
      BY <2>2, <2>5 DEF CommitUpdate
    <3>3. ASSUME commitPhase PROVE FirstWrites'
      BY <2>2, <2>5, <3>1, <3>2, <3>3 DEF CommitUpdate, FirstWrites, WriteKeys
    <3>4. ASSUME ~commitPhase PROVE FirstWrites'
      <4>1. \A k \in WriteKeys(rwset[t]) : store'[k] = <<epoch, t>>
        BY <2>2, <2>5, <3>4 DEF CommitUpdate
      <4> QED  BY <2>2, <3>1, <3>2, <4>1 DEF FirstWrites, WriteKeys
    <3>5. FirstWrites'
      BY <3>3, <3>4
    <3> QED  BY <2>2, <2>3, <3>5 DEF FlagCleared
  <2> QED  BY <2>1, <2>2, <2>4, <2>5
<1>2. CASE StartCommit
  <2>1. phase = "READ" /\ Done = live
    <3>1. phase = "READ" /\ todo = {} /\ \A w \in Workers : cur[w] = 0
      BY <1>2, PlaceCommitStep DEF StartCommit, ReserveInv
    <3> QED  BY <3>1, TableTypes DEF Done, Begun, ReserveInv
  <2>2. UNCHANGED dbVars /\ phase' = "COMMIT" /\ live' = live /\ todo' = live
    BY <1>2 DEF StartCommit
  <2>3. Committed' = {}
    BY <2>2 DEF Committed
  <2> QED
    BY <2>1, <2>2, <2>3 DEF FlagCleared, BufferedUntilCommit, FirstWrites, dbVars
<1>3. CASE NextEpoch
  <2>1. phase' = "READ" /\ Begun' = {}
    BY <1>3 DEF NextEpoch, Proceed, Begun
  <2>2. Done' = {} /\ \A w \in Workers : pc'[w] = "idle"
    BY <1>3, <2>1, PlaceCommitStep DEF Done, ReserveInv, NextEpoch, Proceed, workerVars
  <2> QED  BY <2>1, <2>2 DEF FlagCleared, BufferedUntilCommit, FirstWrites
<1> QED  BY <1>1, <1>2, <1>3

(* The buffer holds an epoch's updates until the commits, no clearing of   *)
(* the previous epoch's takes one with it, and an epoch with a committed   *)
(* transaction has all the writes of one in the database.                  *)
THEOREM CommitEffect == Spec => []CommitHasEffect
<1>1. Init => EffectInv
  BY DEF Init, DbInit, EffectInv, FlagCleared, BufferedUntilCommit, FirstWrites, Done, Begun
<1>2. ReserveInv /\ EffectInv /\ [Next]_vars => EffectInv'
  <2>1. ASSUME EffectInv, UNCHANGED vars PROVE EffectInv'
    BY <2>1 DEF vars, txVars, workerVars, dbVars, EffectInv, FlagCleared,
       BufferedUntilCommit, FirstWrites, Committed, Done, Begun
  <2> QED  BY <2>1, EffectExecuteStep, EffectCommitStep DEF Next
<1>3. ReserveInv /\ EffectInv => CommitHasEffect
  <2> SUFFICES ASSUME ReserveInv, EffectInv PROVE WritesOfOne
    BY DEF CommitHasEffect, EffectInv
  <2>1. live # {} => (phase = "COMMIT" /\ Committed # {} =>
          \E t \in Committed : \A k \in WriteKeys(rwset[t]) : store[k] = <<epoch, t>>)
    BY DEF EffectInv, FirstWrites
  <2> QED  BY <2>1 DEF WritesOfOne, Committed
<1> QED  BY <1>1, <1>2, <1>3, ReserveInvariance, PTL DEF Spec

-----------------------------------------------------------------------------
(* Serializability when one worker executes everything.                    *)

(* The table then holds, of those that have dealt with a slot, none that   *)
(* comes after one of them.                                                *)
FirstHolds ==
  /\ \A w \in Workers :
       /\ pc[w] \in WithTable =>
            \A s \in Request(cur[w]).rwset \ left[w] : reserved[s] <= cur[w]
       /\ pc[w] \in AfterTable /\ Request(cur[w]).ok =>
            \A s \in Request(cur[w]).rwset : reserved[s] <= cur[w]
       /\ pc[w] = "storeSlot" => reserved[slot[w]] = 0 \/ reserved[slot[w]] > cur[w]
       /\ pc[w] = "exchange" => reserved[slot[w]] = cur[w]
  /\ \A t \in Done : Request(t).ok =>
       \A s \in Request(t).rwset : reserved[s] <= t

(* Whoever has been committed passed the analysis of its dependencies.     *)
CommittedMay == phase = "COMMIT" => \A t \in Committed : MayCommit(t)

AloneInv == (Alone => FirstHolds) /\ CommittedMay

(* Then no two workers are busy.                                           *)
LEMMA OneBusy ==
  ASSUME PlaceInv, Alone, NEW w \in Workers, pc[w] # "idle",
         NEW v \in Workers, pc[v] # "idle"
  PROVE  v = w
BY DEF PlaceInv, WorkerPlace, TypeOK, Alone

(* A store of the only busy worker lowers the ID that a slot holds.        *)
LEMMA FirstStore ==
  ASSUME ReserveInv, FirstHolds, Alone, NEW w \in Workers, pc[w] \in {"storeSlot", "exchange"},
         StoreSlot(slot[w], cur[w])
  PROVE  /\ \A s \in Slots : reserved'[s] = IF s = slot[w] THEN cur[w] ELSE reserved[s]
         /\ \A t \in Done : Request(t).ok =>
              \A s \in Request(t).rwset : reserved'[s] <= t
<1> USE TableTypes DEF ReserveInv
<1>1. \A s \in Slots : reserved'[s] = IF s = slot[w] THEN cur[w] ELSE reserved[s]
  BY DEF StoreSlot
<1>2. ASSUME NEW t \in Done, Request(t).ok, NEW s \in Request(t).rwset
      PROVE  reserved'[s] <= t
  <2>1. reserved[s] # 0 /\ reserved[s] <= t /\ s \in Slots /\ t \in Nat /\ reserved[s] \in Nat
    <3>1. t \in Tid /\ s \in Slots /\ t \in Nat
      BY <1>2
    <3>2. reserved[s] \in {0} \cup Tid
      BY <3>1
    <3> QED  BY <1>2, <3>1, <3>2 DEF DealtWith, FirstHolds
  <2>2. s = slot[w] => cur[w] <= reserved[s] /\ cur[w] \in Nat
    <3>1. cur[w] \in Nat
      BY DEF WorkerPlace
    <3> QED  BY <2>1, <3>1 DEF FirstHolds
  <2> QED  BY <1>1, <2>1, <2>2
<1> QED  BY <1>1, <1>2

(* The execution keeps the smallest IDs.                                   *)
LEMMA FirstExecuteStep ==
  ASSUME ReserveInv, FirstHolds, Alone, NEW w \in Workers, ExecuteStep(w)
  PROVE  FirstHolds'
<1> USE TableTypes DEF ReserveInv, BeforeTable, WithTable, AfterTable, Request, Goto
<1>1. CASE Invoke(w)
  <2>1. /\ \E t \in todo : cur' = [cur EXCEPT ![w] = t]
              /\ \/ pc' = [pc EXCEPT ![w] = "getTable"]
                    /\ left' = [left EXCEPT ![w] = Request(t).rwset]
                 \/ ~Request(t).ok /\ pc' = [pc EXCEPT ![w] = "buffer"] /\ UNCHANGED left
        /\ Done' = Done /\ UNCHANGED <<assignment, slot, tableVars>>
    BY <1>1, InvokeFacts
  <2> QED  BY <2>1 DEF FirstHolds, tableVars
<1>2. CASE BufferPut(w)
  <2>1. /\ UNCHANGED <<assignment, left, slot, tableVars>>
        /\ pc' = [pc EXCEPT ![w] = "idle"] /\ cur' = [cur EXCEPT ![w] = 0]
        /\ pc[w] = "insert" /\ Done' \subseteq Done \cup {cur[w]}
    BY <1>2, PutFacts
  <2> QED  BY <2>1 DEF FirstHolds, tableVars
<1>3. CASE ~Invoke(w) /\ ~BufferPut(w)
  <2>1. UNCHANGED <<epoch, assignment, cur>> /\ Done' = Done
    BY <1>3, StayFacts
  <2>2. pc[w] # "idle" /\ \A v \in Workers : v # w => pc[v] = "idle"
    <3>1. pc[w] # "idle"
      BY <1>3 DEF ExecuteStep, LoadPointer, TestEpoch, CreateTable, LoadSlot, StoreTid, Exchange,
         FinishReserve, BufferTest, BufferClear
    <3> QED  BY <3>1, OneBusy
  <2>3. cur[w] \in Tid /\ cur[w] \in Nat
    BY <2>2 DEF WorkerPlace
  <2>4. CASE LoadPointer(w)
    BY <2>1, <2>4 DEF LoadPointer, FirstHolds, tableVars
  <2>5. CASE TestEpoch(w)
    BY <2>1, <2>5 DEF TestEpoch, FirstHolds, SlotPlace, tableVars
  <2>6. CASE CreateTable(w)
    <3>1. /\ pc[w] = "createTable" /\ pc' = [pc EXCEPT ![w] = "reserve"] /\ left' = left
          /\ left[w] = Request(cur[w]).rwset /\ slot' = slot
      BY <2>6 DEF CreateTable, SlotPlace
    <3>2. CASE UNCHANGED tableVars
      BY <2>1, <3>1, <3>2 DEF FirstHolds, tableVars
    <3>3. CASE ~IsFor(epoch)
      <4>1. \A t \in Done : ~Request(t).ok
        BY <3>3 DEF TableOfEpoch, HasTable
      <4> QED  BY <2>1, <2>2, <3>1, <4>1 DEF FirstHolds
    <3> QED  BY <2>6, <3>2, <3>3 DEF CreateTable, CreateUnlessDone
  <2>7. CASE LoadSlot(w)
    <3>1. PICK s \in left[w] :
            \/ /\ left' = [left EXCEPT ![w] = @ \ {s}] /\ UNCHANGED <<pc, slot>>
               /\ reserved[s] <= cur[w]
            \/ /\ pc' = [pc EXCEPT ![w] = "storeSlot"] /\ UNCHANGED left
               /\ slot' = [slot EXCEPT ![w] = s]
               /\ ~(reserved[s] <= cur[w] /\ reserved[s] # 0)
      BY <2>7 DEF LoadSlot, NextSlots, Taken
    <3>2. pc[w] = "reserve" /\ UNCHANGED tableVars
      BY <2>7 DEF LoadSlot
    <3>3. reserved[s] \in Nat
      <4>1. s \in Slots
        OBVIOUS
      <4> QED  BY <4>1
    <3> QED  BY <2>1, <2>2, <2>3, <3>1, <3>2, <3>3 DEF FirstHolds, tableVars
  <2>8. CASE StoreTid(w)
    <3>1. /\ pc[w] = "storeSlot" /\ StoreSlot(slot[w], cur[w])
          /\ pc' = [pc EXCEPT ![w] = "exchange"] /\ UNCHANGED <<left, slot>>
      BY <2>8 DEF StoreTid
    <3>2. /\ \A s \in Slots : reserved'[s] = IF s = slot[w] THEN cur[w] ELSE reserved[s]
          /\ \A t \in Done : Request(t).ok => \A s \in Request(t).rwset : reserved'[s] <= t
      BY <3>1, FirstStore
    <3>3. slot[w] \in left[w]
      BY <3>1 DEF SlotPlace
    <3> QED  BY <2>1, <2>2, <2>3, <3>1, <3>2, <3>3 DEF FirstHolds
  <2>9. CASE Exchange(w)
    <3>1. /\ pc[w] = "exchange" /\ pc' = [pc EXCEPT ![w] = "reserve"]
          /\ \/ StoreSlot(slot[w], cur[w]) /\ left' = [left EXCEPT ![w] = @ \ {slot[w]}]
             \/ UNCHANGED <<reserved, left>>
      BY <2>9 DEF Exchange
    <3>2. /\ \A s \in Slots : reserved'[s] = reserved[s]
          /\ \A t \in Done : Request(t).ok => \A s \in Request(t).rwset : reserved'[s] <= t
      <4>1. reserved[slot[w]] = cur[w]
        BY <3>1 DEF FirstHolds
      <4>2. CASE StoreSlot(slot[w], cur[w])
        BY <3>1, <4>1, <4>2, FirstStore
      <4> QED  BY <3>1, <4>2 DEF FirstHolds
    <3>3. slot[w] \in left[w] /\ reserved[slot[w]] = cur[w]
      BY <3>1 DEF SlotPlace, FirstHolds
    <3> QED  BY <2>1, <2>2, <2>3, <3>1, <3>2, <3>3 DEF FirstHolds
  <2>10. CASE FinishReserve(w)
    BY <2>1, <2>10 DEF FinishReserve, FirstHolds, tableVars
  <2>11. CASE BufferTest(w)
    BY <2>1, <2>11 DEF BufferTest, FirstHolds, tableVars
  <2>12. CASE BufferClear(w)
    BY <2>1, <2>12 DEF BufferClear, FirstHolds, tableVars
  <2> QED
    BY <1>3, <2>4, <2>5, <2>6, <2>7, <2>8, <2>9, <2>10, <2>11, <2>12 DEF ExecuteStep
<1> QED  BY <1>1, <1>2, <1>3

(* The commits change nothing that the analysis of dependencies reads.     *)
LEMMA AloneCommitStep ==
  ASSUME ReserveInv, AloneInv, (\E w \in Workers : Commit(w)) \/ StartCommit \/ NextEpoch
  PROVE  AloneInv'
<1>1. /\ \A w \in Workers : pc[w] = "idle" /\ cur[w] = 0
      /\ UNCHANGED <<assignment, workerVars, tableVars>>
  BY PlaceCommitStep DEF ReserveInv, Commit, StartCommit, NextEpoch, Proceed
<1>2. Done' \subseteq Done
  BY <1>1 DEF Commit, StartCommit, NextEpoch, Proceed, Done, Begun, workerVars
<1>3. (Alone => FirstHolds)'
  BY <1>1, <1>2
     DEF AloneInv, Alone, FirstHolds, Request, Home, workerVars, tableVars, WithTable, AfterTable
<1>4. ASSUME NEW w \in Workers, Commit(w) PROVE CommittedMay'
  <2>1. PICK t \in todo :
          /\ todo' = todo \ {t}
          /\ \/ UNCHANGED result /\ result[t] = "ABORT_NO_RETRY"
             \/ result' = [result EXCEPT ![t] = "ABORT"]
             \/ MayCommit(t) /\ result' = [result EXCEPT ![t] = "COMMIT"]
    BY <1>4 DEF Commit
  <2>2. /\ phase = "COMMIT" /\ UNCHANGED <<live, rwset, reserved>> /\ t \in live
        /\ live \subseteq Tid /\ result \in [Tid -> Results]
    BY <1>4 DEF Commit, ReserveInv, PlaceInv, TypeOK, tableVars
  <2>3. \A u \in Committed' : u \in Committed \/ (u = t /\ MayCommit(t))
    BY <2>1, <2>2 DEF Committed
  <2>4. \A u : MayCommit(u) => MayCommit(u)'
    BY <2>2 DEF MayCommit, waw, war, raw, Earlier, ReadKeys, WriteKeys
  <2> QED  BY <2>2, <2>3, <2>4 DEF AloneInv, CommittedMay
<1>5. CASE StartCommit
  BY <1>3, <1>5 DEF StartCommit, AloneInv, CommittedMay, Committed
<1>6. CASE NextEpoch
  BY <1>3, <1>6 DEF NextEpoch, Proceed, AloneInv, CommittedMay
<1> QED  BY <1>3, <1>4, <1>5, <1>6 DEF AloneInv

(* So the slots hold the first accessors, and the committed passed.        *)
LEMMA AloneInvariance == Spec => []AloneInv
<1>1. Init => AloneInv
  BY DEF Init, AloneInv, FirstHolds, CommittedMay, WithTable, AfterTable, Done, Begun
<1>2. ReserveInv /\ AloneInv /\ [Next]_vars => AloneInv'
  <2> SUFFICES ASSUME ReserveInv, AloneInv, [Next]_vars PROVE AloneInv'
    OBVIOUS
  <2>1. ASSUME NEW w \in Workers, ExecuteStep(w) PROVE AloneInv'
    <3>1. Alone' <=> Alone
      <4>1. UNCHANGED assignment
        BY <2>1, InvokeFacts, StayFacts, PutFacts DEF ReserveInv
      <4> QED  BY <4>1 DEF Alone, Home
    <3>2. phase' = "READ"
      <4>1. phase' = phase /\ (pc[w] # "idle" \/ phase' = "READ")
        BY <2>1, PlaceStep, InvokeFacts, StayFacts, PutFacts
           DEF ReserveInv, Next, ExecuteStep, LoadPointer, TestEpoch, CreateTable, LoadSlot,
               StoreTid, Exchange, FinishReserve, BufferTest, BufferClear
      <4> QED  BY <4>1 DEF ReserveInv, PlaceInv, WorkerPlace
    <3> QED  BY <2>1, <3>1, <3>2, FirstExecuteStep DEF AloneInv, CommittedMay
  <2>2. CASE UNCHANGED vars
    BY <2>2 DEF vars, txVars, workerVars, tableVars, AloneInv, Alone, FirstHolds, CommittedMay,
       Committed, MayCommit, waw, war, raw, Earlier, ReadKeys, WriteKeys, Done, Begun, Request,
       Home
  <2> QED  BY <2>1, <2>2, AloneCommitStep DEF Next
<1> QED  BY <1>1, <1>2, ReserveInvariance, PTL DEF Spec

-----------------------------------------------------------------------------
(* The commit rule.                                                        *)

(* What the rule rests on: every slot that a transaction of C accesses is  *)
(* held by a transaction that does not come after it.                      *)
HeldByFirst(C) ==
  \A t \in C : \A s \in rwset[t] : reserved[s] # 0 /\ reserved[s] <= t

(* The serial order: first those that read what an earlier one writes (the *)
(* raw transactions, which then have no war), the latest first; then the   *)
(* others, the earliest first.                                             *)
Reordered(t) == raw(rwset[t], t)

Precedes(t, u) ==
  IF Reordered(t) THEN ~Reordered(u) \/ u < t ELSE ~Reordered(u) /\ t < u

Before(t, u) == ReadKeys(rwset[t]) \cap WriteKeys(rwset[u]) # {}

(* It is an order.                                                         *)
LEMMA PrecedesOrder ==
  ASSUME NEW C \in SUBSET Nat
  PROVE  /\ \A t \in C : ~Precedes(t, t)
         /\ \A t, u \in C : t # u => Precedes(t, u) \/ Precedes(u, t)
         /\ \A t, u, v \in C : Precedes(t, u) /\ Precedes(u, v) => Precedes(t, v)
BY DEF Precedes

(* No two that may be committed write the same key.                        *)
LEMMA WritesDisjoint ==
  ASSUME NEW C \in SUBSET Nat, HeldByFirst(C), \A t \in C : MayCommit(t),
         \A t \in C : \A s \in rwset[t] : reserved[s] \in Nat,
         NEW t \in C, NEW u \in C, t # u
  PROVE  WriteKeys(rwset[t]) \cap WriteKeys(rwset[u]) = {}
<1>1. ASSUME NEW x \in C, NEW y \in C, x < y, NEW k \in WriteKeys(rwset[x]) \cap WriteKeys(rwset[y])
      PROVE  FALSE
  <2>1. reserved[<<"write", k>>] # 0 /\ reserved[<<"write", k>>] <= x
        /\ reserved[<<"write", k>>] \in Nat
    BY <1>1 DEF HeldByFirst, WriteKeys
  <2>2. waw(rwset[y], y)
    BY <1>1, <2>1 DEF waw, Earlier
  <2> QED  BY <2>2 DEF MayCommit
<1>2. t < u \/ u < t
  OBVIOUS
<1> QED  BY <1>1, <1>2

(* Who reads a key comes before who writes it.                             *)
LEMMA ReadsBefore ==
  ASSUME NEW C \in SUBSET Nat, HeldByFirst(C), \A t \in C : MayCommit(t),
         \A t \in C : \A s \in rwset[t] : reserved[s] \in Nat,
         NEW t \in C, NEW u \in C, t # u, Before(t, u)
  PROVE  Precedes(t, u)
<1>1. PICK k \in ReadKeys(rwset[t]) : k \in WriteKeys(rwset[u])
  BY DEF Before
<1>2. CASE t < u
  <2>1. reserved[<<"read", k>>] # 0 /\ reserved[<<"read", k>>] <= t
        /\ reserved[<<"read", k>>] \in Nat
    BY <1>1 DEF HeldByFirst, ReadKeys
  <2>2. war(rwset[u], u)
    BY <1>1, <1>2, <2>1 DEF war, Earlier
  <2>3. ~Reordered(u)
    BY <2>2 DEF MayCommit, Reordered
  <2> QED  BY <1>2, <2>3 DEF Precedes
<1>3. CASE u < t
  <2>1. reserved[<<"write", k>>] # 0 /\ reserved[<<"write", k>>] <= u
        /\ reserved[<<"write", k>>] \in Nat
    BY <1>1 DEF HeldByFirst, WriteKeys
  <2>2. Reordered(t)
    BY <1>1, <1>3, <2>1 DEF Reordered, raw, Earlier
  <2> QED  BY <1>3, <2>2 DEF Precedes
<1> QED  BY <1>2, <1>3

(* A finite set with an order can be numbered along it.                    *)
LEMMA Numbered ==
  ASSUME NEW C \in SUBSET Nat, IsFiniteSet(C)
  PROVE  \E place \in [C -> 1..Cardinality(C)] :
           \A t, u \in C : t # u =>
             place[t] # place[u] /\ (Precedes(t, u) => place[t] < place[u])
<1> DEFINE UpTo(t) == {u \in C : u = t \/ Precedes(u, t)}
           place == [t \in C |-> Cardinality(UpTo(t))]
<1>1. ASSUME NEW t \in C
      PROVE  IsFiniteSet(UpTo(t)) /\ Cardinality(UpTo(t)) \in 1..Cardinality(C)
  <2>1. UpTo(t) \in SUBSET C /\ UpTo(t) # {}
    OBVIOUS
  <2>2. IsFiniteSet(UpTo(t)) /\ Cardinality(UpTo(t)) <= Cardinality(C)
    BY <2>1, FS_Subset
  <2>3. Cardinality(UpTo(t)) \in Nat /\ Cardinality(UpTo(t)) # 0 /\ Cardinality(C) \in Nat
    BY <2>1, <2>2, FS_CardinalityType, FS_EmptySet
  <2> QED  BY <2>2, <2>3
<1>2. ASSUME NEW t \in C, NEW u \in C, t # u, Precedes(t, u)
      PROVE  Cardinality(UpTo(t)) < Cardinality(UpTo(u))
  <2>1. UpTo(t) \in SUBSET UpTo(u)
    BY <1>2, PrecedesOrder
  <2>2. u \in UpTo(u) /\ u \notin UpTo(t)
    BY <1>2, PrecedesOrder
  <2>3. /\ Cardinality(UpTo(t)) <= Cardinality(UpTo(u))
        /\ Cardinality(UpTo(t)) # Cardinality(UpTo(u))
    BY <1>1, <2>1, <2>2, FS_Subset
  <2>4. Cardinality(UpTo(t)) \in Nat /\ Cardinality(UpTo(u)) \in Nat
    BY <1>1
  <2> HIDE DEF UpTo
  <2> QED  BY <2>3, <2>4
<1>3. place \in [C -> 1..Cardinality(C)]
  BY <1>1
<1>4. ASSUME NEW t \in C, NEW u \in C, t # u
      PROVE  place[t] # place[u] /\ (Precedes(t, u) => place[t] < place[u])
  <2>1. Cardinality(UpTo(t)) \in Nat /\ Cardinality(UpTo(u)) \in Nat
    BY <1>1
  <2>2. Precedes(t, u) \/ Precedes(u, t)
    BY <1>4, PrecedesOrder
  <2>3. /\ Precedes(t, u) => Cardinality(UpTo(t)) < Cardinality(UpTo(u))
        /\ Precedes(u, t) => Cardinality(UpTo(u)) < Cardinality(UpTo(t))
    BY <1>2, <1>4
  <2>4. place[t] = Cardinality(UpTo(t)) /\ place[u] = Cardinality(UpTo(u))
    OBVIOUS
  <2> HIDE DEF UpTo, place
  <2> QED  BY <2>1, <2>2, <2>3, <2>4
<1> HIDE DEF place, UpTo
<1> QED  BY <1>3, <1>4

(* With a single worker the table keeps, of each key, the first reader and *)
(* the first writer of the epoch; and the rule of the commits, no waw and  *)
(* not both war and raw, lets through only what can be put into a serial   *)
(* order, whatever the transactions read and write.                        *)
THEOREM AloneSerializable == Spec => []SerializableAlone
<1>1. ReserveInv /\ AloneInv => SerializableAlone
  <2> SUFFICES ASSUME ReserveInv, AloneInv, Alone, phase = "COMMIT"
               PROVE  FirstAccessKept /\ Serializable
    BY DEF SerializableAlone, FirstAccessKept, Serializable
  <2>1. Done = live /\ Begun = live /\ \A t \in live : rwset[t] = Request(t).rwset
    BY AllDone
  <2>2. ASSUME NEW t \in live, NEW s \in rwset[t]
        PROVE  /\ Request(t).ok /\ s \in Slots /\ reserved[s] \in Nat
               /\ reserved[s] # 0 /\ reserved[s] <= t
    <3>1. t \in Tid /\ s \in Request(t).rwset /\ s \in Slots
      BY <2>1, <2>2, TableTypes DEF ReserveInv
    <3>2. Request(t).ok
      BY <3>1, RequestType DEF ReserveInv, PlaceInv
    <3>3. reserved[s] \in Nat
      BY <3>1, TableTypes DEF ReserveInv
    <3> QED  BY <2>1, <2>2, <3>1, <3>2, <3>3 DEF ReserveInv, DealtWith, AloneInv, FirstHolds
  <2>3. live \subseteq Nat /\ live \subseteq Tid /\ IsFiniteSet(Tid)
    <3>1. live \subseteq Tid /\ \A t \in Tid : t \in Nat
      BY TableTypes DEF ReserveInv
    <3>2. IsFiniteSet(Tid)
      BY TidAssumption, FS_Interval DEF Tid
    <3> QED  BY <3>1, <3>2
  <2>4. FirstAccessKept
    <3> SUFFICES ASSUME IsFor(epoch), NEW s \in Slots PROVE reserved[s] = FirstAccessor(s)
      BY DEF FirstAccessKept
    <3> DEFINE T == {t \in Reserving : s \in rwset[t]}
    <3>1. T \subseteq live /\ \A t \in T : reserved[s] # 0 /\ reserved[s] <= t
      BY <2>2 DEF Reserving
    <3>2. reserved[s] # 0 => reserved[s] \in T
      BY <2>1 DEF ReserveInv, HolderWants, Reserving
    <3>3. CASE T = {}
      BY <3>2, <3>3 DEF FirstAccessor
    <3>4. CASE T # {}
      <4>1. reserved[s] \in T /\ \A u \in T : reserved[s] <= u
        BY <3>1, <3>2, <3>4
      <4>2. \A t \in T : (\A u \in T : t <= u) => t = reserved[s]
        <5>1. \A t \in T : t \in Nat
          BY <2>3, <3>1
        <5> HIDE DEF T
        <5> QED  BY <4>1, <5>1
      <4>3. (CHOOSE t \in T : \A u \in T : t <= u) = reserved[s]
        <5> HIDE DEF T
        <5> QED  BY <4>1, <4>2
      <4> QED  BY <3>4, <4>3 DEF FirstAccessor
    <3> QED  BY <3>3, <3>4
  <2>5. Serializable
    <3>1. Committed \in SUBSET Nat /\ Committed \subseteq live /\ IsFiniteSet(Committed)
      BY <2>3, FS_Subset DEF Committed
    <3>2. /\ HeldByFirst(Committed) /\ \A t \in Committed : MayCommit(t)
          /\ \A t \in Committed : \A s \in rwset[t] : reserved[s] \in Nat
      BY <2>2, <3>1 DEF HeldByFirst, AloneInv, CommittedMay
    <3>3. \A t, u \in Committed : t # u => WriteKeys(rwset[t]) \cap WriteKeys(rwset[u]) = {}
      BY <3>1, <3>2, WritesDisjoint
    <3>4. \A t, u \in Committed : t # u /\ Before(t, u) => Precedes(t, u)
      BY <3>1, <3>2, ReadsBefore
    <3>5. PICK place \in [Committed -> 1..Cardinality(Committed)] :
            \A t, u \in Committed : t # u =>
              place[t] # place[u] /\ (Precedes(t, u) => place[t] < place[u])
      BY <3>1, Numbered
    <3>6. \A t, u \in Committed : t # u =>
            place[t] # place[u] /\ (Before(t, u) => place[t] < place[u])
      BY <3>4, <3>5
    <3> QED  BY <3>3, <3>5, <3>6 DEF Serializable, Committed, Before
  <2> QED  BY <2>4, <2>5
<1> QED  BY <1>1, ReserveInvariance, AloneInvariance, PTL
=============================================================================
