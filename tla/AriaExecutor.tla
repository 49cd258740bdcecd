---------------------------- MODULE AriaExecutor ----------------------------
(***************************************************************************)
(* The execution and the commit of the transactions of successive epochs   *)
(* by concurrent workers (TransactionExecutorImpl), on top of the reserve  *)
(* table and the database.                                                 *)
(*                                                                         *)
(* The coordinator is reduced to what AriaCoordinator shows it to provide: *)
(* the commits of an epoch start when all of its transactions have been    *)
(* executed, and the next epoch when all have been committed.  A worker    *)
(* takes the transactions of its list in some order, one at a time.  The   *)
(* transaction manager is reduced to what it does with the outcome: the    *)
(* aborted transactions are reset and join the next epoch's.               *)
(***************************************************************************)
EXTENDS ReserveTable, Database, FiniteSets

CONSTANTS
  Workers,
  MaxEpoch,     \* bound: the last epoch that is processed
  Requests,     \* what a payload may ask for: [ok : BOOLEAN, rwset : SUBSET Slots]
  Assignments,  \* what the transactions ask for and which workers get them:
                \* [request : [Tid -> Requests], home : [Tid -> Workers]]
  Arrival       \* the epoch for which a transaction arrives from the clients

ASSUME ExecutorAssumption ==
  /\ MaxEpoch \in Nat \ {0}
  /\ Requests \subseteq [ok : BOOLEAN, rwset : SUBSET Slots]
  /\ \A r \in Requests : ~r.ok => r.rwset = {}
  /\ Assignments \subseteq [request : [Tid -> Requests], home : [Tid -> Workers]]
  /\ Arrival \in [Tid -> 1..MaxEpoch]

VARIABLES
  epoch,        \* the epoch being processed
  phase,        \* "READ": executeList runs; "COMMIT": commitList runs
  live,         \* the transactions of the epoch
  todo,         \* those not yet taken up in this phase
  assignment,   \* the payload of each transaction and its worker; never changes
  rwset,        \* Transaction::getRWSet
  result,       \* Transaction::getTransactionResult
  \* the workers' threads
  pc, cur,      \* where a worker is, with which transaction
  table,        \* TransactionExecutorImpl::reserveTable
  left,         \* the slots of cur that are still to be reserved
  slot, old     \* the slot being reserved, and old_rts or old_wts

txVars     == <<rwset, result>>
workerVars == <<pc, cur, table, left, slot, old>>
vars == <<epoch, phase, live, todo, assignment, txVars, workerVars, tableVars, dbVars>>

\* the TransactionPayload of a transaction, and the worker that gets it
Request(t) == assignment.request[t]
Home(t)    == assignment.home[t]

Results == {"PENDING", "COMMIT", "ABORT", "ABORT_NO_RETRY"}

Pcs == {"idle", "getTable", "testEpoch", "createTable", "reserve", "storeSlot",
        "exchange", "buffer", "clear", "insert"}

NoSlot == <<"none">>

Init ==
  /\ TableInit /\ DbInit
  /\ epoch = 1 /\ phase = "READ"
  /\ live = {t \in Tid : Arrival[t] = 1} /\ todo = live
  /\ assignment \in Assignments
  /\ rwset = [t \in Tid |-> {}]
  /\ result = [t \in Tid |-> "PENDING"]
  /\ pc = [w \in Workers |-> "idle"]
  /\ cur = [w \in Workers |-> 0]
  /\ table = [w \in Workers |-> 0]
  /\ left = [w \in Workers |-> {}]
  /\ slot = [w \in Workers |-> NoSlot]
  /\ old = [w \in Workers |-> 0]

Goto(w, label) == pc' = [pc EXCEPT ![w] = label]

-----------------------------------------------------------------------------
(* executeList, one iteration.  The helper of the chaincode object is      *)
(* destroyed at its end in each case, and that buffers the rwset.          *)

(* The chaincode fills the rwset with what the payload asks for.  It fails *)
(* only for a name it does not know, before it has touched the rwset.      *)
InvokeChaincode(t) == rwset' = [rwset EXCEPT ![t] = Request(t).rwset]

Invoke(w) ==
  /\ phase = "READ" /\ pc[w] = "idle"
  /\ \E t \in todo :
       /\ Home(t) = w
       /\ todo' = todo \ {t}
       /\ cur' = [cur EXCEPT ![w] = t]
       /\ InvokeChaincode(t)
       /\ IF Request(t).ok
          THEN /\ left' = [left EXCEPT ![w] = Request(t).rwset]
               /\ Goto(w, "getTable")
               /\ UNCHANGED result
          ELSE /\ result' = [result EXCEPT ![t] = "ABORT_NO_RETRY"]
               /\ Goto(w, "buffer")
               /\ UNCHANGED left
  /\ UNCHANGED <<epoch, phase, live, assignment, table, slot, old, tableVars, dbVars>>

\* The pointer is loaded; the epoch is read through it one step later.
LoadPointer(w) ==
  /\ pc[w] = "getTable"
  /\ table' = [table EXCEPT ![w] = tableId]
  /\ Goto(w, "testEpoch")
  /\ UNCHANGED <<epoch, phase, live, todo, assignment, txVars, cur, left, slot, old,
                 tableVars, dbVars>>

(* If the table has been replaced in between, the read is one of freed     *)
(* memory and the test goes either way.                                    *)
TestEpoch(w) ==
  /\ pc[w] = "testEpoch"
  /\ \/ /\ table[w] # 0
        /\ table[w] # tableId \/ IsFor(epoch)
        /\ table' = [table EXCEPT ![w] = tableId]
        /\ Goto(w, "reserve")
     \/ /\ table[w] # tableId \/ ~IsFor(epoch)
        /\ Goto(w, "createTable")
        /\ UNCHANGED table
  /\ UNCHANGED <<epoch, phase, live, todo, assignment, txVars, cur, left, slot, old,
                 tableVars, dbVars>>

CreateTable(w) ==
  /\ pc[w] = "createTable"
  /\ CreateUnlessDone(epoch)
  /\ table' = [table EXCEPT ![w] = tableId']
  /\ Goto(w, "reserve")
  /\ UNCHANGED <<epoch, phase, live, todo, assignment, txVars, cur, left, slot, old, dbVars>>

\* The slots of the reads come before those of the writes.
NextSlots(w) == IF left[w] \cap Reads # {} THEN left[w] \cap Reads ELSE left[w]

\* A loop of reserveRWset takes up a slot, loads it and breaks if it is taken.
LoadSlot(w) ==
  /\ pc[w] = "reserve"
  /\ \E s \in NextSlots(w) :
       IF Taken(reserved[s], cur[w])
       THEN /\ left' = [left EXCEPT ![w] = @ \ {s}]
            /\ UNCHANGED <<slot, old, pc>>
       ELSE /\ slot' = [slot EXCEPT ![w] = s]
            /\ old' = [old EXCEPT ![w] = reserved[s]]
            /\ Goto(w, "storeSlot")
            /\ UNCHANGED left
  /\ UNCHANGED <<epoch, phase, live, todo, assignment, txVars, cur, table, tableVars, dbVars>>

StoreTid(w) ==
  /\ pc[w] = "storeSlot"
  /\ StoreSlot(slot[w], cur[w])
  /\ Goto(w, "exchange")
  /\ UNCHANGED <<epoch, phase, live, todo, assignment, txVars, cur, table, left, slot, old,
                 tableId, tableEpoch, dbVars>>

(* compare_exchange_weak succeeds only if the slot holds the value loaded  *)
(* before, and may fail even then.  A failure starts over with the load.   *)
Exchange(w) ==
  /\ pc[w] = "exchange"
  /\ \/ /\ reserved[slot[w]] = old[w]
        /\ StoreSlot(slot[w], cur[w])
        /\ left' = [left EXCEPT ![w] = @ \ {slot[w]}]
     \/ UNCHANGED <<reserved, left>>
  /\ slot' = [slot EXCEPT ![w] = NoSlot]
  /\ old' = [old EXCEPT ![w] = 0]
  /\ Goto(w, "reserve")
  /\ UNCHANGED <<epoch, phase, live, todo, assignment, txVars, cur, table,
                 tableId, tableEpoch, dbVars>>

FinishReserve(w) ==
  /\ pc[w] = "reserve" /\ left[w] = {}
  /\ Goto(w, "buffer")
  /\ UNCHANGED <<epoch, phase, live, todo, assignment, txVars, cur, table, left, slot, old,
                 tableVars, dbVars>>

-----------------------------------------------------------------------------
(* ~CCORMHelper: bufferUpdates.                                            *)

BufferTest(w) ==
  /\ pc[w] = "buffer"
  /\ Goto(w, IF commitPhase THEN "clear" ELSE "insert")
  /\ UNCHANGED <<epoch, phase, live, todo, assignment, txVars, cur, table, left, slot, old,
                 tableVars, dbVars>>

BufferClear(w) ==
  /\ pc[w] = "clear"
  /\ clearBufferThreadSafe
  /\ Goto(w, "insert")
  /\ UNCHANGED <<epoch, phase, live, todo, assignment, txVars, cur, table, left, slot, old,
                 tableVars, store>>

BufferPut(w) ==
  /\ pc[w] = "insert"
  /\ BufferInsert(cur[w])
  /\ cur' = [cur EXCEPT ![w] = 0]
  /\ Goto(w, "idle")
  /\ UNCHANGED <<epoch, phase, live, todo, assignment, txVars, table, left, slot, old,
                 tableVars, commitPhase, store>>

-----------------------------------------------------------------------------
(* The coordinator: all of the epoch's transactions have been executed.    *)
StartCommit ==
  /\ phase = "READ" /\ todo = {}
  /\ \A w \in Workers : pc[w] = "idle"
  /\ phase' = "COMMIT" /\ todo' = live
  /\ UNCHANGED <<epoch, live, assignment, txVars, workerVars, tableVars, dbVars>>

(* commitList, one iteration.  The tables do not change in this phase and  *)
(* commitUpdate serializes the workers, hence one step.                    *)
MayCommit(t) ==
  /\ ~waw(rwset[t], t)
  /\ ~war(rwset[t], t) \/ ~raw(rwset[t], t)

Commit(w) ==
  /\ phase = "COMMIT"
  /\ \E t \in todo :
       /\ Home(t) = w
       /\ todo' = todo \ {t}
       /\ \/ /\ result[t] = "ABORT_NO_RETRY"
             /\ UNCHANGED <<result, dbVars>>
          \/ /\ result[t] # "ABORT_NO_RETRY" /\ ~MayCommit(t)
             /\ result' = [result EXCEPT ![t] = "ABORT"]
             /\ UNCHANGED dbVars
          \/ /\ result[t] # "ABORT_NO_RETRY" /\ MayCommit(t)
             /\ CommitUpdate(t, rwset[t], epoch)
             /\ result' = [result EXCEPT ![t] = "COMMIT"]
  /\ UNCHANGED <<epoch, phase, live, assignment, rwset, workerVars, tableVars>>

(* The transaction manager, when the epoch is finished: what was aborted   *)
(* is reset and retried in the next epoch, with what arrived for it.       *)
Aborted == {t \in live : result[t] = "ABORT"}

\* The next epoch with T as its transactions, those in U to be executed.
Proceed(T, U) ==
  /\ phase = "COMMIT" /\ todo = {} /\ epoch < MaxEpoch
  /\ epoch' = epoch + 1 /\ phase' = "READ"
  /\ live' = T /\ todo' = U
  /\ rwset' = [t \in Tid |-> IF t \in Aborted THEN {} ELSE rwset[t]]
  /\ result' = [t \in Tid |-> IF t \in Aborted THEN "PENDING" ELSE result[t]]
  /\ UNCHANGED <<assignment, workerVars, tableVars, dbVars>>

Arriving == {t \in Tid : Arrival[t] = epoch + 1}

\* sent to the coordinator, but not added to the manager's list
NextEpoch == Proceed(Aborted \cup Arriving, Aborted \cup Arriving)

ExecuteStep(w) ==
  \/ Invoke(w) \/ LoadPointer(w) \/ TestEpoch(w) \/ CreateTable(w)
  \/ LoadSlot(w) \/ StoreTid(w) \/ Exchange(w) \/ FinishReserve(w)
  \/ BufferTest(w) \/ BufferClear(w) \/ BufferPut(w)

Next ==
  \/ \E w \in Workers : ExecuteStep(w) \/ Commit(w)
  \/ StartCommit \/ NextEpoch

Spec == Init /\ [][Next]_vars

(* Every worker and the coordinator keep running; NextEpoch needs, beyond  *)
(* that, that the clients go on sending transactions.                      *)
Fairness ==
  /\ \A w \in Workers : WF_vars(ExecuteStep(w)) /\ WF_vars(Commit(w))
  /\ WF_vars(StartCommit) /\ WF_vars(NextEpoch)

FairSpec == Spec /\ Fairness

-----------------------------------------------------------------------------
(* Properties.                                                             *)

\* Every variable has its type: a slot holds 0 or a transaction's ID.
TypeOK ==
  /\ tableId \in Nat /\ tableEpoch \in 0..MaxEpoch
  /\ reserved \in [Slots -> {0} \cup Tid]
  /\ commitPhase \in BOOLEAN
  /\ rwSetBuffer \subseteq Tid
  /\ store \in [Keys -> (0..MaxEpoch) \X ({0} \cup Tid)]
  /\ epoch \in 1..MaxEpoch /\ phase \in {"READ", "COMMIT"}
  /\ live \subseteq Tid /\ todo \subseteq live
  /\ assignment \in Assignments
  /\ rwset \in [Tid -> SUBSET Slots]
  /\ result \in [Tid -> Results]
  /\ pc \in [Workers -> Pcs]
  /\ cur \in [Workers -> {0} \cup Tid]
  /\ table \in [Workers -> Nat]
  /\ left \in [Workers -> SUBSET Slots]
  /\ slot \in [Workers -> Slots \cup {NoSlot}]
  /\ old \in [Workers -> {0} \cup Tid]

\* The transactions of the epoch that reserve.
Reserving == {t \in live : Request(t).ok}

\* Those that have been executed to the end.
Executed == {t \in live \ todo : \A w \in Workers : cur[w] # t}

(* "Each epoch has one unique reserveTable object, all the workers build   *)
(* it": a worker that reserves, or that will analyse dependencies, does it *)
(* in the provider's current table, created for this very epoch - although *)
(* the first transactions of an epoch race to replace the previous table   *)
(* and the analysis uses the pointer kept since the execution.             *)
OneTablePerEpoch ==
  \A w \in Workers :
    \/ pc[w] \in {"reserve", "storeSlot", "exchange"}
    \/ phase = "COMMIT" /\ \E t \in Reserving : Home(t) = w
    => table[w] = tableId /\ IsFor(epoch)

(* Whatever the interleaving of loads, stores and exchanges, a slot of the *)
(* epoch's table holds no ID of an earlier epoch and none of a transaction *)
(* that does not access the key: nobody is aborted because of a dependency *)
(* on a transaction that is not there.                                     *)
ReservedByAccessor ==
  IsFor(epoch) =>
    \A s \in Slots : reserved[s] # 0 =>
      reserved[s] \in Reserving /\ s \in rwset[reserved[s]]

\* No access of an executed transaction is left without a reservation.
AccessReserved ==
  phase = "COMMIT" =>
    \A t \in Reserving : \A s \in rwset[t] : reserved[s] # 0

\* The workers build one table, and it says who accesses what.
ReservationsHold == TypeOK /\ OneTablePerEpoch /\ ReservedByAccessor /\ AccessReserved

(* DCHECK(rwSetBuffer.contains(tid)) in commitUpdate: the clearing of the  *)
(* previous epoch's buffer never takes an update of this epoch with it.    *)
BufferedUntilCommit ==
  phase = "COMMIT" => live \subseteq rwSetBuffer

(* An epoch in which something was committed changes the database, and     *)
(* with all the writes of one of the transactions: the flag that stops     *)
(* further updates never carries over from the previous epoch.             *)
WritesOfOne ==
  phase = "COMMIT" =>
    LET committed == {t \in live \ todo : result[t] = "COMMIT"}
    IN committed # {} =>
         \E t \in committed : \A k \in WriteKeys(rwset[t]) : store[k] = <<epoch, t>>

\* The buffer holds an epoch's updates until one of them is written.
CommitHasEffect == BufferedUntilCommit /\ WritesOfOne

\* The reserved slots are those of the first transaction, by ID, that wants them.
FirstAccessor(s) ==
  LET T == {t \in Reserving : s \in rwset[t]}
  IN IF T = {} THEN 0 ELSE CHOOSE t \in T : \A u \in T : t <= u

(* "The read table keeps, for each key, the ID of the first transaction of *)
(* the epoch that reads it; the write table, of the first that writes it." *)
FirstAccessKept ==
  phase = "COMMIT" /\ IsFor(epoch) =>
    \A s \in Slots : reserved[s] = FirstAccessor(s)

(* The commit rule is sound: no key is written by two committed            *)
(* transactions, and there is a serial order of them in which everyone     *)
(* reads before anyone else writes, as it did from the epoch's snapshot.   *)
Serializable ==
  phase = "COMMIT" =>
    LET C == {t \in live \ todo : result[t] = "COMMIT"}
        Before(t, u) == ReadKeys(rwset[t]) \cap WriteKeys(rwset[u]) # {}
    IN /\ \A t, u \in C :
            t # u => WriteKeys(rwset[t]) \cap WriteKeys(rwset[u]) = {}
       /\ \E place \in [C -> 1..Cardinality(C)] :
            \A t, u \in C : t # u =>
              /\ place[t] # place[u]
              /\ Before(t, u) => place[t] < place[u]

\* One worker executes everything.
Alone == \A t, u \in Tid : Home(t) = Home(u)

(* With a single worker the reserve table does keep the first accessors,   *)
(* and the commits are serializable.                                       *)
SerializableAlone == Alone => FirstAccessKept /\ Serializable

(* A transaction that has been reported as committed has its writes in the *)
(* database: nothing overwrites them within the epoch.                     *)
CommittedIsStored ==
  phase = "COMMIT" =>
    \A t \in live \ todo : result[t] = "COMMIT" =>
      \A k \in WriteKeys(rwset[t]) : store[k] = <<epoch, t>>

(* The loop around compare_exchange_weak is no livelock: a transaction     *)
(* finishes its reservations although the exchange may fail every time and *)
(* the others keep overwriting the slot.                                   *)
ReservationEnds ==
  \A w \in Workers : pc[w] = "reserve" ~> pc[w] = "idle"

(* Retries end: the clients' transactions being finitely many, each is     *)
(* committed, or discarded for an error of its own, after at most as many  *)
(* epochs as there are transactions.                                       *)
RetriesEnd ==
  \A t \in Tid : <>(result[t] \in {"COMMIT", "ABORT_NO_RETRY"})

\* Every transaction is decided in the end.
Decided == ReservationEnds /\ RetriesEnd
=============================================================================
