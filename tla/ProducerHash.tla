---------------------------- MODULE ProducerHash ----------------------------
(***************************************************************************)
(* How ConcurrentQueue finds the sub-queue of the calling thread: a lock-  *)
(* free hash table from thread identifiers to implicit producers, chained  *)
(* to the smaller tables it replaced, and the list of all producers, which *)
(* consumers go through.                                                   *)
(*                                                                         *)
(* Thread-exit notification is compiled out, so that entries stay and no   *)
(* producer ever becomes inactive: recycle_or_create_producer creates.  A  *)
(* key that is read as free and then exchanged is one step: if somebody    *)
(* takes it in between, the outcome is that of reading it later.           *)
(***************************************************************************)
EXTENDS Naturals, Sequences, FiniteSets, Functions, LinkedList

CONSTANTS
  HashThreads,                   \* by their identifiers
  invalid_thread_id,
  HashedId,                  \* of each thread
  INITIAL_IMPLICIT_PRODUCER_HASH_SIZE,
  MaxFailures                \* bound: how often memory is exhausted

ASSUME HashAssumption ==
  /\ IsFiniteSet(HashThreads) /\ invalid_thread_id \notin HashThreads
  /\ HashedId \in [HashThreads -> Nat] /\ MaxFailures \in Nat
  /\ INITIAL_IMPLICIT_PRODUCER_HASH_SIZE \in Nat \ {0}

VARIABLES
  hashes,              \* tables, each with its prev before it; the last is current
  implicitProducerHashCount,
  implicitProducerHashResizeInProgress,
  producerListTail,    \* producers are numbered
  next,                \* of each producer
  inHash,              \* where each thread is, with its locals
  failures,            \* how often memory was exhausted
  got                  \* history: the producers each thread was given

hashVars ==
  <<hashes, implicitProducerHashCount, implicitProducerHashResizeInProgress,
    producerListTail, next, inHash, failures, got>>

NoProducer == 0
Table(capacity) ==
  [keys   |-> [i \in 0..(capacity - 1) |-> invalid_thread_id],
   values |-> [i \in 0..(capacity - 1) |-> NoProducer]]
CapacityOf(h) == Cardinality(DOMAIN hashes[h].keys)

HashIdle == [pc |-> "idle", mainHash |-> 0, hash |-> 0, index |-> 0, newCount |-> 0,
             producer |-> NoProducer, prevTail |-> NoProducer]

HashInit ==
  /\ hashes = <<Table(INITIAL_IMPLICIT_PRODUCER_HASH_SIZE)>>
  /\ implicitProducerHashCount = 0 /\ implicitProducerHashResizeInProgress = FALSE
  /\ producerListTail = NoProducer /\ next = << >>
  /\ inHash = [t \in HashThreads |-> HashIdle]
  /\ failures = 0 /\ got = [t \in HashThreads |-> {}]

HashAt(t, p) == inHash[t].pc = p
HashSet(t, new) == inHash' = [inHash EXCEPT ![t] = new]
Start(t, h) == HashedId[t] % CapacityOf(h)
HashReturn(t, producer) ==
  /\ inHash' = [inHash EXCEPT ![t] = HashIdle]
  /\ got' = [got EXCEPT ![t] = @ \cup ({producer} \ {NoProducer})]

-----------------------------------------------------------------------------
\* Look for the thread in the current table and in those before it.
GetOrAdd(t) ==
  /\ HashAt(t, "idle")
  /\ HashSet(t, [inHash[t] EXCEPT
       !.pc = "probe", !.mainHash = Len(hashes), !.hash = Len(hashes),
       !.index = Start(t, Len(hashes))])
  /\ UNCHANGED <<hashes, implicitProducerHashCount,
                 implicitProducerHashResizeInProgress, producerListTail, next,
                 failures, got>>

Probed(t) == hashes[inHash[t].hash].keys[inHash[t].index]
Advanced(t) == (inHash[t].index + 1) % CapacityOf(inHash[t].hash)

Found(t) ==
  /\ HashAt(t, "probe") /\ Probed(t) = t
  /\ LET producer == hashes[inHash[t].hash].values[inHash[t].index]
     IN  IF inHash[t].hash = inHash[t].mainHash THEN HashReturn(t, producer)
         ELSE /\ HashSet(t, [inHash[t] EXCEPT
                   !.pc = "insert", !.producer = producer, !.hash = inHash[t].mainHash,
                   !.index = Start(t, inHash[t].mainHash)])
              /\ UNCHANGED got
  /\ UNCHANGED <<hashes, implicitProducerHashCount,
                 implicitProducerHashResizeInProgress, producerListTail, next, failures>>

MutantNotHere(t) ==
  /\ HashAt(t, "probe") /\ Probed(t) = invalid_thread_id
  /\ HashSet(t, [inHash[t] EXCEPT !.pc = "count", !.hash = 0, !.index = 0])
  /\ UNCHANGED <<hashes, implicitProducerHashCount,
                 implicitProducerHashResizeInProgress, producerListTail, next,
                 failures, got>>
NotHere(t) ==
  /\ HashAt(t, "probe") /\ Probed(t) = invalid_thread_id
  /\ LET h == inHash[t].hash - 1
     IN  IF h = 0
         THEN HashSet(t, [inHash[t] EXCEPT !.pc = "count", !.hash = 0, !.index = 0])
         ELSE HashSet(t, [inHash[t] EXCEPT !.hash = h, !.index = Start(t, h)])
  /\ UNCHANGED <<hashes, implicitProducerHashCount,
                 implicitProducerHashResizeInProgress, producerListTail, next,
                 failures, got>>

ProbeNext(t) ==
  /\ HashAt(t, "probe") /\ Probed(t) \notin {t, invalid_thread_id}
  /\ HashSet(t, [inHash[t] EXCEPT !.index = Advanced(t)])
  /\ UNCHANGED <<hashes, implicitProducerHashCount,
                 implicitProducerHashResizeInProgress, producerListTail, next,
                 failures, got>>

\* Put the producer in the main table, which has room for it.
Insert(t) ==
  /\ HashAt(t, "insert")
  /\ IF Probed(t) = invalid_thread_id
     THEN /\ hashes' = [hashes EXCEPT
               ![inHash[t].hash].keys[inHash[t].index] = t,
               ![inHash[t].hash].values[inHash[t].index] = inHash[t].producer]
          /\ HashReturn(t, inHash[t].producer)
     ELSE /\ HashSet(t, [inHash[t] EXCEPT !.index = Advanced(t)])
          /\ UNCHANGED <<hashes, got>>
  /\ UNCHANGED <<implicitProducerHashCount, implicitProducerHashResizeInProgress,
                 producerListTail, next, failures>>

-----------------------------------------------------------------------------
\* The thread has no producer.
Count(t) ==
  /\ HashAt(t, "count")
  /\ implicitProducerHashCount' = implicitProducerHashCount + 1
  /\ HashSet(t, [inHash[t] EXCEPT !.pc = "grow",
                                  !.newCount = implicitProducerHashCount + 1])
  /\ UNCHANGED <<hashes, implicitProducerHashResizeInProgress, producerListTail,
                 next, failures, got>>

\* Half full: the one that sets the flag allocates a bigger table.
HalfFull(t, h) == inHash[t].newCount >= CapacityOf(h) \div 2
Grow(t) ==
  /\ HashAt(t, "grow")
  /\ IF HalfFull(t, inHash[t].mainHash) /\ ~implicitProducerHashResizeInProgress
     THEN /\ implicitProducerHashResizeInProgress' = TRUE
          /\ HashSet(t, [inHash[t] EXCEPT !.pc = "resize", !.mainHash = Len(hashes)])
     ELSE /\ HashSet(t, [inHash[t] EXCEPT !.pc = "room"])
          /\ UNCHANGED implicitProducerHashResizeInProgress
  /\ UNCHANGED <<hashes, implicitProducerHashCount, producerListTail, next,
                 failures, got>>

NewCapacity(t) ==
  LET from == 2 * CapacityOf(inHash[t].mainHash)
      enough[c \in Nat] == IF inHash[t].newCount >= c \div 2 THEN enough[2 * c] ELSE c
  IN  enough[from]
Resize(t) ==
  /\ HashAt(t, "resize")
  /\ IF HalfFull(t, inHash[t].mainHash)
     THEN /\ hashes' = Append(hashes, Table(NewCapacity(t)))
          /\ HashSet(t, [inHash[t] EXCEPT !.pc = "clear", !.mainHash = Len(hashes) + 1])
     ELSE HashSet(t, [inHash[t] EXCEPT !.pc = "clear"]) /\ UNCHANGED hashes
  /\ UNCHANGED <<implicitProducerHashCount, implicitProducerHashResizeInProgress,
                 producerListTail, next, failures, got>>

Clear(t) ==
  /\ HashAt(t, "clear")
  /\ implicitProducerHashResizeInProgress' = FALSE
  /\ HashSet(t, [inHash[t] EXCEPT !.pc = "room"])
  /\ UNCHANGED <<hashes, implicitProducerHashCount, producerListTail, next,
                 failures, got>>

\* There is no memory for the table: the flag goes, and the call fails.
ResizeFails(t) ==
  /\ HashAt(t, "resize") /\ HalfFull(t, inHash[t].mainHash) /\ failures < MaxFailures
  /\ failures' = failures + 1
  /\ implicitProducerHashCount' = implicitProducerHashCount - 1
  /\ HashSet(t, [inHash[t] EXCEPT !.pc = "failed"])
  /\ UNCHANGED <<hashes, implicitProducerHashResizeInProgress, producerListTail,
                 next, got>>

MutantFail(t) ==
  /\ HashAt(t, "failed")
  /\ HashReturn(t, NoProducer)
  /\ UNCHANGED <<hashes, implicitProducerHashCount, producerListTail, next, failures,
                 implicitProducerHashResizeInProgress>>
Fail(t) ==
  /\ HashAt(t, "failed")
  /\ implicitProducerHashResizeInProgress' = FALSE
  /\ HashReturn(t, NoProducer)
  /\ UNCHANGED <<hashes, implicitProducerHashCount, producerListTail, next, failures>>

\* Less than three quarters full: create a producer, which may fail as well.
HasRoom(t) ==
  LET c == CapacityOf(inHash[t].mainHash)
  IN  inHash[t].newCount < c \div 2 + c \div 4
Create(t) ==
  /\ HashAt(t, "room") /\ HasRoom(t)
  /\ next' = Append(next, NoProducer)
  /\ HashSet(t, [inHash[t] EXCEPT !.pc = "list", !.producer = Len(next) + 1,
                                  !.prevTail = producerListTail])
  /\ UNCHANGED <<hashes, implicitProducerHashCount,
                 implicitProducerHashResizeInProgress, producerListTail, failures, got>>

CreateFails(t) ==
  /\ HashAt(t, "room") /\ HasRoom(t) /\ failures < MaxFailures
  /\ failures' = failures + 1
  /\ implicitProducerHashCount' = implicitProducerHashCount - 1
  /\ HashReturn(t, NoProducer)
  /\ UNCHANGED <<hashes, implicitProducerHashResizeInProgress, producerListTail, next>>

\* Full, and somebody is allocating: look again for the new table.
AwaitTable(t) ==
  /\ HashAt(t, "room") /\ ~HasRoom(t)
  /\ HashSet(t, [inHash[t] EXCEPT !.pc = "grow", !.mainHash = Len(hashes)])
  /\ UNCHANGED <<hashes, implicitProducerHashCount,
                 implicitProducerHashResizeInProgress, producerListTail, next,
                 failures, got>>

\* add_producer: its next is the tail it has read, then it becomes the tail.
SetNext(t) ==
  /\ HashAt(t, "list")
  /\ next' = [next EXCEPT ![inHash[t].producer] = inHash[t].prevTail]
  /\ HashSet(t, [inHash[t] EXCEPT !.pc = "push"])
  /\ UNCHANGED <<hashes, implicitProducerHashCount,
                 implicitProducerHashResizeInProgress, producerListTail, failures, got>>

Pushed(t) ==
  /\ producerListTail' = inHash[t].producer
  /\ HashSet(t, [inHash[t] EXCEPT
       !.pc = "insert", !.prevTail = NoProducer, !.hash = inHash[t].mainHash,
       !.index = Start(t, inHash[t].mainHash)])
Push(t) ==
  /\ HashAt(t, "push")
  /\ IF producerListTail = inHash[t].prevTail THEN Pushed(t)
     ELSE /\ HashSet(t, [inHash[t] EXCEPT !.pc = "list", !.prevTail = producerListTail])
          /\ UNCHANGED producerListTail
  /\ UNCHANGED <<hashes, implicitProducerHashCount,
                 implicitProducerHashResizeInProgress, next, failures, got>>

HashStep(t) ==
  \/ Found(t) \/ NotHere(t) \/ ProbeNext(t) \/ Insert(t) \/ Count(t) \/ Grow(t)
  \/ Resize(t) \/ Clear(t) \/ ResizeFails(t) \/ Fail(t) \/ Create(t)
  \/ CreateFails(t) \/ AwaitTable(t) \/ SetNext(t) \/ Push(t)

HashNext == \E t \in HashThreads : GetOrAdd(t) \/ HashStep(t)

\* A thread inside a call runs.
HashFairness == \A t \in HashThreads : WF_hashVars(HashStep(t))

HashSpec == HashInit /\ [][HashNext]_hashVars /\ HashFairness

-----------------------------------------------------------------------------
HashTypeOK ==
  /\ \A h \in 1..Len(hashes) :
       /\ Range(hashes[h].keys) \subseteq HashThreads \cup {invalid_thread_id}
       /\ Range(hashes[h].values) \subseteq 0..Len(next)
  /\ implicitProducerHashCount \in 0..Cardinality(HashThreads)
  /\ implicitProducerHashResizeInProgress \in BOOLEAN
  /\ producerListTail \in 0..Len(next)
  /\ \A t \in HashThreads : inHash[t].producer \in 0..Len(next)

(* A thread is given the same producer by every call, whatever tables have *)
(* been added in between, and no other thread is: a producer is single-    *)
(* threaded at its tail.                                                   *)
NotShared ==
  /\ \A t \in HashThreads : Cardinality(got[t]) <= 1
  /\ \A t, u \in HashThreads : t # u => got[t] \cap got[u] = {}

(* "Not an infinite loop because at least one slot is free in the hash     *)
(* table": in every table, although entries are also copied to it.         *)
SlotFree ==
  \A h \in 1..Len(hashes) : invalid_thread_id \in Range(hashes[h].keys)

(* A producer that a thread was given is on the list that consumers go     *)
(* through, so that its elements are found.                                *)
Listed ==
  \A t \in HashThreads :
    got[t] \subseteq Linked(producerListTail, next, NoProducer, Len(next))

\* Every thread gets one sub-queue of its own, where it and the consumers find it.
OneProducerEach == HashTypeOK /\ NotShared /\ SlotFree /\ Listed

(* Every call returns: nobody waits for ever for another thread to finish  *)
(* the table, not even when that thread finds no memory for it.            *)
CallsReturn == \A t \in HashThreads : ~HashAt(t, "idle") ~> HashAt(t, "idle")
=============================================================================
