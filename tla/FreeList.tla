------------------------------- MODULE FreeList -------------------------------
(***************************************************************************)
(* moodycamel's lock-free FreeList of blocks.  Every atomic access is a    *)
(* step.  A node's reference count says who may still read its next        *)
(* pointer: the list itself and the threads inside try_get; its highest    *)
(* bit says that the node is to be put on the list by whoever brings the   *)
(* count to zero.                                                          *)
(***************************************************************************)
EXTENDS Naturals, FiniteSets, LinkedList

CONSTANTS
  PoolThreads,
  Nodes,
  Null,
  SHOULD_BE_ON_FREELIST   \* above any count of references

ASSUME PoolAssumption ==
  /\ IsFiniteSet(PoolThreads) /\ IsFiniteSet(Nodes) /\ Null \notin Nodes
  /\ SHOULD_BE_ON_FREELIST \in Nat
  /\ SHOULD_BE_ON_FREELIST > Cardinality(PoolThreads) + 1

VARIABLES
  freeListHead,
  freeListRefs, freeListNext,   \* of each node
  inPool,                       \* where each thread is, with its locals
  owned                         \* history: the nodes of each thread

nodeVars == <<freeListHead, freeListRefs, freeListNext>>
poolVars == <<nodeVars, inPool, owned>>

(* In try_get: head, prevHead and next.  In add_knowing_refcount_is_zero:  *)
(* node, its own head (top), and whether try_get goes on after it.         *)
PoolIdle == [pc |-> "idle", head |-> Null, prevHead |-> Null, refs |-> 0,
             next |-> Null, node |-> Null, top |-> Null, getting |-> FALSE]

PoolInit ==
  /\ freeListHead = Null
  /\ freeListRefs = [n \in Nodes |-> 0]
  /\ freeListNext = [n \in Nodes |-> Null]
  /\ inPool = [t \in PoolThreads |-> PoolIdle]
  /\ \E f \in [Nodes -> PoolThreads] :
       owned = [t \in PoolThreads |-> {n \in Nodes : f[n] = t}]

References(n) == freeListRefs[n] % SHOULD_BE_ON_FREELIST
Marked(n) == freeListRefs[n] >= SHOULD_BE_ON_FREELIST

PoolAt(t, p) == inPool[t].pc = p
PoolSet(t, new) == inPool' = [inPool EXCEPT ![t] = new]
PoolReturn(t) == inPool' = [inPool EXCEPT ![t] = PoolIdle]
SetRefs(n, r) == freeListRefs' = [freeListRefs EXCEPT ![n] = r]

-----------------------------------------------------------------------------
\* add_knowing_refcount_is_zero(n).
PutBack(t, n) == PoolSet(t, [inPool[t] EXCEPT !.pc = "putLoad", !.node = n])

\* add: the thread gives up the node when it sets the bit.
Add(t, n) ==
  /\ PoolAt(t, "idle") /\ n \in owned[t]
  /\ owned' = [owned EXCEPT ![t] = @ \ {n}]
  /\ SetRefs(n, freeListRefs[n] + SHOULD_BE_ON_FREELIST)
  /\ IF freeListRefs[n] = 0 THEN PutBack(t, n) ELSE UNCHANGED inPool
  /\ UNCHANGED <<freeListHead, freeListNext>>

PutLoad(t) ==
  /\ PoolAt(t, "putLoad")
  /\ PoolSet(t, [inPool[t] EXCEPT !.pc = "putNext", !.top = freeListHead])
  /\ UNCHANGED <<nodeVars, owned>>

PutNext(t) ==
  /\ PoolAt(t, "putNext")
  /\ freeListNext' = [freeListNext EXCEPT ![inPool[t].node] = inPool[t].top]
  /\ PoolSet(t, [inPool[t] EXCEPT !.pc = "putRefs"])
  /\ UNCHANGED <<freeListHead, freeListRefs, owned>>

PutRefs(t) ==
  /\ PoolAt(t, "putRefs")
  /\ SetRefs(inPool[t].node, 1)
  /\ PoolSet(t, [inPool[t] EXCEPT !.pc = "putHead"])
  /\ UNCHANGED <<freeListHead, freeListNext, owned>>

\* The end of add, or the next turn of try_get's loop with the head it has.
Finish(t) ==
  IF inPool[t].getting /\ inPool[t].head # Null
  THEN PoolSet(t, [inPool[t] EXCEPT !.pc = "refs", !.node = Null, !.top = Null])
  ELSE PoolReturn(t)

PutHead(t) ==
  /\ PoolAt(t, "putHead")
  /\ IF freeListHead = inPool[t].top
     THEN freeListHead' = inPool[t].node /\ Finish(t)
     ELSE /\ PoolSet(t, [inPool[t] EXCEPT !.pc = "putAgain", !.top = freeListHead])
          /\ UNCHANGED freeListHead
  /\ UNCHANGED <<freeListRefs, freeListNext, owned>>

\* The exchange has failed: leave it to the last one with a reference.
PutAgain(t) ==
  /\ PoolAt(t, "putAgain")
  /\ LET n == inPool[t].node
     IN  /\ SetRefs(n, freeListRefs[n] + SHOULD_BE_ON_FREELIST - 1)
         /\ IF freeListRefs[n] = 1
            THEN PoolSet(t, [inPool[t] EXCEPT !.pc = "putNext"])
            ELSE Finish(t)
  /\ UNCHANGED <<freeListHead, freeListNext, owned>>

-----------------------------------------------------------------------------
\* try_get's loop goes on with this head, if there is one.
Loop(t) ==
  IF freeListHead = Null THEN PoolReturn(t)
  ELSE PoolSet(t, [inPool[t] EXCEPT !.pc = "refs", !.head = freeListHead,
                                    !.getting = TRUE])

TryGet(t) ==
  /\ PoolAt(t, "idle") /\ freeListHead # Null
  /\ Loop(t)
  /\ UNCHANGED <<nodeVars, owned>>

GetHead(t) ==
  /\ PoolAt(t, "head")
  /\ Loop(t)
  /\ UNCHANGED <<nodeVars, owned>>

LoadRefs(t) ==
  /\ PoolAt(t, "refs")
  /\ LET n == inPool[t].head
     IN  PoolSet(t, [inPool[t] EXCEPT
                       !.pc = IF References(n) = 0 THEN "head" ELSE "reference",
                       !.refs = freeListRefs[n]])
  /\ UNCHANGED <<nodeVars, owned>>

\* From here on the node's next pointer is ours to read.
MutantReference(t) ==
  /\ PoolAt(t, "reference")
  /\ LET n == inPool[t].head
     IN  /\ SetRefs(n, freeListRefs[n] + 1)
         /\ PoolSet(t, [inPool[t] EXCEPT !.pc = "next", !.refs = 0])
  /\ UNCHANGED <<freeListHead, freeListNext, owned>>
Reference(t) ==
  /\ PoolAt(t, "reference")
  /\ LET n == inPool[t].head
     IN  IF freeListRefs[n] = inPool[t].refs
         THEN /\ SetRefs(n, freeListRefs[n] + 1)
              /\ PoolSet(t, [inPool[t] EXCEPT !.pc = "next", !.refs = 0])
         ELSE /\ PoolSet(t, [inPool[t] EXCEPT !.pc = "head", !.refs = 0])
              /\ UNCHANGED freeListRefs
  /\ UNCHANGED <<freeListHead, freeListNext, owned>>

ReadNext(t) ==
  /\ PoolAt(t, "next")
  /\ PoolSet(t, [inPool[t] EXCEPT !.pc = "take",
                                  !.next = freeListNext[inPool[t].head]])
  /\ UNCHANGED <<nodeVars, owned>>

\* The exchange of the head makes the node this thread's.
Take(t) ==
  /\ PoolAt(t, "take")
  /\ LET n == inPool[t].head
     IN  IF freeListHead = n
         THEN /\ freeListHead' = inPool[t].next
              /\ owned' = [owned EXCEPT ![t] = @ \cup {n}]
              /\ PoolSet(t, [inPool[t] EXCEPT !.pc = "drop", !.next = Null])
         ELSE /\ PoolSet(t, [inPool[t] EXCEPT !.pc = "release", !.next = Null,
                         !.head = freeListHead, !.prevHead = n])
              /\ UNCHANGED <<freeListHead, owned>>
  /\ UNCHANGED <<freeListRefs, freeListNext>>

\* Two references go: the thread's and the list's.
Drop(t) ==
  /\ PoolAt(t, "drop")
  /\ SetRefs(inPool[t].head, freeListRefs[inPool[t].head] - 2)
  /\ PoolReturn(t)
  /\ UNCHANGED <<freeListHead, freeListNext, owned>>

\* Somebody else has moved the head: the last reference puts the node back.
MutantRelease(t) ==
  /\ PoolAt(t, "release")
  /\ SetRefs(inPool[t].prevHead, freeListRefs[inPool[t].prevHead] - 1)
  /\ IF inPool[t].head = Null THEN PoolReturn(t)
     ELSE PoolSet(t, [inPool[t] EXCEPT !.pc = "refs", !.prevHead = Null])
  /\ UNCHANGED <<freeListHead, freeListNext, owned>>
Release(t) ==
  /\ PoolAt(t, "release")
  /\ LET n == inPool[t].prevHead
     IN  /\ SetRefs(n, freeListRefs[n] - 1)
         /\ IF freeListRefs[n] = SHOULD_BE_ON_FREELIST + 1
            THEN PoolSet(t, [inPool[t] EXCEPT !.pc = "putLoad", !.node = n,
                                              !.prevHead = Null])
            ELSE IF inPool[t].head = Null THEN PoolReturn(t)
            ELSE PoolSet(t, [inPool[t] EXCEPT !.pc = "refs", !.prevHead = Null])
  /\ UNCHANGED <<freeListHead, freeListNext, owned>>

PoolStep(t) ==
  \/ PutLoad(t) \/ PutNext(t) \/ PutRefs(t) \/ PutHead(t) \/ PutAgain(t)
  \/ GetHead(t) \/ LoadRefs(t) \/ Reference(t) \/ ReadNext(t)
  \/ Take(t) \/ Drop(t) \/ Release(t)

PoolNext == \E t \in PoolThreads :
  \/ \E n \in Nodes : Add(t, n)
  \/ TryGet(t)
  \/ PoolStep(t)

\* Some thread that is inside an operation runs; no particular one need to.
PoolFairness == WF_poolVars(\E t \in PoolThreads : PoolStep(t))

PoolSpec == PoolInit /\ [][PoolNext]_poolVars /\ PoolFairness

-----------------------------------------------------------------------------
\* The nodes on the list.
OnList == Linked(freeListHead, freeListNext, Null, Cardinality(Nodes))

PutBy(n) == {t \in PoolThreads : inPool[t].node = n}
HeldBy(n) ==
  {t \in PoolThreads :
     \/ inPool[t].pc \in {"next", "take", "drop"} /\ inPool[t].head = n
     \/ PoolAt(t, "release") /\ inPool[t].prevHead = n}
HeldByList(n) ==
  \/ n \in OnList
  \/ \E t \in PoolThreads :
       inPool[t].pc \in {"putHead", "putAgain"} /\ inPool[t].node = n
  \/ \E t \in PoolThreads : PoolAt(t, "drop") /\ inPool[t].head = n

(* A node's count is that of the threads that hold a reference and of the  *)
(* list: nobody reads a next pointer that may change.                      *)
RefsCounted ==
  \A n \in Nodes :
    References(n) = Cardinality(HeldBy(n)) + (IF HeldByList(n) THEN 1 ELSE 0)

(* A node that nobody owns is on the list, or is being put there by just   *)
(* one thread, or will be by the last thread with a reference: a block is  *)
(* never lost, whatever exchanges fail.                                    *)
NoBlockLost ==
  \A n \in Nodes \ UNION {owned[t] : t \in PoolThreads} :
    \/ n \in OnList /\ PutBy(n) = {}
    \/ n \notin OnList /\ Cardinality(PutBy(n)) = 1
    \/ n \notin OnList /\ PutBy(n) = {} /\ Marked(n) /\ HeldBy(n) # {}

\* assert((head->freeListRefs.load() & SHOULD_BE_ON_FREELIST) == 0)
TakenIsUnmarked == \A t \in PoolThreads : PoolAt(t, "drop") => ~Marked(inPool[t].head)

\* No node is lost, or on the list and in use, however the operations interleave.
PoolKept == RefsCounted /\ NoBlockLost /\ TakenIsUnmarked

(* Lock-freedom: when all threads are inside an operation, one of them     *)
(* gets out of it, however the scheduler treats the others.                *)
LockFree ==
  (\A t \in PoolThreads : ~PoolAt(t, "idle")) ~> (\E t \in PoolThreads : PoolAt(t, "idle"))

\* A node has one owner at a time, and a pool without locks gives it to him.
Pool == INSTANCE BlockPool WITH Threads <- PoolThreads, Blocks <- Nodes
ImplementsPool == Pool!Spec /\ LockFree
===============================================================================
