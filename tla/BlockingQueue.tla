---------------------------- MODULE BlockingQueue ----------------------------
(***************************************************************************)
(* BlockingConcurrentQueue: a ConcurrentQueue and a semaphore that counts  *)
(* its elements.  A consumer first acquires tokens and then goes through   *)
(* the producers' sub-queues until it has as many elements; it relies on   *)
(* the elements being there.                                               *)
(*                                                                         *)
(* The semaphore is that of Semaphore, an acquisition of several tokens    *)
(* taking at least one.  A sub-queue (ImplicitProducer) is a number of     *)
(* elements.  Dequeuing from it fails when it is empty, and also while     *)
(* another consumer that claimed too much has not yet taken that back.     *)
(***************************************************************************)
EXTENDS Naturals, Sequences, FiniteSets, SequencesExt, TLC

CONSTANTS
  Producers,    \* threads that enqueue, each with a sub-queue of its own
  Consumers,    \* threads that dequeue
  none,
  MaxElements,  \* bound: elements each producer enqueues
  MaxBulk       \* bound: the most elements of one bulk call

VARIABLES
  tokens,       \* of sema
  producerList, \* sub-queues, the newest first
  elements,     \* in each sub-queue
  made,         \* elements that each producer has enqueued
  toSignal,     \* tokens that each producer still has to signal
  local,        \* where each consumer is, with its locals
  overclaimed   \* the sub-queue that a consumer has claimed too much of

vars == <<tokens, producerList, elements, made, toSignal, local, overclaimed>>

(* owed: the elements that the consumer has tokens for; rest: the          *)
(* sub-queues it has still to go through in this turn of its loop.         *)
Idle == [pc |-> "idle", owed |-> 0, rest |-> << >>, nonEmptyCount |-> 0,
         best |-> none, bestSize |-> 0]

Init ==
  /\ tokens = 0 /\ producerList = << >>
  /\ elements = [p \in Producers |-> 0] /\ made = [p \in Producers |-> 0]
  /\ toSignal = [p \in Producers |-> 0]
  /\ local = [c \in Consumers |-> Idle] /\ overclaimed = [c \in Consumers |-> none]

-----------------------------------------------------------------------------
\* get_or_add_implicit_producer, the first time.
AddProducer(p) ==
  /\ ~Contains(producerList, p)
  /\ producerList' = <<p>> \o producerList
  /\ UNCHANGED <<tokens, elements, made, toSignal, local, overclaimed>>

\* enqueue and enqueue_bulk: when there is no memory, nothing changes.
MutantEnqueue(p, n) ==
  /\ Contains(producerList, p) /\ toSignal[p] = 0
  /\ elements' \in {elements, [elements EXCEPT ![p] = @ + n]}
  /\ made' = [made EXCEPT ![p] = @ + n]
  /\ toSignal' = [toSignal EXCEPT ![p] = n]
  /\ UNCHANGED <<tokens, producerList, local, overclaimed>>
Enqueue(p, n) ==
  /\ Contains(producerList, p) /\ toSignal[p] = 0
  /\ elements' = [elements EXCEPT ![p] = @ + n]
  /\ made' = [made EXCEPT ![p] = @ + n]
  /\ toSignal' = [toSignal EXCEPT ![p] = n]
  /\ UNCHANGED <<tokens, producerList, local, overclaimed>>

Signal(p) ==
  /\ toSignal[p] > 0
  /\ tokens' = tokens + toSignal[p]
  /\ toSignal' = [toSignal EXCEPT ![p] = 0]
  /\ UNCHANGED <<producerList, elements, made, local, overclaimed>>

-----------------------------------------------------------------------------
At(c, p) == local[c].pc = p /\ overclaimed[c] = none
Set(c, new) == local' = [local EXCEPT ![c] = new @@ @]

\* The loop's next turn begins at the newest sub-queue.
Turn(c, p) ==
  Set(c, [Idle EXCEPT !.pc = p, !.owed = local[c].owed, !.rest = producerList])

\* try_dequeue, wait_dequeue and wait_dequeue_timed, when they get a token.
Dequeue(c) ==
  /\ At(c, "idle") /\ tokens > 0
  /\ tokens' = tokens - 1
  /\ Set(c, [pc |-> "size", owed |-> 1, rest |-> producerList])
  /\ UNCHANGED <<producerList, elements, made, toSignal, overclaimed>>

\* try_dequeue_bulk, wait_dequeue_bulk and wait_dequeue_bulk_timed.
DequeueBulk(c, n) ==
  /\ At(c, "idle") /\ n <= tokens
  /\ tokens' = tokens - n
  /\ Set(c, [pc |-> "bulk", owed |-> n, rest |-> producerList])
  /\ UNCHANGED <<producerList, elements, made, toSignal, overclaimed>>

\* inner.try_dequeue: which sub-queue looks longest?
Size(c) ==
  /\ At(c, "size") /\ local[c].rest # << >> /\ local[c].nonEmptyCount < 3
  /\ LET p == Head(local[c].rest)
         n == elements[p]
     IN  Set(c, [rest |-> Tail(local[c].rest),
                 nonEmptyCount |-> local[c].nonEmptyCount + (IF n > 0 THEN 1 ELSE 0),
                 best |-> IF n > local[c].bestSize THEN p ELSE local[c].best,
                 bestSize |-> IF n > local[c].bestSize THEN n ELSE local[c].bestSize])
  /\ UNCHANGED <<tokens, producerList, elements, made, toSignal, overclaimed>>

Sized(c) ==
  /\ At(c, "size") /\ (local[c].rest = << >> \/ local[c].nonEmptyCount = 3)
  /\ IF local[c].nonEmptyCount = 0 THEN Turn(c, "size") ELSE Set(c, [pc |-> "best"])
  /\ UNCHANGED <<tokens, producerList, elements, made, toSignal, overclaimed>>

\* A dequeue from p that gets n elements, and one that gets none.
Take(c, p, n) ==
  /\ elements' = [elements EXCEPT ![p] = @ - n]
  /\ UNCHANGED <<tokens, producerList, made, toSignal, overclaimed>>
GetNone(c, p) ==
  /\ \/ elements[p] = 0
     \/ \E d \in Consumers \ {c} : overclaimed[d] = p
  /\ \/ UNCHANGED overclaimed
     \/ elements[p] = 0 /\ overclaimed' = [overclaimed EXCEPT ![c] = p]
  /\ UNCHANGED <<tokens, producerList, elements, made, toSignal>>

TakeBack(c) ==
  /\ overclaimed[c] # none
  /\ overclaimed' = [overclaimed EXCEPT ![c] = none]
  /\ UNCHANGED <<tokens, producerList, elements, made, toSignal, local>>

Best(c) ==
  /\ At(c, "best")
  /\ LET p == local[c].best
     IN  \/ elements[p] > 0 /\ Take(c, p, 1) /\ Set(c, Idle)
         \/ GetNone(c, p) /\ Set(c, [pc |-> "others", rest |-> producerList])

Others(c) ==
  /\ At(c, "others") /\ local[c].rest # << >>
  /\ LET p == Head(local[c].rest)
         on == Set(c, [rest |-> Tail(local[c].rest)])
     IN  \/ p # local[c].best /\ elements[p] > 0 /\ Take(c, p, 1) /\ Set(c, Idle)
         \/ p # local[c].best /\ GetNone(c, p) /\ on
         \/ /\ p = local[c].best /\ on
            /\ UNCHANGED <<tokens, producerList, elements, made, toSignal, overclaimed>>

\* inner.try_dequeue_bulk
Bulk(c) ==
  /\ At(c, "bulk") /\ local[c].rest # << >>
  /\ LET p == Head(local[c].rest)
         n == IF elements[p] < local[c].owed THEN elements[p] ELSE local[c].owed
     IN  \/ /\ n > 0 /\ Take(c, p, n)
            /\ IF n = local[c].owed THEN Set(c, Idle)
               ELSE Set(c, [owed |-> local[c].owed - n, rest |-> Tail(local[c].rest)])
         \/ GetNone(c, p) /\ Set(c, [rest |-> Tail(local[c].rest)])

\* All sub-queues have been tried: again.
Again(c) ==
  /\ local[c].rest = << >>
  /\ \/ At(c, "others") /\ Turn(c, "size")
     \/ At(c, "bulk") /\ Turn(c, "bulk")
  /\ UNCHANGED <<tokens, producerList, elements, made, toSignal, overclaimed>>

Step(c) ==
  Size(c) \/ Sized(c) \/ Best(c) \/ Others(c) \/ Bulk(c) \/ Again(c) \/ TakeBack(c)

Next ==
  \/ \E p \in Producers :
       \/ AddProducer(p) \/ Signal(p)
       \/ \E n \in 1..MaxBulk : made[p] + n <= MaxElements /\ Enqueue(p, n)
  \/ \E c \in Consumers :
       \/ Dequeue(c) \/ Step(c)
       \/ \E n \in 1..MaxBulk : DequeueBulk(c, n)

\* A thread inside a call runs.
Fairness ==
  /\ \A p \in Producers : WF_vars(Signal(p))
  /\ \A c \in Consumers : WF_vars(Step(c))

Spec == Init /\ [][Next]_vars /\ Fairness

-----------------------------------------------------------------------------
Sum(f) == FoldFunction(+, 0, f)

(* There are as many tokens as elements, those on either side counted that *)
(* a thread is working on: no consumer waits for an element that is there, *)
(* or loops for one that is not.                                           *)
TokensBalance ==
  tokens + Sum(toSignal) + Sum([c \in Consumers |-> local[c].owed]) = Sum(elements)

(* A consumer that has acquired its tokens returns with its elements, how- *)
(* ever often it finds the sub-queues empty that it looks at: no step      *)
(* breaks the balance, by which the tokens stand for elements.             *)
DequeueReturns ==
  [][TokensBalance']_vars /\ \A c \in Consumers : local[c].owed > 0 ~> local[c].owed = 0
==============================================================================
