--------------------------- MODULE ImplicitProducer ---------------------------
(***************************************************************************)
(* One implicit producer of moodycamel's ConcurrentQueue: the sub-queue    *)
(* that one thread enqueues to and any thread may dequeue from.  Elements  *)
(* lie in blocks of BLOCK_SIZE; a block index, a ring of entries <<key,    *)
(* value>>, leads from an element's index to its block, and is replaced by *)
(* one of twice the size when it is full.  Indices are unsigned integers   *)
(* of Width bits and wrap around.                                          *)
(*                                                                         *)
(* Atomic accesses are steps, executed in one order that all threads see   *)
(* (the memory orders are not modelled).  enqueue and dequeue are their    *)
(* bulk forms for one element.  The free list is that of BlockPool.        *)
(* Elements are numbered in the order in which they are enqueued; an empty *)
(* slot holds 0.                                                           *)
(***************************************************************************)
EXTENDS Integers, Sequences, FiniteSets, Functions, FiniteSetsExt, TLC

CONSTANTS
  Consumers,
  Blocks,                        \* numbers
  BLOCK_SIZE,
  Width,
  IMPLICIT_INITIAL_INDEX_SIZE,
  FirstIndex,                    \* the index of the first element
  MaxElements,                   \* bound: elements enqueued
  MaxBulk                        \* bound: the elements of one call

VARIABLES
  tailIndex, headIndex, dequeueOptimisticCount, dequeueOvercommit,
  headers,      \* the block indices so far; the last one is blockIndex
  key, value,   \* of each entry
  slot,         \* the elements in each block
  elementsCompletelyDequeued,    \* of each block
  tailBlock,
  free,         \* the blocks in the pool
  producer,     \* where the producer is, with its locals
  consumer,     \* where each consumer is, with its locals
  enqueued,     \* history: elements enqueued
  claimed,      \* history: elements that consumers have taken indices of
  failed        \* history: assertions that have failed

indexVars == <<headers, key, value>>
blockVars == <<slot, elementsCompletelyDequeued, tailBlock, free>>
countVars == <<tailIndex, headIndex, dequeueOptimisticCount, dequeueOvercommit>>
historyVars == <<enqueued, claimed, failed>>
vars == <<indexVars, blockVars, countVars, producer, consumer, historyVars>>

Null == 0
Garbage == -1              \* the value of an entry before its first block
INVALID_BLOCK_BASE == 1
W(x) == x % 2^Width
circular_less_than(a, b) == W(a - b) > 2^(Width - 1)
Base(i) == i - (i % BLOCK_SIZE)

Entries == 1..(2 * Cardinality(Blocks) + IMPLICIT_INITIAL_INDEX_SIZE)
Ready == [pc |-> "idle", count |-> 0, index |-> 0, chain |-> << >>, entry |-> 0,
          block |-> Null, undone |-> 0]
Asleep == [pc |-> "idle", max |-> 0, tail |-> 0, over |-> 0, desired |-> 0,
           count |-> 0, actual |-> 0, index |-> 0, end |-> 0, header |-> 0,
           at |-> 0, block |-> Null, want |-> 0]

\* new_block_index: the old entries in their order, and new ones after them.
Capacity(h) == Cardinality(DOMAIN headers[h].index)
Last_ == Len(headers)
FirstHeader ==
  [index |-> [i \in 0..(IMPLICIT_INITIAL_INDEX_SIZE - 1) |-> i + 1],
   tail |-> IMPLICIT_INITIAL_INDEX_SIZE - 1]
MutantNextHeader ==
  LET c == Capacity(Last_)
      p == headers[Last_]
  IN  [index |-> [i \in 0..(2 * c - 1) |->
                    IF i < c THEN p.index[i] ELSE i + 1],
       tail |-> c - 1]
NextHeader ==
  LET c == Capacity(Last_)
      p == headers[Last_]
  IN  [index |-> [i \in 0..(2 * c - 1) |->
                    IF i < c THEN p.index[(p.tail + 1 + i) % c] ELSE i + 1],
       tail |-> c - 1]

Init ==
  /\ tailIndex = FirstIndex /\ headIndex = FirstIndex
  /\ dequeueOptimisticCount = FirstIndex /\ dequeueOvercommit = 0
  /\ headers = <<FirstHeader>>
  /\ key = [e \in Entries |-> INVALID_BLOCK_BASE]
  /\ value = [e \in Entries |-> Garbage]
  /\ slot = [b \in Blocks |-> [i \in 0..(BLOCK_SIZE - 1) |-> 0]]
  /\ elementsCompletelyDequeued = [b \in Blocks |-> 0]
  /\ tailBlock = Null /\ free = Blocks
  /\ producer = Ready
  /\ consumer = [c \in Consumers |-> Asleep]
  /\ enqueued = 0 /\ claimed = 0 /\ failed = {}

-----------------------------------------------------------------------------
(* enqueue_bulk                                                            *)
Goto(p) == producer' = [producer EXCEPT !.pc = p]
Check(name, holds) == failed' = IF holds THEN failed ELSE failed \cup {name}
SetTail(h, t) == headers' = [headers EXCEPT ![h].tail = t]
Rewind == SetTail(Last_, (headers[Last_].tail - 1) % Capacity(Last_))
HasBlocks(k) == Len(producer.chain) = k

\* The blocks that n elements need besides the tail's.
FirstBase == Base(W(tailIndex - 1))
BlocksFor(n) == W(Base(W(tailIndex + n - 1)) - FirstBase) \div BLOCK_SIZE
EnqueueBulk(n) ==
  /\ producer.pc = "idle" /\ enqueued + n <= MaxElements
  /\ producer' = [Ready EXCEPT !.pc = IF BlocksFor(n) = 0 THEN "write" ELSE "next",
                               !.count = n, !.index = FirstBase]
  /\ UNCHANGED <<indexVars, blockVars, countVars, consumer, historyVars>>

Full(i) == ~circular_less_than(headIndex, W(i + BLOCK_SIZE))
NextBlock ==
  /\ producer.pc = "next"
  /\ LET i == W(producer.index + BLOCK_SIZE)
     IN  /\ Check("tail before head", ~circular_less_than(i, headIndex))
         /\ producer' = [producer EXCEPT !.pc = IF Full(i) THEN "revert" ELSE "insert",
                                         !.index = i]
  /\ UNCHANGED <<indexVars, blockVars, countVars, consumer, enqueued, claimed>>

\* insert_block_index_entry: the next entry of the ring, if it is unused.
NextEntry == headers[Last_].index[(headers[Last_].tail + 1) % Capacity(Last_)]
MutantUnused(e) ==
  key[e] = INVALID_BLOCK_BASE \/ circular_less_than(key[e], Base(headIndex))
Unused(e) == key[e] = INVALID_BLOCK_BASE \/ value[e] = Null
InsertKey ==
  /\ producer.pc = "insert" /\ Unused(NextEntry)
  /\ key' = [key EXCEPT ![NextEntry] = producer.index]
  /\ producer' = [producer EXCEPT !.pc = "advance", !.entry = NextEntry]
  /\ UNCHANGED <<headers, value, blockVars, countVars, consumer, historyVars>>

NewBlockIndex ==
  /\ producer.pc = "insert" /\ ~Unused(NextEntry)
  /\ headers' = Append(headers, NextHeader)
  /\ UNCHANGED <<key, value, blockVars, countVars, producer, consumer, historyVars>>

AdvanceTail ==
  /\ producer.pc = "advance"
  /\ SetTail(Last_, (headers[Last_].tail + 1) % Capacity(Last_))
  /\ Goto("requisition")
  /\ UNCHANGED <<key, value, blockVars, countVars, consumer, historyVars>>

\* requisition_block.  (Free blocks are alike.)  reset_empty comes with it:
\* nobody else knows the block.
Requisition ==
  /\ producer.pc = "requisition" /\ free # {}
  /\ LET b == Min(free)
     IN  /\ free' = free \ {b}
         /\ elementsCompletelyDequeued' = [elementsCompletelyDequeued EXCEPT ![b] = 0]
         /\ producer' = [producer EXCEPT !.pc = "value", !.block = b]
  /\ UNCHANGED <<indexVars, slot, tailBlock, countVars, consumer, historyVars>>

\* There is no block, for want of memory: rewind_block_index_tail, and the
\* entry is given back by its value; then all the blocks of this call are.
NoBlock ==
  /\ producer.pc = "requisition" /\ free = {}
  /\ Rewind
  /\ Goto("giveBack")
  /\ UNCHANGED <<key, value, blockVars, countVars, consumer, historyVars>>

GiveBack ==
  /\ producer.pc = "giveBack"
  /\ value' = [value EXCEPT ![producer.entry] = Null]
  /\ Goto("revert")
  /\ UNCHANGED <<headers, key, blockVars, countVars, consumer, historyVars>>

StoreValue ==
  /\ producer.pc = "value"
  /\ value' = [value EXCEPT ![producer.entry] = producer.block]
  /\ producer' = [producer EXCEPT
       !.pc = IF HasBlocks(BlocksFor(producer.count) - 1) THEN "write" ELSE "next",
       !.chain = Append(@, producer.block), !.entry = 0, !.block = Null]
  /\ UNCHANGED <<headers, key, blockVars, countVars, consumer, historyVars>>

\* get_block_index_entry_for_index, the division of the signed difference by a
\* size_t being unsigned.
Found(h, at, i) ==
  (at + W(Base(i) - key[headers[h].index[at]]) \div BLOCK_SIZE) % Capacity(h)
Revert ==
  /\ producer.pc = "revert" /\ ~HasBlocks(producer.undone)
  /\ LET i == W(FirstBase + (producer.undone + 1) * BLOCK_SIZE)
     IN  value' = [value EXCEPT
           ![headers[Last_].index[Found(Last_, headers[Last_].tail, i)]] = Null]
  /\ Goto("rewind")
  /\ UNCHANGED <<headers, key, blockVars, countVars, consumer, historyVars>>

RewindNext ==
  /\ producer.pc = "rewind"
  /\ Rewind
  /\ producer' = [producer EXCEPT !.pc = "revert", !.undone = @ + 1]
  /\ UNCHANGED <<key, value, blockVars, countVars, consumer, historyVars>>

EnqueueFails ==
  /\ producer.pc = "revert" /\ HasBlocks(producer.undone)
  /\ free' = free \cup Range(producer.chain)
  /\ producer' = Ready
  /\ UNCHANGED <<indexVars, slot, elementsCompletelyDequeued, tailBlock, countVars,
                 consumer, historyVars>>

\* The elements go to the rest of the tail's block and to the new ones.
BlockOf(j) ==
  LET k == BlocksFor(j) IN IF k = 0 THEN tailBlock ELSE producer.chain[k]
Write ==
  /\ producer.pc = "write"
  /\ slot' = [b \in Blocks |-> [i \in DOMAIN slot[b] |->
       LET here == {j \in 1..producer.count :
                      BlockOf(j) = b /\ W(tailIndex + j - 1) % BLOCK_SIZE = i}
       IN  IF here = {} THEN slot[b][i] ELSE enqueued + Min(here)]]
  /\ tailBlock' = BlockOf(producer.count)
  /\ Goto("publish")
  /\ UNCHANGED <<indexVars, elementsCompletelyDequeued, free, countVars, consumer,
                 historyVars>>

Publish ==
  /\ producer.pc = "publish"
  /\ tailIndex' = W(tailIndex + producer.count)
  /\ enqueued' = enqueued + producer.count
  /\ producer' = Ready
  /\ UNCHANGED <<indexVars, blockVars, headIndex, dequeueOptimisticCount,
                 dequeueOvercommit, consumer, claimed, failed>>

-----------------------------------------------------------------------------
(* dequeue_bulk                                                            *)
At(c, p) == consumer[c].pc = p
Set(c, new) == consumer' = [consumer EXCEPT ![c] = new @@ @]
Return(c) == consumer' = [consumer EXCEPT ![c] = Asleep]

DequeueBulk(c, max) ==
  /\ At(c, "idle")
  /\ Set(c, [pc |-> "overcommit", max |-> max, tail |-> tailIndex])
  /\ UNCHANGED <<indexVars, blockVars, countVars, producer, historyVars>>

LoadOvercommit(c) ==
  /\ At(c, "overcommit")
  /\ Set(c, [pc |-> "optimistic", over |-> dequeueOvercommit])
  /\ UNCHANGED <<indexVars, blockVars, countVars, producer, historyVars>>

\* Does there seem to be an element?
Desired(c) ==
  W(consumer[c].tail - (dequeueOptimisticCount - consumer[c].over))
LoadOptimistic(c) ==
  /\ At(c, "optimistic")
  /\ IF circular_less_than(0, Desired(c))
     THEN Set(c, [pc |-> "claim", tail |-> 0,
                  desired |-> Min({Desired(c), consumer[c].max}), max |-> 0])
     ELSE Return(c)
  /\ UNCHANGED <<indexVars, blockVars, countVars, producer, historyVars>>

Claim(c) ==
  /\ At(c, "claim")
  /\ dequeueOptimisticCount' = W(dequeueOptimisticCount + consumer[c].desired)
  /\ Set(c, [pc |-> "check", count |-> dequeueOptimisticCount])
  /\ UNCHANGED <<indexVars, blockVars, tailIndex, headIndex, dequeueOvercommit,
                 producer, historyVars>>

\* Now it is known how many there are for this thread.
Actual(c) ==
  LET n == W(tailIndex - (consumer[c].count - consumer[c].over))
  IN  IF circular_less_than(0, n) THEN Min({n, consumer[c].desired}) ELSE 0
CheckTail(c) ==
  /\ At(c, "check")
  /\ Set(c, [pc |-> IF Actual(c) < consumer[c].desired THEN "undo" ELSE "take",
             actual |-> Actual(c), over |-> 0, count |-> 0])
  /\ UNCHANGED <<indexVars, blockVars, countVars, producer, historyVars>>

\* What was claimed in excess is taken back by a counter of its own.
Undo(c) ==
  /\ At(c, "undo")
  /\ dequeueOvercommit' =
       W(dequeueOvercommit + consumer[c].desired - consumer[c].actual)
  /\ IF consumer[c].actual = 0 THEN Return(c) ELSE Set(c, [pc |-> "take"])
  /\ UNCHANGED <<indexVars, blockVars, tailIndex, headIndex,
                 dequeueOptimisticCount, producer, historyVars>>

TakeIndex(c) ==
  /\ At(c, "take")
  /\ headIndex' = W(headIndex + consumer[c].actual)
  /\ claimed' = claimed + consumer[c].actual
  /\ Set(c, [pc |-> "header", index |-> headIndex, want |-> claimed + 1,
             end |-> W(headIndex + consumer[c].actual), desired |-> 0, actual |-> 0])
  /\ UNCHANGED <<indexVars, blockVars, tailIndex, dequeueOptimisticCount,
                 dequeueOvercommit, producer, enqueued, failed>>

\* get_block_index_index_for_index: header, its tail, the key there.
LoadHeader(c) ==
  /\ At(c, "header")
  /\ Set(c, [pc |-> "tail", header |-> Last_])
  /\ UNCHANGED <<indexVars, blockVars, countVars, producer, historyVars>>

LoadTail(c) ==
  /\ At(c, "tail")
  /\ Set(c, [pc |-> "key", at |-> headers[consumer[c].header].tail])
  /\ UNCHANGED <<indexVars, blockVars, countVars, producer, historyVars>>

LoadKey(c) ==
  /\ At(c, "key")
  /\ LET index == headers[consumer[c].header].index
         at    == Found(consumer[c].header, consumer[c].at, consumer[c].index)
     IN  /\ Set(c, [pc |-> "block", at |-> at])
         /\ Check("the entry is that of the index",
                  /\ key[index[consumer[c].at]] # INVALID_BLOCK_BASE
                  /\ key[index[at]] = Base(consumer[c].index)
                  /\ value[index[at]] \in Blocks)
  /\ UNCHANGED <<indexVars, blockVars, countVars, producer, enqueued, claimed>>

EntryOf(c) == headers[consumer[c].header].index[consumer[c].at]
LoadBlock(c) ==
  /\ At(c, "block") /\ failed = {}
  /\ Check("there is a block", value[EntryOf(c)] \in Blocks)
  /\ Set(c, [pc |-> "read", block |-> value[EntryOf(c)]])
  /\ UNCHANGED <<indexVars, blockVars, countVars, producer, enqueued, claimed>>

\* The claimed elements in this block, moved out and destroyed one by one.
Place(c) == consumer[c].index % BLOCK_SIZE
InBlock(c) == Min({W(consumer[c].end - consumer[c].index), BLOCK_SIZE - Place(c)})
Places(c) == Place(c)..(Place(c) + InBlock(c) - 1)
ReadElements(c) ==
  /\ At(c, "read") /\ failed = {}
  /\ slot' = [slot EXCEPT ![consumer[c].block] =
                [i \in DOMAIN @ |-> IF i \in Places(c) THEN 0 ELSE @[i]]]
  /\ Set(c, [pc |-> "empty"])
  /\ UNCHANGED <<indexVars, elementsCompletelyDequeued, tailBlock, free,
                 countVars, producer, historyVars>>

\* On to the next block, if there is more, with the index as it was loaded.
Continue(c) ==
  IF W(consumer[c].index + InBlock(c)) = consumer[c].end THEN Return(c)
  ELSE Set(c, [pc |-> "block", index |-> W(consumer[c].index + InBlock(c)),
               want |-> consumer[c].want + InBlock(c), block |-> Null,
               at |-> (consumer[c].at + 1) % Capacity(consumer[c].header)])

\* set_many_empty: the thread that empties the block gives it back.
SetManyEmpty(c) ==
  /\ At(c, "empty")
  /\ LET n == elementsCompletelyDequeued[consumer[c].block] + InBlock(c)
     IN  /\ Check("no more than the block holds", n <= BLOCK_SIZE)
         /\ elementsCompletelyDequeued' =
              [elementsCompletelyDequeued EXCEPT ![consumer[c].block] = n]
         /\ IF n = BLOCK_SIZE THEN Set(c, [pc |-> "clear"]) ELSE Continue(c)
  /\ UNCHANGED <<indexVars, slot, tailBlock, free, countVars, producer, enqueued,
                 claimed>>

ClearValue(c) ==
  /\ At(c, "clear")
  /\ value' = [value EXCEPT ![EntryOf(c)] = Null]
  /\ Set(c, [pc |-> "free"])
  /\ UNCHANGED <<headers, key, blockVars, countVars, producer, historyVars>>

FreeBlock(c) ==
  /\ At(c, "free")
  /\ free' = free \cup {consumer[c].block}
  /\ Continue(c)
  /\ UNCHANGED <<indexVars, slot, elementsCompletelyDequeued, tailBlock, countVars,
                 producer, historyVars>>

Produce ==
  \/ NextBlock \/ InsertKey \/ NewBlockIndex \/ AdvanceTail \/ Requisition
  \/ NoBlock \/ GiveBack \/ StoreValue \/ Revert \/ RewindNext \/ EnqueueFails
  \/ Write \/ Publish

Consume(c) ==
  \/ LoadOvercommit(c) \/ LoadOptimistic(c) \/ Claim(c) \/ CheckTail(c)
  \/ Undo(c) \/ TakeIndex(c) \/ LoadHeader(c) \/ LoadTail(c) \/ LoadKey(c)
  \/ LoadBlock(c) \/ ReadElements(c) \/ SetManyEmpty(c) \/ ClearValue(c)
  \/ FreeBlock(c)

Next ==
  \/ Produce \/ \E n \in 1..MaxBulk : EnqueueBulk(n)
  \/ \E c \in Consumers :
       Consume(c) \/ \E max \in 1..MaxBulk : DequeueBulk(c, max)

Spec == Init /\ [][Next]_vars

-----------------------------------------------------------------------------
(* ~ImplicitProducer: what is left is destroyed, block after block.        *)
Visited ==
  LET bases == {Base(W(FirstIndex + e - 1)) : e \in (claimed + 1)..enqueued}
  IN  {e \in Entries : key[e] \in bases /\ value[e] \in Blocks}
FreesTailBlock == headIndex # tailIndex \/ tailIndex % BLOCK_SIZE # 0
DestructorFrees ==
  ({value[e] : e \in Visited} \ {tailBlock})
    \cup (IF FreesTailBlock THEN {tailBlock} ELSE {})

Quiet == producer.pc = "idle" /\ \A c \in Consumers : At(c, "idle")
Indices == 0..(2^Width - 1)

TypeOK ==
  /\ {tailIndex, headIndex, dequeueOptimisticCount, dequeueOvercommit} \subseteq Indices
  /\ \A h \in 1..Last_ :
       headers[h].tail \in 0..(Capacity(h) - 1) /\ Range(headers[h].index) \subseteq Entries
  /\ key \in [Entries -> Indices] /\ value \in [Entries -> Blocks \cup {Null, Garbage}]
  /\ \A b \in Blocks : \A i \in 0..(BLOCK_SIZE - 1) : slot[b][i] \in 0..MaxElements
  /\ \A b \in Blocks : elementsCompletelyDequeued[b] \in 0..BLOCK_SIZE
  /\ tailBlock \in Blocks \cup {Null} /\ free \subseteq Blocks

\* The assertions of the code hold, and no consumer follows a null pointer.
AssertsHold == failed = {}

(* A consumer reads just the elements whose indices it has taken: none     *)
(* that is not yet written, has been destroyed, or lies in a block that    *)
(* was recycled.                                                           *)
ReadsClaimed ==
  \A c \in Consumers : At(c, "read") =>
    \A i \in Places(c) : slot[consumer[c].block][i] =
      consumer[c].want + i - Place(c)

(* What no consumer has taken is where a consumer will look for it.        *)
NothingLost ==
  \A n \in (claimed + 1)..enqueued :
    LET i == W(FirstIndex + n - 1)
        e == headers[Last_].index[Found(Last_, headers[Last_].tail, i)]
    IN  key[e] = Base(i) /\ value[e] \in Blocks /\ slot[value[e]][i % BLOCK_SIZE] = n

(* The two counters that consumers claim elements with differ from the     *)
(* head by what is being claimed at this moment: when everybody has        *)
(* returned, every element that is there can be claimed.                   *)
Claiming(c) ==
  CASE At(c, "check") \/ At(c, "undo") -> consumer[c].desired
    [] At(c, "take")                   -> consumer[c].actual
    [] OTHER                           -> 0
ClaimsBalance ==
  W(dequeueOptimisticCount - dequeueOvercommit)
    = W(headIndex + SumFunction([c \in Consumers |-> Claiming(c)]))

\* No index is taken of an element that has not been enqueued.
NotPastTail == claimed <= enqueued

(* A block is at one place at a time: in the pool, in the index or in the  *)
(* hands of one thread.                                                    *)
InHand ==
  {producer.block} \cup
    {producer.chain[k] :
       k \in 1..(producer.undone + (IF producer.pc = "rewind" THEN 1 ELSE 0))}
BlockInOnePlace ==
  \A b \in Blocks :
    Cardinality({e \in Entries : value[e] = b})
      + Cardinality({c \in Consumers : At(c, "free") /\ consumer[c].block = b})
      + (IF b \in InHand THEN 1 ELSE 0) + (IF b \in free THEN 1 ELSE 0) = 1

(* When nobody uses the queue any more, the destructor gives back all of   *)
(* its blocks, those that are partly empty included.                       *)
DestructorFreesAll == Quiet => DestructorFrees = Blocks \ free

(* Elements come out once, in their order, as they were put in.            *)
ElementsKept ==
  /\ TypeOK /\ AssertsHold
  /\ ReadsClaimed /\ NothingLost /\ ClaimsBalance /\ NotPastTail

(* No block is lost or used twice, while the queue is used and when it is  *)
(* destroyed.                                                              *)
BlocksAccounted == BlockInOnePlace /\ DestructorFreesAll
===============================================================================
