------------------------- MODULE UserCollector_proofs -------------------------
(***************************************************************************)
(* Proofs about UserCollector, for any number of servers, clients,         *)
(* requests and epochs: what the clients send reaches the local receiver   *)
(* in batches that are whole and in order, and the epoch server numbers    *)
(* them as EpochNumbering says.                                            *)
(***************************************************************************)
EXTENDS UserCollector, SequenceTheorems, FiniteSetTheorems, TLAPS

Bounds ==
  /\ MaxRequests \in Nat /\ MaxBatch \in Nat /\ TimeGap \in Nat /\ MaxTime \in Nat
  /\ MaxEpochNum \in Nat \ {0}
  /\ ServerOf \in [Clients -> Servers]

-----------------------------------------------------------------------------
(* The inductive invariant.                                                *)

Proofs == [epoch : Epochs, size : Nat]

Typed ==
  /\ sent \in [Clients -> 0..MaxRequests] /\ answered \in [Clients -> 0..MaxRequests]
  /\ inbox \in [Servers -> Seq(Requests)] /\ accepted \in [Servers -> Seq(Requests)]
  /\ requestBuffer \in [Servers -> Seq(Requests)] /\ batch \in [Servers -> Seq(Requests)]
  /\ rpc \in [Servers -> {"dequeue", "numbering", "enqueue"}]
  /\ toEnqueue \in [Servers -> Seq(Numbered)]
  /\ pendingTransactions \in [Servers -> Seq(Numbered)]
  /\ pendingTransactionsProof \in [Servers -> Seq(Proofs)]
  /\ handed \in [Servers -> Seq(Numbered)]
  /\ takenBatches \in [Servers -> Seq([proof : Proofs, upTo : Nat])]
  /\ now \in 0..MaxTime /\ epochStartTime \in 0..now /\ epochNum \in Epochs
  /\ epochSizeMap \in [Epochs -> Nat] /\ totalSize \in Nat /\ serving \in BOOLEAN
  /\ numbered \in [Servers -> Seq(Epochs)] /\ firstRequest \in [Epochs -> Nat]

(* The requests of a server's clients that are on their way through it, in *)
(* the order of the queues they are in.                                    *)
TxOf(q) == [i \in 1..Len(q) |-> q[i].tx]
Unnumbered(s) == IF rpc[s] = "numbering" THEN batch[s] ELSE <<>>
Line(s) ==
  TxOf(handed[s]) \o (TxOf(pendingTransactions[s]) \o (TxOf(toEnqueue[s])
    \o (Unnumbered(s) \o (requestBuffer[s] \o (accepted[s] \o inbox[s])))))

\* Where the requests of c are among the first n of q.
Of(q, c, n) == {j \in 1..n : q[j][1] = c}

(* Every request that was sent is in its server's line once, those of one  *)
(* client in their order.                                                  *)
InLine(q, s) ==
  /\ \A i \in 1..Len(q) : ServerOf[q[i][1]] = s /\ q[i][2] = Cardinality(Of(q, q[i][1], i - 1))
  /\ \A c \in Clients : ServerOf[c] = s => sent[c] = Cardinality(Of(q, c, Len(q)))
LineInv == \A s \in Servers : InLine(Line(s), s)

(* A client has at most one request without a reply.                       *)
ClientInv ==
  /\ \A c \in Clients : sent[c] = answered[c] \/ sent[c] = answered[c] + 1
  /\ \A s \in Servers : \A i \in 1..Len(inbox[s]) :
       LET c == inbox[s][i][1]
       IN  /\ ServerOf[c] = s /\ sent[c] = answered[c] + 1
           /\ \A j \in 1..Len(inbox[s]) : inbox[s][j][1] = c => i = j

StepInv ==
  \A s \in Servers :
    /\ rpc[s] # "enqueue" => toEnqueue[s] = <<>>
    /\ rpc[s] = "numbering" => batch[s] # <<>>
    /\ rpc[s] = "enqueue" => numbered[s] # <<>>
    /\ \A i \in 1..Len(toEnqueue[s]) : toEnqueue[s][i].epoch = Last(numbered[s])

(* The pending transactions are those of the pending proofs, batch after   *)
(* batch, f saying where each ends, and after them those of the batch that *)
(* is being enqueued.                                                      *)
EndsOf(s, f) ==
  LET proofs == pendingTransactionsProof[s]
      queue  == pendingTransactions[s]
      n      == Len(proofs)
  IN  /\ f[0] = 0
      /\ \A i, j \in 0..n : i <= j => f[i] <= f[j]
      /\ \A i \in 1..n :
           /\ f[i] = f[i - 1] + proofs[i].size
           /\ \A j \in (f[i - 1] + 1)..f[i] : queue[j].epoch = proofs[i].epoch
      /\ IF rpc[s] = "enqueue"
         THEN /\ f[n] + Len(batch[s]) = Len(queue) + Len(toEnqueue[s])
              /\ \A j \in (f[n] + 1)..Len(queue) : queue[j].epoch = Last(numbered[s])
         ELSE f[n] = Len(queue)
QueueInv ==
  \A s \in Servers :
    \E f \in [0..Len(pendingTransactionsProof[s]) -> 0..Len(pendingTransactions[s])] : EndsOf(s, f)

\* How many transactions the receiver has taken with its first i batches.
UpTo(s, i) == IF i = 0 THEN 0 ELSE takenBatches[s][i].upTo
TakenInv ==
  \A s \in Servers :
    /\ UpTo(s, Len(takenBatches[s])) = Len(handed[s])
    /\ \A i \in 1..Len(takenBatches[s]) :
         /\ UpTo(s, i) <= Len(handed[s])
         /\ UpTo(s, i) = UpTo(s, i - 1) + takenBatches[s][i].proof.size
         /\ \A j \in (UpTo(s, i - 1) + 1)..UpTo(s, i) :
              handed[s][j].epoch = takenBatches[s][i].proof.epoch

(* The timer was started by the first batch of the current epoch.          *)
EpochInv ==
  /\ \A e \in Epochs : epochNum < e => epochSizeMap[e] = 0
  /\ epochSizeMap[epochNum] > 0 => firstRequest[epochNum] = epochStartTime
  /\ serving => /\ epochSizeMap[epochNum] > 0
                /\ \E s \in Servers : \E i \in 1..Len(numbered[s]) : numbered[s][i] = epochNum

CollectorInv ==
  Typed /\ LineInv /\ ClientInv /\ StepInv /\ QueueInv /\ TakenInv /\ EpochInv

-----------------------------------------------------------------------------
(* Sequences.                                                              *)
LEMMA Associative ==
  ASSUME NEW S, NEW a \in Seq(S), NEW b \in Seq(S), NEW r \in Seq(S)
  PROVE  a \o (b \o r) = (a \o b) \o r
BY ConcatAssociative

LEMMA RequestsAssociative ==
  \A a, b, r \in Seq(Requests) : a \o (b \o r) = (a \o b) \o r
BY Associative

LEMMA HeadFirst ==
  ASSUME NEW S, NEW q \in Seq(S), q # <<>>
  PROVE  <<Head(q)>> \o Tail(q) = q /\ <<Head(q)>> \in Seq(S) /\ Tail(q) \in Seq(S) /\ Head(q) \in S
<1>1. <<Head(q)>> \in Seq(S) /\ Tail(q) \in Seq(S) /\ Head(q) = q[1] /\ Head(q) \in S
  BY HeadTailProperties
<1>2. Len(q) \in Nat \ {0} /\ Len(Tail(q)) = Len(q) - 1 /\ \A i \in 1..Len(Tail(q)) : Tail(q)[i] = q[i + 1]
  BY EmptySeq, HeadTailProperties
<1> DEFINE u == <<Head(q)>> \o Tail(q)
<1>3. u \in Seq(S) /\ Len(u) = Len(q)
      /\ \A i \in 1..Len(q) : u[i] = IF i <= 1 THEN Head(q) ELSE Tail(q)[i - 1]
  <2>1. Len(<<Head(q)>>) = 1 /\ <<Head(q)>>[1] = Head(q)
    OBVIOUS
  <2>2. /\ u \in Seq(S) /\ Len(u) = 1 + Len(Tail(q))
        /\ \A i \in 1..(1 + Len(Tail(q))) : u[i] = IF i <= 1 THEN <<Head(q)>>[i] ELSE Tail(q)[i - 1]
    BY <1>1, <2>1, ConcatProperties
  <2>3. 1 + Len(Tail(q)) = Len(q)
    BY <1>2
  <2>4. \A i \in 1..Len(q) : i <= 1 => i = 1
    BY <1>2
  <2> QED  BY <2>1, <2>2, <2>3, <2>4
<1> HIDE DEF u
<1>4. \A i \in 1..Len(q) : u[i] = q[i]
  <2> SUFFICES ASSUME NEW i \in 1..Len(q) PROVE u[i] = q[i]
    OBVIOUS
  <2>1. CASE i <= 1
    BY <1>1, <1>2, <1>3, <2>1
  <2>2. CASE ~(i <= 1)
    <3>1. i - 1 \in 1..Len(Tail(q)) /\ (i - 1) + 1 = i
      BY <1>2, <2>2
    <3>2. Tail(q)[i - 1] = q[i]
      BY <1>2, <3>1
    <3> QED  BY <1>3, <2>2, <3>2
  <2> QED  BY <2>1, <2>2
<1>5. u = q
  BY <1>3, <1>4, SeqEqual
<1> QED  BY <1>1, <1>5 DEF u

LEMMA CutInTwo ==
  ASSUME NEW S, NEW q \in Seq(S), NEW n \in 0..Len(q)
  PROVE  /\ SubSeq(q, 1, n) \o SubSeq(q, n + 1, Len(q)) = q
         /\ SubSeq(q, 1, n) \in Seq(S) /\ SubSeq(q, n + 1, Len(q)) \in Seq(S)
         /\ Len(SubSeq(q, 1, n)) = n /\ Len(SubSeq(q, n + 1, Len(q))) = Len(q) - n
         /\ \A i \in 1..n : SubSeq(q, 1, n)[i] = q[i]
         /\ \A i \in 1..(Len(q) - n) : SubSeq(q, n + 1, Len(q))[i] = q[n + i]
<1>1. Len(q) \in Nat /\ n \in Nat /\ n <= Len(q)
  BY LenProperties
<1>2. SubSeq(q, 1, n) \o SubSeq(q, n + 1, Len(q)) = SubSeq(q, 1, Len(q))
  <2>1. 1 \in 1..(Len(q) + 1) /\ n \in (1 - 1)..Len(q) /\ Len(q) \in n..Len(q)
    BY <1>1
  <2> QED  BY <2>1, ConcatAdjacentSubSeq, Zenon
<1>3. SubSeq(q, 1, Len(q)) = q
  BY SubSeqFull
<1>4. \A i \in 1..Len(q) : q[i] \in S
  BY ElementOfSeq
<1>5. /\ SubSeq(q, 1, n) \in Seq(S) /\ Len(SubSeq(q, 1, n)) = n
      /\ \A i \in 1..n : SubSeq(q, 1, n)[i] = q[i]
  <2>1. \A i \in 1..n : q[i] \in S
    BY <1>1, <1>4
  <2>2. /\ SubSeq(q, 1, n) \in Seq(S) /\ Len(SubSeq(q, 1, n)) = IF 1 <= n THEN n - 1 + 1 ELSE 0
        /\ \A i \in 1..(n - 1 + 1) : SubSeq(q, 1, n)[i] = q[1 + i - 1]
    BY <1>1, <2>1, SubSeqProperties
  <2> QED  BY <1>1, <2>2
<1>6. /\ SubSeq(q, n + 1, Len(q)) \in Seq(S) /\ Len(SubSeq(q, n + 1, Len(q))) = Len(q) - n
      /\ \A i \in 1..(Len(q) - n) : SubSeq(q, n + 1, Len(q))[i] = q[n + i]
  <2>1. \A i \in (n + 1)..Len(q) : q[i] \in S
    BY <1>1, <1>4
  <2>2. /\ SubSeq(q, n + 1, Len(q)) \in Seq(S)
        /\ Len(SubSeq(q, n + 1, Len(q))) = IF n + 1 <= Len(q) THEN Len(q) - (n + 1) + 1 ELSE 0
        /\ \A i \in 1..(Len(q) - (n + 1) + 1) : SubSeq(q, n + 1, Len(q))[i] = q[(n + 1) + i - 1]
    <3>1. n + 1 \in Int /\ Len(q) \in Int
      BY <1>1
    <3> QED  BY <2>1, <3>1, SubSeqProperties
  <2> QED  BY <1>1, <2>2
<1> QED  BY <1>2, <1>3, <1>5, <1>6

LEMMA TxOfProperties ==
  ASSUME NEW q \in Seq(Numbered)
  PROVE  TxOf(q) \in Seq(Requests) /\ Len(TxOf(q)) = Len(q) /\ \A i \in 1..Len(q) : TxOf(q)[i] = q[i].tx
<1>1. Len(q) \in Nat /\ \A i \in 1..Len(q) : q[i] \in Numbered
  BY LenProperties, ElementOfSeq
<1>2. \A i \in 1..Len(q) : q[i].tx \in Requests
  BY <1>1 DEF Numbered
<1>3. TxOf(q) \in [1..Len(q) -> Requests]
  BY <1>2 DEF TxOf
<1>4. TxOf(q) \in Seq(Requests)
  BY <1>1, <1>3, SeqDef
<1>5. DOMAIN TxOf(q) = 1..Len(TxOf(q)) /\ DOMAIN TxOf(q) = 1..Len(q) /\ Len(TxOf(q)) \in Nat
  BY <1>3, <1>4, LenProperties
<1>6. Len(TxOf(q)) = Len(q)
  BY <1>1, <1>5
<1> QED  BY <1>4, <1>6 DEF TxOf

LEMMA TxOfConcat ==
  ASSUME NEW p \in Seq(Numbered), NEW q \in Seq(Numbered)
  PROVE  TxOf(p \o q) = TxOf(p) \o TxOf(q)
<1>1. /\ p \o q \in Seq(Numbered) /\ Len(p \o q) = Len(p) + Len(q) /\ Len(p) \in Nat /\ Len(q) \in Nat
      /\ \A i \in 1..(Len(p) + Len(q)) : (p \o q)[i] = IF i <= Len(p) THEN p[i] ELSE q[i - Len(p)]
  BY ConcatProperties, LenProperties
<1> DEFINE a == TxOf(p \o q)
           b == TxOf(p) \o TxOf(q)
<1>2. /\ a \in Seq(Requests) /\ Len(a) = Len(p) + Len(q)
      /\ \A i \in 1..(Len(p) + Len(q)) : a[i] = (p \o q)[i].tx
  BY <1>1, TxOfProperties
<1>3. /\ b \in Seq(Requests) /\ Len(b) = Len(p) + Len(q)
      /\ \A i \in 1..(Len(p) + Len(q)) : b[i] = IF i <= Len(p) THEN TxOf(p)[i] ELSE TxOf(q)[i - Len(p)]
  <2>1. /\ TxOf(p) \in Seq(Requests) /\ TxOf(q) \in Seq(Requests)
        /\ Len(TxOf(p)) = Len(p) /\ Len(TxOf(q)) = Len(q)
    BY TxOfProperties
  <2>2. /\ b \in Seq(Requests) /\ Len(b) = Len(TxOf(p)) + Len(TxOf(q))
        /\ \A i \in 1..(Len(TxOf(p)) + Len(TxOf(q))) :
             b[i] = IF i <= Len(TxOf(p)) THEN TxOf(p)[i] ELSE TxOf(q)[i - Len(TxOf(p))]
    BY <2>1, ConcatProperties, Zenon
  <2> QED  BY <2>1, <2>2
<1> HIDE DEF a, b
<1>4. \A i \in 1..(Len(p) + Len(q)) : a[i] = b[i]
  <2> SUFFICES ASSUME NEW i \in 1..(Len(p) + Len(q)) PROVE a[i] = b[i]
    OBVIOUS
  <2>1. CASE i <= Len(p)
    <3>1. i \in 1..Len(p)
      BY <1>1, <2>1
    <3> QED  BY <1>1, <1>2, <1>3, <2>1, <3>1, TxOfProperties
  <2>2. CASE ~(i <= Len(p))
    <3>1. i - Len(p) \in 1..Len(q)
      BY <1>1, <2>2
    <3> QED  BY <1>1, <1>2, <1>3, <2>2, <3>1, TxOfProperties
  <2> QED  BY <2>1, <2>2
<1>5. a = b
  BY <1>2, <1>3, <1>4, SeqEqual
<1> QED  BY <1>5 DEF a, b

-----------------------------------------------------------------------------
(* The line of a server is the same after every step but SendRequest.      *)

LEMMA LineParts ==
  ASSUME Typed, NEW s \in Servers
  PROVE  /\ handed[s] \in Seq(Numbered) /\ pendingTransactions[s] \in Seq(Numbered)
         /\ toEnqueue[s] \in Seq(Numbered)
         /\ TxOf(handed[s]) \in Seq(Requests) /\ TxOf(pendingTransactions[s]) \in Seq(Requests)
         /\ TxOf(toEnqueue[s]) \in Seq(Requests) /\ Unnumbered(s) \in Seq(Requests)
         /\ batch[s] \in Seq(Requests)
         /\ requestBuffer[s] \in Seq(Requests) /\ accepted[s] \in Seq(Requests) /\ inbox[s] \in Seq(Requests)
         /\ accepted[s] \o inbox[s] \in Seq(Requests)
         /\ requestBuffer[s] \o (accepted[s] \o inbox[s]) \in Seq(Requests)
         /\ Unnumbered(s) \o (requestBuffer[s] \o (accepted[s] \o inbox[s])) \in Seq(Requests)
         /\ TxOf(toEnqueue[s]) \o (Unnumbered(s) \o (requestBuffer[s] \o (accepted[s] \o inbox[s]))) \in Seq(Requests)
         /\ TxOf(pendingTransactions[s]) \o (TxOf(toEnqueue[s]) \o (Unnumbered(s) \o (requestBuffer[s] \o (accepted[s] \o inbox[s])))) \in Seq(Requests)
         /\ Line(s) \in Seq(Requests)
<1>1. /\ handed[s] \in Seq(Numbered) /\ pendingTransactions[s] \in Seq(Numbered)
      /\ toEnqueue[s] \in Seq(Numbered) /\ batch[s] \in Seq(Requests)
      /\ requestBuffer[s] \in Seq(Requests) /\ accepted[s] \in Seq(Requests) /\ inbox[s] \in Seq(Requests)
  BY DEF Typed
<1>2. Unnumbered(s) \in Seq(Requests)
  BY <1>1, EmptySeq DEF Unnumbered
<1>3. /\ TxOf(handed[s]) \in Seq(Requests) /\ TxOf(pendingTransactions[s]) \in Seq(Requests)
      /\ TxOf(toEnqueue[s]) \in Seq(Requests)
  BY <1>1, TxOfProperties
<1>4. accepted[s] \o inbox[s] \in Seq(Requests)
  BY <1>1, ConcatProperties
<1>5. requestBuffer[s] \o (accepted[s] \o inbox[s]) \in Seq(Requests)
  BY <1>1, <1>4, ConcatProperties
<1>6. Unnumbered(s) \o (requestBuffer[s] \o (accepted[s] \o inbox[s])) \in Seq(Requests)
  BY <1>2, <1>5, ConcatProperties
<1>7. TxOf(toEnqueue[s]) \o (Unnumbered(s) \o (requestBuffer[s] \o (accepted[s] \o inbox[s]))) \in Seq(Requests)
  BY <1>3, <1>6, ConcatProperties
<1>8. TxOf(pendingTransactions[s]) \o (TxOf(toEnqueue[s]) \o (Unnumbered(s) \o (requestBuffer[s] \o (accepted[s] \o inbox[s])))) \in Seq(Requests)
  BY <1>3, <1>7, ConcatProperties
<1>9. Line(s) \in Seq(Requests)
  BY <1>3, <1>8, ConcatProperties DEF Line
<1> QED  BY <1>1, <1>2, <1>3, <1>4, <1>5, <1>6, <1>7, <1>8, <1>9

LEMMA EmptyLeft ==
  ASSUME NEW S, NEW q \in Seq(S)
  PROVE  <<>> \o q = q /\ q \o <<>> = q
BY ConcatEmptySeq

(* CollectRequest, BufferRequest, PackBatch: towards the batch.            *)
LEMMA CollectKeepsLine ==
  ASSUME Typed, NEW s \in Servers, CollectRequest(s)
  PROVE  \A u \in Servers : Line(u)' = Line(u)
<1>1. /\ inbox[s] # <<>> /\ accepted[s] = <<>>
      /\ inbox' = [inbox EXCEPT ![s] = Tail(@)]
      /\ accepted' = [accepted EXCEPT ![s] = <<Head(inbox[s])>>]
      /\ UNCHANGED <<requestBuffer, rpc, batch, toEnqueue, pendingTransactions, handed>>
  BY DEF CollectRequest, batchVars, queueVars
<1>2. CASE TRUE
  <2> SUFFICES ASSUME NEW u \in Servers PROVE Line(u)' = Line(u)
    OBVIOUS
  <2>1. CASE u # s
    <3>1. inbox'[u] = inbox[u] /\ accepted'[u] = accepted[u]
      BY <1>1, <2>1 DEF Typed
    <3> QED  BY <1>1, <3>1 DEF Line, Unnumbered
  <2>2. CASE u = s
    <3>1. inbox'[s] = Tail(inbox[s]) /\ accepted'[s] = <<Head(inbox[s])>>
      BY <1>1 DEF Typed
    <3>2. <<Head(inbox[s])>> \o Tail(inbox[s]) = inbox[s] /\ <<>> \o inbox[s] = inbox[s]
      BY <1>1, LineParts, HeadFirst, EmptyLeft
    <3>3. accepted'[s] \o inbox'[s] = accepted[s] \o inbox[s]
      BY <1>1, <3>1, <3>2
    <3> QED  BY <1>1, <2>2, <3>3 DEF Line, Unnumbered
  <2> QED  BY <2>1, <2>2
<1> QED  BY <1>2

LEMMA BufferKeepsLine ==
  ASSUME Typed, NEW s \in Servers, BufferRequest(s)
  PROVE  \A u \in Servers : Line(u)' = Line(u)
<1>1. /\ accepted[s] # <<>>
      /\ requestBuffer' = [requestBuffer EXCEPT ![s] = @ \o accepted[s]]
      /\ accepted' = [accepted EXCEPT ![s] = <<>>]
      /\ UNCHANGED <<inbox, rpc, batch, toEnqueue, pendingTransactions, handed>>
  BY DEF BufferRequest, batchVars, queueVars
<1> SUFFICES ASSUME NEW u \in Servers PROVE Line(u)' = Line(u)
  OBVIOUS
<1>2. CASE u # s
  <2>1. requestBuffer'[u] = requestBuffer[u] /\ accepted'[u] = accepted[u]
    BY <1>1, <1>2 DEF Typed
  <2> QED  BY <1>1, <2>1 DEF Line, Unnumbered
<1>3. CASE u = s
  <2>1. requestBuffer'[s] = requestBuffer[s] \o accepted[s] /\ accepted'[s] = <<>>
    BY <1>1 DEF Typed
  <2>2. /\ requestBuffer[s] \in Seq(Requests) /\ accepted[s] \in Seq(Requests) /\ inbox[s] \in Seq(Requests)
        /\ <<>> \o inbox[s] = inbox[s]
    BY LineParts, EmptyLeft
  <2>3. requestBuffer[s] \o (accepted[s] \o inbox[s]) = (requestBuffer[s] \o accepted[s]) \o inbox[s]
    BY <2>2, RequestsAssociative, Zenon
  <2>4. requestBuffer'[s] \o (accepted'[s] \o inbox'[s]) = requestBuffer[s] \o (accepted[s] \o inbox[s])
    BY <1>1, <2>1, <2>2, <2>3
  <2> QED  BY <1>1, <1>3, <2>4 DEF Line, Unnumbered
<1> QED  BY <1>2, <1>3

LEMMA PackKeepsLine ==
  ASSUME Typed, NEW s \in Servers, PackBatch(s)
  PROVE  \A u \in Servers : Line(u)' = Line(u)
<1>1. /\ rpc[s] = "dequeue" /\ rpc' = [rpc EXCEPT ![s] = "numbering"]
      /\ UNCHANGED <<inbox, accepted, toEnqueue, pendingTransactions, handed>>
  BY DEF PackBatch, queueVars
<1>2. PICK n \in 1..MaxBatch :
        /\ n <= Len(requestBuffer[s])
        /\ batch' = [batch EXCEPT ![s] = SubSeq(requestBuffer[s], 1, n)]
        /\ requestBuffer' = [requestBuffer EXCEPT ![s] = SubSeq(@, n + 1, Len(@))]
  BY DEF PackBatch
<1> SUFFICES ASSUME NEW u \in Servers PROVE Line(u)' = Line(u)
  OBVIOUS
<1>3. CASE u # s
  <2>1. requestBuffer'[u] = requestBuffer[u] /\ batch'[u] = batch[u] /\ rpc'[u] = rpc[u]
    BY <1>1, <1>2, <1>3 DEF Typed
  <2> QED  BY <1>1, <2>1 DEF Line, Unnumbered
<1>4. CASE u = s
  <2> DEFINE q == requestBuffer[s]
             r == accepted[s] \o inbox[s]
  <2>1. /\ batch'[s] = SubSeq(q, 1, n) /\ requestBuffer'[s] = SubSeq(q, n + 1, Len(q))
        /\ rpc'[s] = "numbering"
    BY <1>1, <1>2 DEF Typed
  <2>2. q \in Seq(Requests) /\ r \in Seq(Requests) /\ q \o r \in Seq(Requests)
    BY LineParts
  <2>3. n \in 0..Len(q)
    BY <1>2, <2>2, LenProperties
  <2>4. /\ SubSeq(q, 1, n) \o SubSeq(q, n + 1, Len(q)) = q
        /\ SubSeq(q, 1, n) \in Seq(Requests) /\ SubSeq(q, n + 1, Len(q)) \in Seq(Requests)
    BY <2>2, <2>3, CutInTwo
  <2>5. Unnumbered(s)' = SubSeq(q, 1, n) /\ Unnumbered(s) = <<>>
    BY <1>1, <2>1 DEF Unnumbered
  <2>6. SubSeq(q, 1, n) \o (SubSeq(q, n + 1, Len(q)) \o r) = (SubSeq(q, 1, n) \o SubSeq(q, n + 1, Len(q))) \o r
    BY <2>2, <2>4, RequestsAssociative, Zenon
  <2>7. <<>> \o (q \o r) = q \o r
    BY <2>2, EmptyLeft
  <2>8. Unnumbered(s)' \o (requestBuffer'[s] \o (accepted[s] \o inbox[s]))
          = Unnumbered(s) \o (requestBuffer[s] \o (accepted[s] \o inbox[s]))
    BY <2>1, <2>4, <2>5, <2>6, <2>7
  <2> QED  BY <1>1, <1>4, <2>8 DEF Line
<1> QED  BY <1>3, <1>4

(* Serve, EnqueueTransaction, EnqueueProof: towards the queue.             *)
LEMMA ServeKeepsLine ==
  ASSUME Typed, StepInv, NEW s \in Servers, Serve(s)
  PROVE  \A u \in Servers : Line(u)' = Line(u)
<1>1. /\ rpc[s] = "numbering" /\ rpc' = [rpc EXCEPT ![s] = "enqueue"]
      /\ toEnqueue' = [toEnqueue EXCEPT ![s] =
           [i \in DOMAIN batch[s] |-> [tx |-> batch[s][i], epoch |-> epochNum]]]
      /\ UNCHANGED <<inbox, accepted, requestBuffer, batch, pendingTransactions, handed>>
  BY DEF Serve, queueVars, collectVars
<1> SUFFICES ASSUME NEW u \in Servers PROVE Line(u)' = Line(u)
  OBVIOUS
<1>2. CASE u # s
  <2>1. toEnqueue'[u] = toEnqueue[u] /\ rpc'[u] = rpc[u]
    BY <1>1, <1>2 DEF Typed
  <2> QED  BY <1>1, <2>1 DEF Line, Unnumbered
<1>3. CASE u = s
  <2> DEFINE e == [i \in DOMAIN batch[s] |-> [tx |-> batch[s][i], epoch |-> epochNum]]
             r == requestBuffer[s] \o (accepted[s] \o inbox[s])
  <2>1. /\ toEnqueue'[s] = e /\ rpc'[s] = "enqueue" /\ toEnqueue[s] = <<>>
    BY <1>1 DEF Typed, StepInv
  <2>2. batch[s] \in Seq(Requests) /\ r \in Seq(Requests) /\ batch[s] \o r \in Seq(Requests)
    BY LineParts, ConcatProperties
  <2>3. TxOf(e) = batch[s]
    <3>1. DOMAIN batch[s] = 1..Len(batch[s]) /\ Len(batch[s]) \in Nat /\ batch[s] \in [1..Len(batch[s]) -> Requests]
      BY <2>2, LenProperties
    <3>2. e \in [1..Len(batch[s]) -> [tx : Requests, epoch : Epochs]]
      BY <3>1 DEF Typed
    <3>3. Len(e) = Len(batch[s])
      BY <3>1, <3>2
    <3>4. TxOf(e) = [i \in 1..Len(batch[s]) |-> batch[s][i]]
      BY <3>1, <3>3 DEF TxOf
    <3> QED  BY <3>1, <3>4
  <2>4. TxOf(<<>>) = <<>>
    BY DEF TxOf
  <2>5. Unnumbered(s)' = <<>> /\ Unnumbered(s) = batch[s]
    BY <1>1, <2>1 DEF Unnumbered
  <2>6. <<>> \o (batch[s] \o r) = batch[s] \o r /\ <<>> \o r = r
    BY <2>2, EmptyLeft
  <2>7. TxOf(toEnqueue'[s]) \o (Unnumbered(s)' \o r) = TxOf(toEnqueue[s]) \o (Unnumbered(s) \o r)
    BY <2>1, <2>3, <2>4, <2>5, <2>6
  <2> QED  BY <1>1, <1>3, <2>7 DEF Line
<1> QED  BY <1>2, <1>3

LEMMA EnqueueKeepsLine ==
  ASSUME Typed, NEW s \in Servers, EnqueueTransaction(s)
  PROVE  \A u \in Servers : Line(u)' = Line(u)
<1>1. /\ rpc[s] = "enqueue" /\ toEnqueue[s] # <<>>
      /\ pendingTransactions' = [pendingTransactions EXCEPT ![s] = Append(@, Head(toEnqueue[s]))]
      /\ toEnqueue' = [toEnqueue EXCEPT ![s] = Tail(@)]
      /\ UNCHANGED <<inbox, accepted, requestBuffer, batch, rpc, handed>>
  BY DEF EnqueueTransaction, collectVars
<1> SUFFICES ASSUME NEW u \in Servers PROVE Line(u)' = Line(u)
  OBVIOUS
<1>2. CASE u # s
  <2>1. toEnqueue'[u] = toEnqueue[u] /\ pendingTransactions'[u] = pendingTransactions[u]
    BY <1>1, <1>2 DEF Typed
  <2> QED  BY <1>1, <2>1 DEF Line, Unnumbered
<1>3. CASE u = s
  <2> DEFINE p == pendingTransactions[s]
             e == toEnqueue[s]
             r == Unnumbered(s) \o (requestBuffer[s] \o (accepted[s] \o inbox[s]))
  <2>1. toEnqueue'[s] = Tail(e) /\ pendingTransactions'[s] = Append(p, Head(e))
    BY <1>1 DEF Typed
  <2>2. p \in Seq(Numbered) /\ e \in Seq(Numbered) /\ r \in Seq(Requests)
    BY LineParts
  <2>3. /\ <<Head(e)>> \o Tail(e) = e /\ <<Head(e)>> \in Seq(Numbered) /\ Tail(e) \in Seq(Numbered)
        /\ Head(e) \in Numbered
    BY <1>1, <2>2, HeadFirst
  <2>4. Append(p, Head(e)) = p \o <<Head(e)>>
    BY <2>2, <2>3, AppendIsConcat
  <2>5. /\ TxOf(p \o <<Head(e)>>) = TxOf(p) \o TxOf(<<Head(e)>>)
        /\ TxOf(<<Head(e)>> \o Tail(e)) = TxOf(<<Head(e)>>) \o TxOf(Tail(e))
    BY <2>2, <2>3, TxOfConcat
  <2> DEFINE h == TxOf(<<Head(e)>>)
             a == TxOf(p)
             t == TxOf(Tail(e))
  <2>6. h \in Seq(Requests) /\ a \in Seq(Requests) /\ t \in Seq(Requests)
    BY <2>2, <2>3, TxOfProperties
  <2>7. TxOf(pendingTransactions'[s]) = a \o h /\ TxOf(toEnqueue'[s]) = t /\ TxOf(e) = h \o t
    BY <2>1, <2>3, <2>4, <2>5
  <2> HIDE DEF h, a, t, r
  <2>8. t \o r \in Seq(Requests)
    BY <2>2, <2>6, ConcatProperties
  <2>9. a \o (h \o (t \o r)) = (a \o h) \o (t \o r)
    BY <2>6, <2>8, RequestsAssociative, Zenon
  <2>10. h \o (t \o r) = (h \o t) \o r
    BY <2>2, <2>6, RequestsAssociative, Zenon
  <2>11. TxOf(pendingTransactions'[s]) \o (TxOf(toEnqueue'[s]) \o r) = TxOf(p) \o (TxOf(e) \o r)
    BY <2>7, <2>9, <2>10 DEF a
  <2>12. Unnumbered(s)' = Unnumbered(s)
    BY <1>1 DEF Unnumbered
  <2> QED  BY <1>1, <1>3, <2>11, <2>12 DEF Line, r
<1> QED  BY <1>2, <1>3

LEMMA ProofKeepsLine ==
  ASSUME Typed, NEW s \in Servers, EnqueueProof(s)
  PROVE  \A u \in Servers : Line(u)' = Line(u)
<1>1. /\ rpc[s] = "enqueue" /\ rpc' = [rpc EXCEPT ![s] = "dequeue"]
      /\ batch' = [batch EXCEPT ![s] = <<>>]
      /\ UNCHANGED <<inbox, accepted, requestBuffer, toEnqueue, pendingTransactions, handed>>
  BY DEF EnqueueProof, collectVars
<1>2. \A u \in Servers : Unnumbered(u)' = Unnumbered(u)
  <2> SUFFICES ASSUME NEW u \in Servers PROVE Unnumbered(u)' = Unnumbered(u)
    OBVIOUS
  <2>1. CASE u = s
    BY <1>1, <2>1 DEF Unnumbered, Typed
  <2>2. CASE u # s
    BY <1>1, <2>2 DEF Unnumbered, Typed
  <2> QED  BY <2>1, <2>2
<1> QED  BY <1>1, <1>2 DEF Line

(* The local receiver takes what the first proof names.                    *)
LEMMA TakeKeepsLine ==
  ASSUME Typed, NEW s \in Servers, TakeBatch(s)
  PROVE  \A u \in Servers : Line(u)' = Line(u)
<1> DEFINE q == pendingTransactions[s]
           size == Head(pendingTransactionsProof[s]).size
           n == IF size <= Len(q) THEN size ELSE Len(q)
<1>1. /\ pendingTransactionsProof[s] # <<>>
      /\ handed' = [handed EXCEPT ![s] = @ \o SubSeq(q, 1, n)]
      /\ pendingTransactions' = [pendingTransactions EXCEPT ![s] = SubSeq(q, n + 1, Len(q))]
      /\ UNCHANGED <<inbox, accepted, requestBuffer, batch, rpc, toEnqueue>>
  BY DEF TakeBatch, collectVars, batchVars
<1> SUFFICES ASSUME NEW u \in Servers PROVE Line(u)' = Line(u)
  OBVIOUS
<1>2. CASE u # s
  <2>1. handed'[u] = handed[u] /\ pendingTransactions'[u] = pendingTransactions[u]
    BY <1>1, <1>2 DEF Typed
  <2> QED  BY <1>1, <2>1 DEF Line, Unnumbered
<1>3. CASE u = s
  <2> DEFINE front == SubSeq(q, 1, n)
             back  == SubSeq(q, n + 1, Len(q))
             r == TxOf(toEnqueue[s]) \o (Unnumbered(s) \o (requestBuffer[s] \o (accepted[s] \o inbox[s])))
  <2>1. n \in 0..Len(q)
    <3>1. Len(q) \in Nat
      BY LineParts, LenProperties
    <3>2. pendingTransactionsProof[s] \in Seq(Proofs)
      BY DEF Typed
    <3>3. Head(pendingTransactionsProof[s]) \in Proofs
      BY <1>1, <3>2, HeadTailProperties
    <3>4. size \in Nat
      BY <3>3 DEF Proofs
    <3> QED  BY <3>1, <3>4
  <2> HIDE DEF n
  <2>2. q \in Seq(Numbered) /\ handed[s] \in Seq(Numbered) /\ r \in Seq(Requests)
    BY LineParts
  <2>3. front \o back = q /\ front \in Seq(Numbered) /\ back \in Seq(Numbered)
    BY <2>1, <2>2, CutInTwo
  <2>4. handed'[s] = handed[s] \o front /\ pendingTransactions'[s] = back
    BY <1>1 DEF Typed
  <2>5. TxOf(handed[s] \o front) = TxOf(handed[s]) \o TxOf(front) /\ TxOf(front \o back) = TxOf(front) \o TxOf(back)
    BY <2>2, <2>3, TxOfConcat
  <2> DEFINE h == TxOf(handed[s])
             f == TxOf(front)
             b == TxOf(back)
  <2>6. h \in Seq(Requests) /\ f \in Seq(Requests) /\ b \in Seq(Requests)
    BY <2>2, <2>3, TxOfProperties
  <2>7. TxOf(handed'[s]) = h \o f /\ TxOf(pendingTransactions'[s]) = b /\ TxOf(q) = f \o b
    BY <2>3, <2>4, <2>5
  <2> HIDE DEF h, f, b, r
  <2>8. b \o r \in Seq(Requests)
    BY <2>2, <2>6, ConcatProperties
  <2>9. h \o (f \o (b \o r)) = (h \o f) \o (b \o r)
    BY <2>6, <2>8, RequestsAssociative, Zenon
  <2>10. f \o (b \o r) = (f \o b) \o r
    BY <2>2, <2>6, RequestsAssociative, Zenon
  <2>11. TxOf(handed'[s]) \o (TxOf(pendingTransactions'[s]) \o r) = TxOf(handed[s]) \o (TxOf(q) \o r)
    BY <2>7, <2>9, <2>10 DEF h
  <2>12. Unnumbered(s)' = Unnumbered(s)
    BY <1>1 DEF Unnumbered
  <2> QED  BY <1>1, <1>3, <2>11, <2>12 DEF Line, r
<1> QED  BY <1>2, <1>3

(* A request joins the end of its server's line.                           *)
LEMMA SendJoinsLine ==
  ASSUME Bounds, Typed, NEW c \in Clients, SendRequest(c)
  PROVE  /\ ServerOf[c] \in Servers /\ <<c, sent[c]>> \in Requests
         /\ Line(ServerOf[c])' = Append(Line(ServerOf[c]), <<c, sent[c]>>)
         /\ \A u \in Servers : u # ServerOf[c] => Line(u)' = Line(u)
<1> DEFINE s == ServerOf[c]
           x == <<c, sent[c]>>
<1>1. /\ inbox' = [inbox EXCEPT ![s] = Append(@, x)]
      /\ sent[c] < MaxRequests
      /\ UNCHANGED <<accepted, requestBuffer, batch, rpc, toEnqueue, pendingTransactions, handed>>
  BY DEF SendRequest, batchVars, queueVars
<1>2. s \in Servers /\ x \in Requests
  BY DEF Bounds, Typed, Requests
<1> HIDE DEF s, x
<1>3. \A u \in Servers : u # s => Line(u)' = Line(u)
  <2> SUFFICES ASSUME NEW u \in Servers, u # s PROVE Line(u)' = Line(u)
    OBVIOUS
  <2>1. inbox'[u] = inbox[u]
    BY <1>1 DEF Typed
  <2> QED  BY <1>1, <2>1 DEF Line, Unnumbered
<1>4. Line(s)' = Append(Line(s), x)
  <2> DEFINE y  == <<x>>
             a0 == inbox[s]
             a1 == accepted[s]
             a2 == requestBuffer[s]
             a3 == Unnumbered(s)
             a4 == TxOf(toEnqueue[s])
             a5 == TxOf(pendingTransactions[s])
             a6 == TxOf(handed[s])
  <2>1. inbox'[s] = Append(inbox[s], x)
    BY <1>1, <1>2 DEF Typed
  <2>2. /\ a0 \in Seq(Requests) /\ a1 \in Seq(Requests) /\ a2 \in Seq(Requests) /\ a3 \in Seq(Requests)
        /\ a4 \in Seq(Requests) /\ a5 \in Seq(Requests) /\ a6 \in Seq(Requests)
        /\ Line(s) \in Seq(Requests)
    BY <1>2, LineParts
  <2>3. y \in Seq(Requests) /\ Append(inbox[s], x) = a0 \o y /\ Append(Line(s), x) = Line(s) \o y
    BY <1>2, <2>2, AppendIsConcat
  <2>4. /\ Unnumbered(s)' = Unnumbered(s)
        /\ Line(s)' = a6 \o (a5 \o (a4 \o (a3 \o (a2 \o (a1 \o (a0 \o y))))))
    BY <1>1, <2>1, <2>3 DEF Line, Unnumbered
  <2>5. Line(s) = a6 \o (a5 \o (a4 \o (a3 \o (a2 \o (a1 \o a0)))))
    BY DEF Line
  <2> HIDE DEF y, a0, a1, a2, a3, a4, a5, a6
  <2> DEFINE l1 == a1 \o a0
  <2>m1. a1 \in Seq(Requests) /\ y \in Seq(Requests) /\ a0 \in Seq(Requests)
    BY <2>2, <2>3
  <2>c1. a1 \o (a0 \o y) = l1 \o y
    BY <2>m1, RequestsAssociative, Zenon
  <2>t1. l1 \in Seq(Requests)
    BY <2>m1, ConcatProperties
  <2> HIDE DEF l1
  <2> DEFINE l2 == a2 \o l1
  <2>m2. a2 \in Seq(Requests) /\ y \in Seq(Requests) /\ l1 \in Seq(Requests)
    BY <2>2, <2>3, <2>t1
  <2>c2. a2 \o (l1 \o y) = l2 \o y
    BY <2>m2, RequestsAssociative, Zenon
  <2>t2. l2 \in Seq(Requests)
    BY <2>m2, ConcatProperties
  <2> HIDE DEF l2
  <2> DEFINE l3 == a3 \o l2
  <2>m3. a3 \in Seq(Requests) /\ y \in Seq(Requests) /\ l2 \in Seq(Requests)
    BY <2>2, <2>3, <2>t2
  <2>c3. a3 \o (l2 \o y) = l3 \o y
    BY <2>m3, RequestsAssociative, Zenon
  <2>t3. l3 \in Seq(Requests)
    BY <2>m3, ConcatProperties
  <2> HIDE DEF l3
  <2> DEFINE l4 == a4 \o l3
  <2>m4. a4 \in Seq(Requests) /\ y \in Seq(Requests) /\ l3 \in Seq(Requests)
    BY <2>2, <2>3, <2>t3
  <2>c4. a4 \o (l3 \o y) = l4 \o y
    BY <2>m4, RequestsAssociative, Zenon
  <2>t4. l4 \in Seq(Requests)
    BY <2>m4, ConcatProperties
  <2> HIDE DEF l4
  <2> DEFINE l5 == a5 \o l4
  <2>m5. a5 \in Seq(Requests) /\ y \in Seq(Requests) /\ l4 \in Seq(Requests)
    BY <2>2, <2>3, <2>t4
  <2>c5. a5 \o (l4 \o y) = l5 \o y
    BY <2>m5, RequestsAssociative, Zenon
  <2>t5. l5 \in Seq(Requests)
    BY <2>m5, ConcatProperties
  <2> HIDE DEF l5
  <2> DEFINE l6 == a6 \o l5
  <2>m6. a6 \in Seq(Requests) /\ y \in Seq(Requests) /\ l5 \in Seq(Requests)
    BY <2>2, <2>3, <2>t5
  <2>c6. a6 \o (l5 \o y) = l6 \o y
    BY <2>m6, RequestsAssociative, Zenon
  <2>t6. l6 \in Seq(Requests)
    BY <2>m6, ConcatProperties
  <2> HIDE DEF l6
  <2> QED
    BY <2>3, <2>4, <2>5, <2>c1, <2>c2, <2>c3, <2>c4, <2>c5, <2>c6, Zenon DEF l1, l2, l3, l4, l5, l6
<1> QED  BY <1>2, <1>3, <1>4 DEF s, x

(* Positions of a client in a line that grows.                             *)
LEMMA OfGrows ==
  ASSUME NEW q, NEW c, NEW n \in Nat, NEW k, k = n + 1
  PROVE  /\ Cardinality(Of(q, c, n)) \in Nat
         /\ Cardinality(Of(q, c, k)) =
              IF q[k][1] = c THEN Cardinality(Of(q, c, n)) + 1 ELSE Cardinality(Of(q, c, n))
<1>1. IsFiniteSet(1..n)
  BY FS_Interval
<1>2. IsFiniteSet(Of(q, c, n))
  BY <1>1, FS_Subset DEF Of
<1>3. Cardinality(Of(q, c, n)) \in Nat
  BY <1>2, FS_CardinalityType
<1>4. 1..k = (1..n) \cup {k}
  OBVIOUS
<1>5. Of(q, c, k) = IF q[k][1] = c THEN Of(q, c, n) \cup {k} ELSE Of(q, c, n)
  BY <1>4 DEF Of
<1>6. k \notin Of(q, c, n)
  BY DEF Of
<1>7. Cardinality(Of(q, c, n) \cup {k}) = Cardinality(Of(q, c, n)) + 1
  BY <1>2, <1>6, FS_AddElement
<1> QED  BY <1>3, <1>5, <1>7

LEMMA LineStep ==
  ASSUME Bounds, Typed, StepInv, LineInv, [Next]_collectorVars
  PROVE  LineInv'
<1>1. ASSUME sent' = sent, \A u \in Servers : Line(u)' = Line(u)
      PROVE  LineInv'
  BY <1>1 DEF LineInv, InLine
<1>2. ASSUME NEW s \in Servers, ServerStep(s) PROVE LineInv'
  <2>1. sent' = sent
    BY <1>2 DEF ServerStep, CollectRequest, BufferRequest, PackBatch, Serve, EnqueueTransaction, EnqueueProof,
                TakeBatch, clientVars
  <2>2. \A u \in Servers : Line(u)' = Line(u)
    BY <1>2, CollectKeepsLine, BufferKeepsLine, PackKeepsLine, ServeKeepsLine, EnqueueKeepsLine,
       ProofKeepsLine, TakeKeepsLine DEF ServerStep
  <2> QED  BY <1>1, <2>1, <2>2
<1>3. CASE UpdateEpoch \/ Clock \/ UNCHANGED collectorVars
  <2>1. UNCHANGED <<sent, inbox, accepted, requestBuffer, batch, rpc, toEnqueue, pendingTransactions, handed>>
    BY <1>3 DEF UpdateEpoch, Clock, collectorVars, clientVars, collectVars, batchVars, queueVars
  <2>2. \A u \in Servers : Line(u)' = Line(u)
    BY <2>1 DEF Line, Unnumbered
  <2> QED  BY <1>1, <2>1, <2>2
<1>4. ASSUME NEW c \in Clients, SendRequest(c) PROVE LineInv'
  <2> DEFINE s == ServerOf[c]
             x == <<c, sent[c]>>
             q == Line(s)
  <2>1. /\ s \in Servers /\ x \in Requests
        /\ Line(s)' = Append(q, x)
        /\ \A u \in Servers : u # s => Line(u)' = Line(u)
    BY <1>4, SendJoinsLine
  <2>2. /\ sent'[c] = sent[c] + 1 /\ \A d \in Clients : d # c => sent'[d] = sent[d]
    BY <1>4 DEF SendRequest, Typed
  <2>3. q \in Seq(Requests) /\ Len(q) \in Nat /\ InLine(q, s)
    BY <2>1, LineParts, LenProperties DEF LineInv
  <2>4. x[1] = c /\ x[2] = sent[c]
    OBVIOUS
  <2> DEFINE p == Append(q, x)
  <2>5. /\ Len(p) = Len(q) + 1 /\ p[Len(q) + 1] = x /\ \A i \in 1..Len(q) : p[i] = q[i]
    BY <2>1, <2>3, AppendProperties
  <2> HIDE DEF x, p, q
  <2>6. \A d : \A n \in 0..Len(q) : Of(p, d, n) = Of(q, d, n)
    <3> SUFFICES ASSUME NEW d, NEW n \in 0..Len(q) PROVE Of(p, d, n) = Of(q, d, n)
      OBVIOUS
    <3>1. \A j \in 1..n : p[j] = q[j]
      BY <2>3, <2>5
    <3> QED  BY <3>1 DEF Of
  <2>7. sent[c] = Cardinality(Of(q, c, Len(q)))
    BY <2>3 DEF InLine, s
  <2>8. \A i \in 1..Len(p) : ServerOf[p[i][1]] = s /\ p[i][2] = Cardinality(Of(p, p[i][1], i - 1))
    <3> SUFFICES ASSUME NEW i \in 1..Len(p)
                 PROVE  ServerOf[p[i][1]] = s /\ p[i][2] = Cardinality(Of(p, p[i][1], i - 1))
      OBVIOUS
    <3>1. CASE i = Len(q) + 1
      <4>1. p[i] = x /\ i - 1 = Len(q) /\ Len(q) \in 0..Len(q)
        BY <2>3, <2>5, <3>1
      <4>2. Of(p, c, i - 1) = Of(q, c, Len(q))
        BY <2>6, <4>1
      <4> QED  BY <2>4, <2>7, <4>1, <4>2
    <3>2. CASE i # Len(q) + 1
      <4>1. i \in 1..Len(q) /\ i - 1 \in 0..Len(q)
        BY <2>3, <2>5, <3>2
      <4>2. p[i] = q[i] /\ Of(p, q[i][1], i - 1) = Of(q, q[i][1], i - 1)
        BY <2>5, <2>6, <4>1
      <4>3. ServerOf[q[i][1]] = s /\ q[i][2] = Cardinality(Of(q, q[i][1], i - 1))
        BY <2>3, <4>1 DEF InLine
      <4> QED  BY <4>2, <4>3
    <3> QED  BY <3>1, <3>2
  <2>9. \A d \in Clients : ServerOf[d] = s => sent'[d] = Cardinality(Of(p, d, Len(p)))
    <3> SUFFICES ASSUME NEW d \in Clients, ServerOf[d] = s
                 PROVE  sent'[d] = Cardinality(Of(p, d, Len(p)))
      OBVIOUS
    <3>1. Of(p, d, Len(q)) = Of(q, d, Len(q)) /\ sent[d] = Cardinality(Of(q, d, Len(q)))
      BY <2>3, <2>6 DEF InLine
    <3>2. Cardinality(Of(p, d, Len(q) + 1)) =
            IF p[Len(q) + 1][1] = d THEN Cardinality(Of(p, d, Len(q))) + 1 ELSE Cardinality(Of(p, d, Len(q)))
      <4>1. Len(q) \in Nat /\ Len(q) + 1 = Len(q) + 1
        BY <2>3
      <4> QED  BY <4>1, OfGrows
    <3>3. p[Len(q) + 1][1] = c
      BY <2>4, <2>5
    <3>4. Cardinality(Of(p, d, Len(p))) = IF c = d THEN sent[d] + 1 ELSE sent[d]
      BY <2>5, <3>1, <3>2, <3>3
    <3> QED  BY <2>2, <3>4
  <2> SUFFICES ASSUME NEW u \in Servers PROVE InLine(Line(u), u)'
    BY DEF LineInv
  <2>11. CASE u = s
    <3>1. Line(u)' = p
      BY <2>1, <2>11 DEF p
    <3> QED  BY <2>8, <2>9, <2>11, <3>1 DEF InLine
  <2>12. CASE u # s
    <3>1. Line(u)' = Line(u)
      BY <2>1, <2>12
    <3>2. \A d \in Clients : ServerOf[d] = u => sent'[d] = sent[d]
      BY <2>2, <2>12
    <3>3. InLine(Line(u), u)
      BY DEF LineInv
    <3> QED  BY <3>1, <3>2, <3>3 DEF InLine
  <2> QED  BY <2>11, <2>12
<1> QED  BY <1>2, <1>3, <1>4 DEF Next

-----------------------------------------------------------------------------
(* Types.                                                                  *)

LEMMA CollectTyped ==
  ASSUME Bounds, Typed, ClientInv, NEW s \in Servers, CollectRequest(s)
  PROVE  Typed'
<1>1. /\ inbox[s] # <<>>
      /\ inbox' = [inbox EXCEPT ![s] = Tail(@)]
      /\ accepted' = [accepted EXCEPT ![s] = <<Head(inbox[s])>>]
      /\ answered' = [answered EXCEPT ![Head(inbox[s])[1]] = @ + 1]
      /\ UNCHANGED <<sent, requestBuffer, batchVars, queueVars, epochVars>>
  BY DEF CollectRequest
<1>2. /\ inbox[s] \in Seq(Requests) /\ Tail(inbox[s]) \in Seq(Requests) /\ <<Head(inbox[s])>> \in Seq(Requests)
      /\ Head(inbox[s]) = inbox[s][1] /\ inbox[s][1] \in Requests /\ 1 \in 1..Len(inbox[s])
  <2>1. inbox[s] \in Seq(Requests)
    BY DEF Typed
  <2>2. Tail(inbox[s]) \in Seq(Requests) /\ Head(inbox[s]) = inbox[s][1] /\ Head(inbox[s]) \in Requests
    BY <1>1, <2>1, HeadTailProperties
  <2>3. 1 \in 1..Len(inbox[s])
    BY <1>1, <2>1, EmptySeq, LenProperties
  <2> QED  BY <2>1, <2>2, <2>3
<1> DEFINE c == inbox[s][1][1]
<1>3. c \in Clients
  BY <1>2 DEF Requests
<1>4. sent[c] = answered[c] + 1
  BY <1>2 DEF ClientInv
<1> HIDE DEF c
<1>5. answered[c] + 1 \in 0..MaxRequests
  BY <1>3, <1>4 DEF Typed, Bounds
<1>6. answered' \in [Clients -> 0..MaxRequests]
  <2>1. answered' = [answered EXCEPT ![c] = @ + 1]
    BY <1>1, <1>2 DEF c
  <2>2. answered \in [Clients -> 0..MaxRequests]
    BY DEF Typed
  <2> QED  BY <1>3, <1>5, <2>1, <2>2
<1>7. inbox' \in [Servers -> Seq(Requests)] /\ accepted' \in [Servers -> Seq(Requests)]
  <2>1. inbox \in [Servers -> Seq(Requests)] /\ accepted \in [Servers -> Seq(Requests)]
    BY DEF Typed
  <2> QED  BY <1>1, <1>2, <2>1
<1> QED  BY <1>1, <1>6, <1>7 DEF Typed, batchVars, queueVars, epochVars

LEMMA BufferTyped ==
  ASSUME Bounds, Typed, NEW s \in Servers, BufferRequest(s)
  PROVE  Typed'
<1>1. /\ requestBuffer' = [requestBuffer EXCEPT ![s] = @ \o accepted[s]]
      /\ accepted' = [accepted EXCEPT ![s] = <<>>]
      /\ UNCHANGED <<inbox, clientVars, batchVars, queueVars, epochVars>>
  BY DEF BufferRequest
<1>2. requestBuffer[s] \o accepted[s] \in Seq(Requests) /\ <<>> \in Seq(Requests)
  BY ConcatProperties, EmptySeq DEF Typed
<1> QED  BY <1>1, <1>2 DEF Typed, clientVars, batchVars, queueVars, epochVars

LEMMA PackTyped ==
  ASSUME Bounds, Typed, NEW s \in Servers, PackBatch(s)
  PROVE  Typed' /\ batch'[s] # <<>>
<1>1. PICK n \in 1..MaxBatch :
       /\ n <= Len(requestBuffer[s])
       /\ batch' = [batch EXCEPT ![s] = SubSeq(requestBuffer[s], 1, n)]
       /\ requestBuffer' = [requestBuffer EXCEPT ![s] = SubSeq(@, n + 1, Len(@))]
  BY DEF PackBatch
<1>2. /\ rpc' = [rpc EXCEPT ![s] = "numbering"]
      /\ UNCHANGED <<inbox, accepted, clientVars, toEnqueue, queueVars, epochVars>>
  BY DEF PackBatch
<1>3. requestBuffer[s] \in Seq(Requests)
  BY DEF Typed
<1>4. n \in 0..Len(requestBuffer[s]) /\ n # 0
  BY <1>1, <1>3, LenProperties DEF Bounds
<1>5. /\ SubSeq(requestBuffer[s], 1, n) \in Seq(Requests)
      /\ SubSeq(requestBuffer[s], n + 1, Len(requestBuffer[s])) \in Seq(Requests)
      /\ Len(SubSeq(requestBuffer[s], 1, n)) = n
  BY <1>3, <1>4, CutInTwo
<1>6. SubSeq(requestBuffer[s], 1, n) # <<>>
  BY <1>4, <1>5, EmptySeq
<1>7. batch' \in [Servers -> Seq(Requests)] /\ requestBuffer' \in [Servers -> Seq(Requests)]
      /\ batch'[s] # <<>>
  BY <1>1, <1>5, <1>6 DEF Typed
<1> QED  BY <1>2, <1>7 DEF Typed, clientVars, queueVars, epochVars

LEMMA ServeTyped ==
  ASSUME Bounds, Typed, StepInv, NEW s \in Servers, Serve(s)
  PROVE  /\ Typed' /\ Len(batch[s]) \in Nat \ {0}
         /\ numbered' = [numbered EXCEPT ![s] = Append(@, epochNum)]
         /\ numbered'[s] # <<>> /\ Last(numbered'[s]) = epochNum
         /\ numbered'[s][Len(numbered'[s])] = epochNum /\ Len(numbered'[s]) \in 1..Len(numbered'[s])
         /\ epochSizeMap' = [epochSizeMap EXCEPT ![epochNum] = @ + Len(batch[s])]
         /\ Len(toEnqueue'[s]) = Len(batch[s])
         /\ \A i \in 1..Len(toEnqueue'[s]) : toEnqueue'[s][i].epoch = epochNum
<1> DEFINE e == [i \in DOMAIN batch[s] |-> [tx |-> batch[s][i], epoch |-> epochNum]]
<1>1. /\ rpc[s] = "numbering"
      /\ StartTimer
      /\ firstRequest' = IF epochSizeMap[epochNum] = 0
                         THEN [firstRequest EXCEPT ![epochNum] = now] ELSE firstRequest
      /\ totalSize' = totalSize + Len(batch[s])
      /\ epochSizeMap' = [epochSizeMap EXCEPT ![epochNum] = @ + Len(batch[s])]
      /\ numbered' = [numbered EXCEPT ![s] = Append(@, epochNum)]
      /\ rpc' = [rpc EXCEPT ![s] = "enqueue"]
      /\ toEnqueue' = [toEnqueue EXCEPT ![s] = e]
      /\ serving' = TRUE
      /\ UNCHANGED <<now, epochNum, batch, clientVars, collectVars, queueVars>>
  BY DEF Serve
<1>2. batch[s] \in Seq(Requests) /\ numbered[s] \in Seq(Epochs) /\ epochNum \in Epochs
  BY DEF Typed
<1>3. /\ Len(batch[s]) \in Nat \ {0} /\ DOMAIN batch[s] = 1..Len(batch[s])
      /\ batch[s] \in [1..Len(batch[s]) -> Requests]
  <2>1. batch[s] # <<>>
    BY <1>1 DEF StepInv
  <2> QED  BY <1>2, <2>1, LenProperties, EmptySeq
<1>4. e \in Seq(Numbered) /\ Len(e) = Len(batch[s]) /\ \A i \in 1..Len(e) : e[i].epoch = epochNum
  <2>1. e \in [1..Len(batch[s]) -> Numbered]
    BY <1>2, <1>3 DEF Numbered
  <2>2. e \in Seq(Numbered)
    BY <1>3, <2>1, SeqDef
  <2>3. Len(e) = Len(batch[s])
    BY <1>3, <2>1, <2>2, LenProperties
  <2> QED  BY <1>3, <2>2, <2>3
<1> HIDE DEF e
<1>5. /\ Append(numbered[s], epochNum) \in Seq(Epochs)
      /\ Len(Append(numbered[s], epochNum)) = Len(numbered[s]) + 1 /\ Len(numbered[s]) \in Nat
      /\ Append(numbered[s], epochNum)[Len(numbered[s]) + 1] = epochNum
  BY <1>2, AppendProperties, LenProperties
<1>6. numbered' \in [Servers -> Seq(Epochs)] /\ numbered'[s] = Append(numbered[s], epochNum)
  BY <1>1, <1>5 DEF Typed
<1>7. /\ numbered'[s] # <<>> /\ Last(numbered'[s]) = epochNum
      /\ numbered'[s][Len(numbered'[s])] = epochNum /\ Len(numbered'[s]) \in 1..Len(numbered'[s])
  BY <1>5, <1>6, EmptySeq DEF Last
<1>8. epochSizeMap' \in [Epochs -> Nat] /\ totalSize' \in Nat
  <2>1. Len(batch[s]) \in Nat
    BY <1>3
  <2> DEFINE l == Len(batch[s])
  <2>2. /\ l \in Nat /\ epochSizeMap \in [Epochs -> Nat] /\ totalSize \in Nat /\ epochNum \in Epochs
        /\ epochSizeMap' = [epochSizeMap EXCEPT ![epochNum] = @ + l] /\ totalSize' = totalSize + l
    BY <1>1, <2>1 DEF Typed
  <2> HIDE DEF l
  <2>3. epochSizeMap[epochNum] + l \in Nat
    BY <2>2
  <2> QED  BY <2>2, <2>3
<1>9. epochStartTime' \in 0..now' /\ firstRequest' \in [Epochs -> Nat]
  BY <1>1, <1>2 DEF Typed, StartTimer, Bounds
<1>10. toEnqueue' \in [Servers -> Seq(Numbered)] /\ toEnqueue'[s] = e
  BY <1>1, <1>4 DEF Typed
<1>11. rpc' \in [Servers -> {"dequeue", "numbering", "enqueue"}] /\ serving' \in BOOLEAN
  BY <1>1 DEF Typed
<1>12. Typed'
  BY <1>1, <1>6, <1>8, <1>9, <1>10, <1>11 DEF Typed, clientVars, collectVars, queueVars
<1> QED  BY <1>1, <1>3, <1>4, <1>7, <1>10, <1>12

LEMMA EnqueueTyped ==
  ASSUME Bounds, Typed, NEW s \in Servers, EnqueueTransaction(s)
  PROVE  Typed'
<1>1. /\ toEnqueue[s] # <<>>
      /\ pendingTransactions' = [pendingTransactions EXCEPT ![s] = Append(@, Head(toEnqueue[s]))]
      /\ toEnqueue' = [toEnqueue EXCEPT ![s] = Tail(@)]
      /\ UNCHANGED <<batch, rpc, pendingTransactionsProof, handed, takenBatches,
                     clientVars, collectVars, epochVars>>
  BY DEF EnqueueTransaction
<1>2. toEnqueue[s] \in Seq(Numbered) /\ pendingTransactions[s] \in Seq(Numbered)
  BY DEF Typed
<1>3. Head(toEnqueue[s]) \in Numbered /\ Tail(toEnqueue[s]) \in Seq(Numbered)
  BY <1>1, <1>2, HeadTailProperties
<1>4. Append(pendingTransactions[s], Head(toEnqueue[s])) \in Seq(Numbered)
  BY <1>2, <1>3, AppendProperties
<1>5. toEnqueue' \in [Servers -> Seq(Numbered)] /\ pendingTransactions' \in [Servers -> Seq(Numbered)]
  BY <1>1, <1>3, <1>4 DEF Typed
<1> QED  BY <1>1, <1>5 DEF Typed, clientVars, collectVars, epochVars

LEMMA ProofTyped ==
  ASSUME Bounds, Typed, StepInv, NEW s \in Servers, EnqueueProof(s)
  PROVE  Typed'
<1> DEFINE proof == [epoch |-> Last(numbered[s]), size |-> Len(batch[s])]
<1>1. /\ rpc[s] = "enqueue"
      /\ pendingTransactionsProof' = [pendingTransactionsProof EXCEPT ![s] = Append(@, proof)]
      /\ rpc' = [rpc EXCEPT ![s] = "dequeue"]
      /\ batch' = [batch EXCEPT ![s] = <<>>]
      /\ UNCHANGED <<toEnqueue, pendingTransactions, handed, takenBatches,
                     clientVars, collectVars, epochVars>>
  BY DEF EnqueueProof
<1>2. /\ numbered[s] \in Seq(Epochs) /\ batch[s] \in Seq(Requests)
      /\ pendingTransactionsProof[s] \in Seq(Proofs) /\ numbered[s] # <<>>
  BY <1>1 DEF Typed, StepInv
<1>3. Last(numbered[s]) \in Epochs
  <2>1. Len(numbered[s]) \in 1..Len(numbered[s])
    BY <1>2, EmptySeq, LenProperties
  <2>2. numbered[s][Len(numbered[s])] \in Epochs
    BY <1>2, <2>1, ElementOfSeq
  <2> QED  BY <2>2 DEF Last
<1>4. proof \in Proofs
  BY <1>2, <1>3, LenProperties DEF Proofs
<1> HIDE DEF proof
<1>5. Append(pendingTransactionsProof[s], proof) \in Seq(Proofs)
  BY <1>2, <1>4, AppendProperties
<1>6. pendingTransactionsProof' \in [Servers -> Seq(Proofs)] /\ batch' \in [Servers -> Seq(Requests)]
      /\ rpc' \in [Servers -> {"dequeue", "numbering", "enqueue"}]
  BY <1>1, <1>5, EmptySeq DEF Typed
<1> QED  BY <1>1, <1>6 DEF Typed, clientVars, collectVars, epochVars

LEMMA SendTyped ==
  ASSUME Bounds, Typed, NEW c \in Clients, SendRequest(c)
  PROVE  Typed'
<1>1. /\ sent[c] < MaxRequests
      /\ inbox' = [inbox EXCEPT ![ServerOf[c]] = Append(@, <<c, sent[c]>>)]
      /\ sent' = [sent EXCEPT ![c] = @ + 1]
      /\ UNCHANGED <<answered, accepted, requestBuffer, batchVars, queueVars, epochVars>>
  BY DEF SendRequest
<1>2. ServerOf[c] \in Servers /\ <<c, sent[c]>> \in Requests
  BY SendJoinsLine
<1>3. Append(inbox[ServerOf[c]], <<c, sent[c]>>) \in Seq(Requests)
  BY <1>2, AppendProperties DEF Typed
<1>4. inbox' \in [Servers -> Seq(Requests)]
  BY <1>1, <1>2, <1>3 DEF Typed
<1>5. sent' \in [Clients -> 0..MaxRequests]
  <2>1. sent \in [Clients -> 0..MaxRequests] /\ MaxRequests \in Nat /\ sent[c] < MaxRequests
    BY <1>1 DEF Typed, Bounds
  <2>2. sent[c] \in 0..MaxRequests
    BY <2>1
  <2>3. sent[c] + 1 \in 0..MaxRequests
    BY <2>1, <2>2
  <2> QED  BY <1>1, <2>1, <2>3
<1> QED  BY <1>1, <1>4, <1>5 DEF Typed, batchVars, queueVars, epochVars

(* What TakeBatch takes is the first proof's transactions: they are all    *)
(* there, and have its epoch.                                              *)
LEMMA TakeEffect ==
  ASSUME Typed, QueueInv, NEW s \in Servers, TakeBatch(s)
  PROVE  LET q == pendingTransactions[s]
             proof == Head(pendingTransactionsProof[s])
         IN  /\ proof \in Proofs /\ proof = pendingTransactionsProof[s][1]
             /\ pendingTransactionsProof[s] # <<>> /\ proof.size \in 0..Len(q)
             /\ \A j \in 1..proof.size : q[j].epoch = proof.epoch
             /\ handed' = [handed EXCEPT ![s] = @ \o SubSeq(q, 1, proof.size)]
             /\ takenBatches' = [takenBatches EXCEPT ![s] =
                  Append(@, [proof |-> proof, upTo |-> Len(handed[s]) + proof.size])]
             /\ pendingTransactions' =
                  [pendingTransactions EXCEPT ![s] = SubSeq(q, proof.size + 1, Len(q))]
             /\ pendingTransactionsProof' = [pendingTransactionsProof EXCEPT ![s] = Tail(@)]
             /\ UNCHANGED <<clientVars, collectVars, batchVars, epochVars>>
<1> DEFINE q == pendingTransactions[s]
           proofs == pendingTransactionsProof[s]
           proof == Head(proofs)
           n == IF proof.size <= Len(q) THEN proof.size ELSE Len(q)
<1>1. /\ proofs # <<>>
      /\ handed' = [handed EXCEPT ![s] = @ \o SubSeq(q, 1, n)]
      /\ takenBatches' = [takenBatches EXCEPT ![s] =
                  Append(@, [proof |-> proof, upTo |-> Len(handed[s]) + n])]
      /\ pendingTransactions' = [pendingTransactions EXCEPT ![s] = SubSeq(q, n + 1, Len(q))]
      /\ pendingTransactionsProof' = [pendingTransactionsProof EXCEPT ![s] = Tail(@)]
      /\ UNCHANGED <<clientVars, collectVars, batchVars, epochVars>>
  BY DEF TakeBatch
<1>2. /\ q \in Seq(Numbered) /\ Len(q) \in Nat /\ proofs \in Seq(Proofs) /\ Len(proofs) \in Nat \ {0}
      /\ proof \in Proofs /\ proof = proofs[1]
  <2>1. q \in Seq(Numbered) /\ proofs \in Seq(Proofs)
    BY DEF Typed
  <2> QED  BY <1>1, <2>1, LenProperties, EmptySeq, HeadTailProperties
<1>3. proof.size \in Nat
  BY <1>2 DEF Proofs
<1>4. PICK f \in [0..Len(proofs) -> 0..Len(q)] : EndsOf(s, f)
  BY DEF QueueInv
<1>5. /\ f[0] = 0 /\ f[1] = f[1 - 1] + proof.size
      /\ \A j \in (f[1 - 1] + 1)..f[1] : q[j].epoch = proof.epoch
  <2>1. 1 \in 1..Len(proofs)
    BY <1>2
  <2> QED  BY <1>2, <1>4, <2>1 DEF EndsOf
<1>6. f[1] \in 0..Len(q) /\ f[1] = proof.size
  BY <1>2, <1>3, <1>5
<1>7. /\ n = proof.size /\ proof.size \in 0..Len(q)
      /\ \A j \in 1..proof.size : q[j].epoch = proof.epoch
  BY <1>2, <1>3, <1>5, <1>6
<1> HIDE DEF n, proof
<1> QED  BY <1>1, <1>2, <1>7 DEF proof

LEMMA TakeTyped ==
  ASSUME Bounds, Typed, QueueInv, NEW s \in Servers, TakeBatch(s)
  PROVE  Typed'
<1> DEFINE q == pendingTransactions[s]
           proof == Head(pendingTransactionsProof[s])
           size == proof.size
<1>1. /\ proof \in Proofs
      /\ pendingTransactionsProof[s] # <<>> /\ size \in 0..Len(q)
      /\ handed' = [handed EXCEPT ![s] = @ \o SubSeq(q, 1, size)]
      /\ takenBatches' = [takenBatches EXCEPT ![s] = Append(@, [proof |-> proof, upTo |-> Len(handed[s]) + size])]
      /\ pendingTransactions' = [pendingTransactions EXCEPT ![s] = SubSeq(q, size + 1, Len(q))]
      /\ pendingTransactionsProof' = [pendingTransactionsProof EXCEPT ![s] = Tail(@)]
      /\ UNCHANGED <<clientVars, collectVars, batchVars, epochVars>>
  BY TakeEffect
<1>2. /\ q \in Seq(Numbered) /\ Len(q) \in Nat /\ handed[s] \in Seq(Numbered)
      /\ pendingTransactionsProof[s] \in Seq(Proofs)
      /\ takenBatches[s] \in Seq([proof : Proofs, upTo : Nat])
  BY LenProperties DEF Typed
<1>3. Tail(pendingTransactionsProof[s]) \in Seq(Proofs)
  BY <1>1, <1>2, HeadTailProperties
<1>4. SubSeq(q, 1, size) \in Seq(Numbered) /\ SubSeq(q, size + 1, Len(q)) \in Seq(Numbered)
  BY <1>1, <1>2, CutInTwo
<1>5. handed[s] \o SubSeq(q, 1, size) \in Seq(Numbered)
  BY <1>2, <1>4, ConcatProperties
<1>6. [proof |-> proof, upTo |-> Len(handed[s]) + size] \in [proof : Proofs, upTo : Nat]
  BY <1>1, <1>2, LenProperties
<1>7. Append(takenBatches[s], [proof |-> proof, upTo |-> Len(handed[s]) + size]) \in Seq([proof : Proofs, upTo : Nat])
  BY <1>2, <1>6, AppendProperties
<1> HIDE DEF q, proof, size
<1>8. /\ handed' \in [Servers -> Seq(Numbered)] /\ pendingTransactions' \in [Servers -> Seq(Numbered)]
      /\ pendingTransactionsProof' \in [Servers -> Seq(Proofs)]
      /\ takenBatches' \in [Servers -> Seq([proof : Proofs, upTo : Nat])]
  BY <1>1, <1>3, <1>4, <1>5, <1>7 DEF Typed
<1> QED  BY <1>1, <1>8 DEF Typed, clientVars, collectVars, batchVars, epochVars

LEMMA TypedStep ==
  ASSUME Bounds, Typed, ClientInv, StepInv, QueueInv, [Next]_collectorVars
  PROVE  Typed'
<1>1. ASSUME NEW s \in Servers, ServerStep(s) PROVE Typed'
  BY <1>1, CollectTyped, BufferTyped, PackTyped, ServeTyped, EnqueueTyped, ProofTyped, TakeTyped DEF ServerStep
<1>2. CASE UpdateEpoch
  <2>1. epochNum' \in Epochs
    BY <1>2 DEF UpdateEpoch, Typed, Epochs, Bounds
  <2> QED  BY <1>2, <2>1 DEF UpdateEpoch, Typed, clientVars, collectVars, batchVars, queueVars
<1>3. CASE Clock
  <2>1. now' \in 0..MaxTime /\ epochStartTime' \in 0..now'
    BY <1>3 DEF Clock, Typed, Bounds
  <2> QED  BY <1>3, <2>1 DEF Clock, Typed, clientVars, collectVars, batchVars, queueVars
<1>4. CASE UNCHANGED collectorVars
  BY <1>4 DEF Typed, collectorVars, clientVars, collectVars, batchVars, queueVars, epochVars
<1> QED  BY <1>1, <1>2, <1>3, <1>4, SendTyped DEF Next

-----------------------------------------------------------------------------
(* One request of a client is outstanding.                                 *)

LEMMA ClientStep ==
  ASSUME Bounds, Typed, ClientInv, [Next]_collectorVars
  PROVE  ClientInv'
<1>1. ASSUME UNCHANGED <<sent, answered, inbox>> PROVE ClientInv'
  BY <1>1 DEF ClientInv
<1>2. ASSUME NEW s \in Servers, CollectRequest(s) PROVE ClientInv'
  <2> DEFINE q == inbox[s]
             h == q[1][1]
  <2>1. /\ q # <<>> /\ inbox' = [inbox EXCEPT ![s] = Tail(@)]
        /\ answered' = [answered EXCEPT ![Head(q)[1]] = @ + 1] /\ sent' = sent
    BY <1>2 DEF CollectRequest
  <2>2. q \in Seq(Requests) /\ Len(q) \in Nat \ {0} /\ Head(q) = q[1] /\ q[1] \in Requests
    <3>1. q \in Seq(Requests)
      BY DEF Typed
    <3> QED  BY <2>1, <3>1, HeadTailProperties, EmptySeq, LenProperties
  <2>3. Len(Tail(q)) = Len(q) - 1 /\ \A i \in 1..Len(Tail(q)) : Tail(q)[i] = q[i + 1]
    BY <2>1, <2>2, HeadTailProperties
  <2>4. h \in Clients
    BY <2>2 DEF Requests
  <2>5. ServerOf[h] = s /\ sent[h] = answered[h] + 1 /\ \A j \in 1..Len(q) : q[j][1] = h => j = 1
    BY <2>2 DEF ClientInv
  <2>6. answered'[h] = answered[h] + 1 /\ \A d \in Clients : d # h => answered'[d] = answered[d]
    BY <2>1, <2>2, <2>4 DEF Typed
  <2>7. inbox'[s] = Tail(q) /\ \A u \in Servers : u # s => inbox'[u] = inbox[u]
    BY <2>1 DEF Typed
  <2> HIDE DEF h
  <2>8. \A c \in Clients : sent'[c] = answered'[c] \/ sent'[c] = answered'[c] + 1
    BY <2>1, <2>5, <2>6 DEF ClientInv
  <2>9. ASSUME NEW u \in Servers, NEW i \in 1..Len(inbox'[u])
        PROVE  LET c == inbox'[u][i][1]
               IN  /\ ServerOf[c] = u /\ sent'[c] = answered'[c] + 1
                   /\ \A j \in 1..Len(inbox'[u]) : inbox'[u][j][1] = c => i = j
    <3>1. CASE u = s
      <4>1. /\ i + 1 \in 1..Len(q) /\ inbox'[u][i] = q[i + 1]
            /\ \A j \in 1..Len(inbox'[u]) : inbox'[u][j] = q[j + 1] /\ j + 1 \in 1..Len(q)
        <5> DEFINE t == Tail(q)
                   l == Len(t)
        <5>1. inbox'[u] = t /\ l = Len(q) - 1 /\ Len(q) \in Nat /\ i \in 1..l
              /\ \A j \in 1..l : t[j] = q[j + 1]
          BY <2>2, <2>3, <2>7, <2>9, <3>1
        <5> HIDE DEF t, l
        <5>2. \A j \in 1..l : j + 1 \in 1..Len(q)
          BY <5>1
        <5>3. Len(t) = l
          BY DEF l
        <5> QED  BY <5>1, <5>2, <5>3
      <4> DEFINE c == q[i + 1][1]
      <4>2. /\ ServerOf[c] = s /\ sent[c] = answered[c] + 1
            /\ \A j \in 1..Len(q) : q[j][1] = c => i + 1 = j
        BY <4>1 DEF ClientInv
      <4>3. c \in Clients
        BY <2>2, <4>1, ElementOfSeq DEF Requests
      <4>4. c # h
        BY <2>2, <2>5, <4>1
      <4>5. ASSUME NEW j \in 1..Len(inbox'[u]), inbox'[u][j][1] = c PROVE i = j
        <5>1. j + 1 \in 1..Len(q) /\ q[j + 1][1] = c
          BY <4>1, <4>5
        <5>2. i + 1 = j + 1
          BY <4>2, <5>1
        <5>3. i \in Int /\ j \in Int
          OBVIOUS
        <5> QED  BY <5>2, <5>3
      <4> QED  BY <2>1, <2>6, <3>1, <4>1, <4>2, <4>3, <4>4, <4>5
    <3>2. CASE u # s
      <4>1. inbox'[u] = inbox[u]
        BY <2>7, <3>2
      <4> DEFINE c == inbox[u][i][1]
      <4>2. /\ ServerOf[c] = u /\ sent[c] = answered[c] + 1
            /\ \A j \in 1..Len(inbox[u]) : inbox[u][j][1] = c => i = j
        BY <2>9, <4>1 DEF ClientInv
      <4>3. c \in Clients
        <5>1. inbox[u] \in Seq(Requests) /\ i \in 1..Len(inbox[u])
          BY <2>9, <4>1 DEF Typed
        <5> QED  BY <5>1, ElementOfSeq DEF Requests
      <4>4. c # h
        BY <2>5, <3>2, <4>2
      <4> QED  BY <2>1, <2>6, <4>1, <4>2, <4>3, <4>4
    <3> QED  BY <3>1, <3>2
  <2> QED  BY <2>8, <2>9 DEF ClientInv
<1>3. ASSUME NEW c \in Clients, SendRequest(c) PROVE ClientInv'
  <2> DEFINE s == ServerOf[c]
             q == inbox[s]
             x == <<c, sent[c]>>
  <2>1. /\ sent[c] = answered[c]
        /\ inbox' = [inbox EXCEPT ![s] = Append(@, x)]
        /\ sent' = [sent EXCEPT ![c] = @ + 1] /\ answered' = answered
    BY <1>3 DEF SendRequest
  <2>2. s \in Servers /\ x \in Requests /\ q \in Seq(Requests) /\ Len(q) \in Nat /\ x[1] = c
    BY <1>3, SendJoinsLine, LenProperties DEF Typed
  <2> HIDE DEF x
  <2>3. inbox'[s] = Append(q, x) /\ \A u \in Servers : u # s => inbox'[u] = inbox[u]
    BY <2>1, <2>2 DEF Typed
  <2>4. Len(Append(q, x)) = Len(q) + 1 /\ Append(q, x)[Len(q) + 1] = x /\ \A i \in 1..Len(q) : Append(q, x)[i] = q[i]
    BY <2>2, AppendProperties
  <2>5. /\ sent'[c] = sent[c] + 1 /\ \A d \in Clients : d # c => sent'[d] = sent[d]
        /\ sent[c] \in Nat
    BY <2>1 DEF Typed
  <2>6. \A d \in Clients : sent'[d] = answered'[d] \/ sent'[d] = answered'[d] + 1
    BY <2>1, <2>5 DEF ClientInv
  <2>7. ASSUME NEW u \in Servers, NEW i \in 1..Len(inbox[u])
        PROVE  LET d == inbox[u][i][1]
               IN  /\ d \in Clients /\ d # c /\ ServerOf[d] = u /\ sent'[d] = answered'[d] + 1
                   /\ \A j \in 1..Len(inbox[u]) : inbox[u][j][1] = d => i = j
    <3> DEFINE d == inbox[u][i][1]
    <3>1. /\ ServerOf[d] = u /\ sent[d] = answered[d] + 1
          /\ \A j \in 1..Len(inbox[u]) : inbox[u][j][1] = d => i = j
      BY <2>7 DEF ClientInv
    <3>2. d \in Clients
      <4>1. inbox[u] \in Seq(Requests)
        BY DEF Typed
      <4> QED  BY <2>7, <4>1, ElementOfSeq DEF Requests
    <3>3. d # c
      BY <2>1, <2>5, <3>1
    <3> QED  BY <2>1, <2>5, <3>1, <3>2, <3>3
  <2>8. ASSUME NEW u \in Servers, NEW i \in 1..Len(inbox'[u])
        PROVE  LET d == inbox'[u][i][1]
               IN  /\ ServerOf[d] = u /\ sent'[d] = answered'[d] + 1
                   /\ \A j \in 1..Len(inbox'[u]) : inbox'[u][j][1] = d => i = j
    <3>1. CASE u # s
      BY <2>3, <2>7, <2>8, <3>1
    <3>2. CASE u = s /\ i = Len(q) + 1
      <4>1. inbox'[u][i] = x /\ \A j \in 1..Len(inbox'[u]) : j # i => j \in 1..Len(q) /\ inbox'[u][j] = q[j]
        BY <2>2, <2>3, <2>4, <3>2
      <4>2. \A j \in 1..Len(inbox'[u]) : inbox'[u][j][1] = c => i = j
        BY <2>2, <2>7, <4>1
      <4> QED  BY <2>1, <2>2, <2>5, <3>2, <4>1, <4>2
    <3>3. CASE u = s /\ i # Len(q) + 1
      <4>1. i \in 1..Len(q) /\ inbox'[u][i] = q[i] /\ inbox'[u][Len(q) + 1] = x
            /\ \A j \in 1..Len(inbox'[u]) : j # Len(q) + 1 => j \in 1..Len(q) /\ inbox'[u][j] = q[j]
        BY <2>2, <2>3, <2>4, <2>8, <3>3
      <4>2. LET d == q[i][1]
            IN  /\ d # c /\ ServerOf[d] = s /\ sent'[d] = answered'[d] + 1
                /\ \A j \in 1..Len(q) : q[j][1] = d => i = j
        BY <2>2, <2>7, <4>1
      <4>3. ASSUME NEW j \in 1..Len(inbox'[u]), inbox'[u][j][1] = q[i][1] PROVE i = j
        <5>1. j # Len(q) + 1
          BY <2>2, <4>1, <4>2, <4>3
        <5> QED  BY <4>1, <4>2, <4>3, <5>1
      <4> QED  BY <3>3, <4>1, <4>2, <4>3
    <3> QED  BY <3>1, <3>2, <3>3
  <2> QED  BY <2>6, <2>8 DEF ClientInv
<1>4. ASSUME NEW s \in Servers, ServerStep(s) PROVE ClientInv'
  <2>1. CASE BufferRequest(s) \/ PackBatch(s) \/ Serve(s) \/ EnqueueTransaction(s) \/ EnqueueProof(s) \/ TakeBatch(s)
    <3>1. UNCHANGED <<sent, answered, inbox>>
      BY <2>1 DEF BufferRequest, PackBatch, Serve, EnqueueTransaction, EnqueueProof, TakeBatch, clientVars, collectVars
    <3> QED  BY <1>1, <3>1
  <2> QED  BY <1>2, <1>4, <2>1 DEF ServerStep
<1>5. CASE UpdateEpoch \/ Clock \/ UNCHANGED collectorVars
  <2>1. UNCHANGED <<sent, answered, inbox>>
    BY <1>5 DEF UpdateEpoch, Clock, collectorVars, clientVars, collectVars
  <2> QED  BY <1>1, <2>1
<1> QED  BY <1>3, <1>4, <1>5 DEF Next

-----------------------------------------------------------------------------
(* Where the collector's thread is, and what it has to enqueue.            *)

LEMMA StepsInOrder ==
  ASSUME Bounds, Typed, StepInv, [Next]_collectorVars
  PROVE  StepInv'
<1>1. ASSUME UNCHANGED <<rpc, batch, toEnqueue, numbered>> PROVE StepInv'
  BY <1>1 DEF StepInv
<1>2. ASSUME NEW s \in Servers, PackBatch(s) PROVE StepInv'
  <2>1. /\ rpc[s] = "dequeue" /\ rpc' = [rpc EXCEPT ![s] = "numbering"] /\ UNCHANGED <<toEnqueue, numbered>>
        /\ \A u \in Servers : u # s => batch'[u] = batch[u]
    BY <1>2 DEF PackBatch, Typed, epochVars
  <2>2. batch'[s] # <<>>
    BY <1>2, PackTyped
  <2>3. rpc'[s] = "numbering" /\ \A u \in Servers : u # s => rpc'[u] = rpc[u]
    BY <2>1 DEF Typed
  <2> QED  BY <2>1, <2>2, <2>3 DEF StepInv
<1>3. ASSUME NEW s \in Servers, Serve(s) PROVE StepInv'
  <2>1. /\ numbered'[s] # <<>> /\ Last(numbered'[s]) = epochNum
        /\ \A i \in 1..Len(toEnqueue'[s]) : toEnqueue'[s][i].epoch = epochNum
    BY <1>3, ServeTyped
  <2>2. rpc'[s] = "enqueue" /\ \A u \in Servers : u # s => rpc'[u] = rpc[u] /\ toEnqueue'[u] = toEnqueue[u]
                               /\ batch'[u] = batch[u] /\ numbered'[u] = numbered[u]
    BY <1>3 DEF Serve, Typed
  <2> SUFFICES ASSUME NEW u \in Servers
               PROVE  /\ rpc'[u] # "enqueue" => toEnqueue'[u] = <<>>
                      /\ rpc'[u] = "numbering" => batch'[u] # <<>>
                      /\ rpc'[u] = "enqueue" => numbered'[u] # <<>>
                      /\ \A i \in 1..Len(toEnqueue'[u]) : toEnqueue'[u][i].epoch = Last(numbered'[u])
    BY DEF StepInv
  <2>3. CASE u = s
    BY <2>1, <2>2, <2>3
  <2>4. CASE u # s
    BY <2>2, <2>4 DEF StepInv
  <2> QED  BY <2>3, <2>4
<1>4. ASSUME NEW s \in Servers, EnqueueTransaction(s) PROVE StepInv'
  <2>1. /\ rpc[s] = "enqueue" /\ toEnqueue[s] # <<>> /\ UNCHANGED <<rpc, batch, numbered>>
        /\ toEnqueue' = [toEnqueue EXCEPT ![s] = Tail(@)]
    BY <1>4 DEF EnqueueTransaction, epochVars
  <2>2. toEnqueue[s] \in Seq(Numbered) /\ toEnqueue'[s] = Tail(toEnqueue[s])
        /\ \A u \in Servers : u # s => toEnqueue'[u] = toEnqueue[u]
    BY <2>1 DEF Typed
  <2>3. \A i \in 1..Len(toEnqueue'[s]) : toEnqueue'[s][i].epoch = Last(numbered[s])
    <3> DEFINE e == toEnqueue[s]
               t == Tail(e)
               l == Len(t)
    <3>1. Len(e) \in Nat /\ l = Len(e) - 1 /\ \A i \in 1..l : t[i] = e[i + 1]
      BY <2>1, <2>2, HeadTailProperties, EmptySeq, LenProperties
    <3>2. \A i \in 1..Len(e) : e[i].epoch = Last(numbered[s])
      BY DEF StepInv
    <3>3. toEnqueue'[s] = t /\ Len(t) = l
      BY <2>2
    <3> HIDE DEF e, t, l
    <3>4. \A i \in 1..l : i + 1 \in 1..Len(e)
      BY <3>1
    <3> QED  BY <3>1, <3>2, <3>3, <3>4
  <2> SUFFICES ASSUME NEW u \in Servers
               PROVE  /\ rpc'[u] # "enqueue" => toEnqueue'[u] = <<>>
                      /\ rpc'[u] = "numbering" => batch'[u] # <<>>
                      /\ rpc'[u] = "enqueue" => numbered'[u] # <<>>
                      /\ \A i \in 1..Len(toEnqueue'[u]) : toEnqueue'[u][i].epoch = Last(numbered'[u])
    BY DEF StepInv
  <2>4. CASE u = s
    BY <2>1, <2>3, <2>4 DEF StepInv
  <2>5. CASE u # s
    BY <2>1, <2>2, <2>5 DEF StepInv
  <2> QED  BY <2>4, <2>5
<1>5. ASSUME NEW s \in Servers, EnqueueProof(s) PROVE StepInv'
  <2>1. /\ rpc[s] = "enqueue" /\ toEnqueue[s] = <<>> /\ UNCHANGED <<toEnqueue, numbered>>
        /\ rpc'[s] = "dequeue"
        /\ \A u \in Servers : u # s => rpc'[u] = rpc[u] /\ batch'[u] = batch[u]
    BY <1>5 DEF EnqueueProof, epochVars, Typed
  <2> QED  BY <2>1 DEF StepInv
<1>6. ASSUME NEW s \in Servers, ServerStep(s) PROVE StepInv'
  <2>1. CASE CollectRequest(s) \/ BufferRequest(s) \/ TakeBatch(s)
    <3>1. UNCHANGED <<rpc, batch, toEnqueue, numbered>>
      BY <2>1 DEF CollectRequest, BufferRequest, TakeBatch, batchVars, epochVars
    <3> QED  BY <1>1, <3>1
  <2> QED  BY <1>2, <1>3, <1>4, <1>5, <1>6, <2>1 DEF ServerStep
<1>7. CASE UpdateEpoch \/ Clock \/ UNCHANGED collectorVars
  <2>1. UNCHANGED <<rpc, batch, toEnqueue, numbered>>
    BY <1>7 DEF UpdateEpoch, Clock, collectorVars, batchVars, epochVars
  <2> QED  BY <1>1, <2>1
<1>8. ASSUME NEW c \in Clients, SendRequest(c) PROVE StepInv'
  BY <1>1, <1>8 DEF SendRequest, batchVars, epochVars
<1> QED  BY <1>6, <1>7, <1>8 DEF Next

-----------------------------------------------------------------------------
(* The epoch server.                                                       *)

LEMMA EpochStep ==
  ASSUME Bounds, Typed, StepInv, EpochInv, [Next]_collectorVars
  PROVE  EpochInv'
<1>1. ASSUME UNCHANGED <<epochStartTime, epochNum, epochSizeMap, serving, numbered, firstRequest>>
      PROVE  EpochInv'
  BY <1>1 DEF EpochInv
<1>2. ASSUME NEW s \in Servers, Serve(s) PROVE EpochInv'
  <2> DEFINE l == Len(batch[s])
  <2>1. /\ l \in Nat \ {0} /\ epochSizeMap' = [epochSizeMap EXCEPT ![epochNum] = @ + l]
        /\ numbered'[s][Len(numbered'[s])] = epochNum /\ Len(numbered'[s]) \in 1..Len(numbered'[s])
    BY <1>2, ServeTyped
  <2>2. /\ StartTimer /\ epochNum' = epochNum /\ serving' = TRUE
        /\ firstRequest' = IF epochSizeMap[epochNum] = 0
                           THEN [firstRequest EXCEPT ![epochNum] = now] ELSE firstRequest
    BY <1>2 DEF Serve
  <2>3. /\ epochNum \in Epochs /\ epochSizeMap \in [Epochs -> Nat] /\ firstRequest \in [Epochs -> Nat]
        /\ Epochs \subseteq Nat
    <3>1. Epochs \subseteq Nat
      BY DEF Epochs
    <3> QED  BY <3>1 DEF Typed
  <2> HIDE DEF l
  <2>4. epochSizeMap'[epochNum] > 0 /\ \A e \in Epochs : e # epochNum => epochSizeMap'[e] = epochSizeMap[e]
    <3>1. epochSizeMap'[epochNum] = epochSizeMap[epochNum] + l /\ epochSizeMap[epochNum] \in Nat
      BY <2>1, <2>3
    <3> QED  BY <2>1, <2>3, <3>1
  <2>5. \A e \in Epochs : epochNum' < e => epochSizeMap'[e] = 0
    BY <2>2, <2>3, <2>4 DEF EpochInv
  <2>6. firstRequest'[epochNum] = epochStartTime'
    <3>1. CASE epochSizeMap[epochNum] = 0
      BY <2>2, <2>3, <3>1 DEF StartTimer
    <3>2. CASE epochSizeMap[epochNum] # 0
      <4>1. epochSizeMap[epochNum] > 0
        BY <2>3, <3>2
      <4> QED  BY <2>2, <3>2, <4>1 DEF StartTimer, EpochInv
    <3> QED  BY <3>1, <3>2
  <2>7. \E u \in Servers : \E i \in 1..Len(numbered'[u]) : numbered'[u][i] = epochNum
    BY <2>1
  <2> QED  BY <2>2, <2>4, <2>5, <2>6, <2>7 DEF EpochInv
<1>3. CASE UpdateEpoch
  <2>1. /\ serving' = FALSE /\ UNCHANGED <<epochStartTime, epochSizeMap, numbered, firstRequest>>
        /\ epochNum' = epochNum \/ (epochNum < MaxEpochNum /\ epochNum' = epochNum + 1)
    BY <1>3 DEF UpdateEpoch
  <2>2. epochNum \in Nat /\ Epochs \subseteq Nat /\ epochNum \in Epochs
        /\ (epochNum < MaxEpochNum => epochNum + 1 \in Epochs)
    BY DEF Typed, Epochs, Bounds
  <2>3. CASE epochNum' = epochNum
    BY <2>1, <2>3 DEF EpochInv
  <2>4. CASE epochNum < MaxEpochNum /\ epochNum' = epochNum + 1
    <3>1. \A e \in Epochs : epochNum + 1 < e => epochNum < e
      BY <2>2
    <3>2. epochNum < epochNum + 1
      BY <2>2
    <3>3. epochSizeMap[epochNum + 1] = 0
      BY <2>2, <2>4, <3>2 DEF EpochInv
    <3>4. \A e \in Epochs : epochNum + 1 < e => epochSizeMap[e] = 0
      BY <3>1 DEF EpochInv
    <3> QED  BY <2>1, <2>4, <3>3, <3>4 DEF EpochInv
  <2> QED  BY <2>1, <2>3, <2>4
<1>4. ASSUME NEW s \in Servers, ServerStep(s), ~Serve(s) PROVE EpochInv'
  BY <1>1, <1>4 DEF ServerStep, CollectRequest, BufferRequest, PackBatch, EnqueueTransaction, EnqueueProof,
                    TakeBatch, epochVars
<1>5. CASE Clock \/ UNCHANGED collectorVars
  BY <1>1, <1>5 DEF Clock, collectorVars, epochVars
<1>6. ASSUME NEW c \in Clients, SendRequest(c) PROVE EpochInv'
  BY <1>1, <1>6 DEF SendRequest, epochVars
<1> QED  BY <1>2, <1>3, <1>4, <1>5, <1>6 DEF Next

-----------------------------------------------------------------------------
(* What the receiver has taken.                                            *)

LEMMA TakenStep ==
  ASSUME Bounds, Typed, QueueInv, TakenInv, [Next]_collectorVars
  PROVE  TakenInv'
<1>1. ASSUME UNCHANGED <<handed, takenBatches>> PROVE TakenInv'
  BY <1>1 DEF TakenInv, UpTo
<1>2. ASSUME NEW s \in Servers, TakeBatch(s) PROVE TakenInv'
  <2> DEFINE q     == pendingTransactions[s]
             proof == Head(pendingTransactionsProof[s])
             size  == proof.size
             part  == SubSeq(q, 1, size)
             h     == handed[s]
             t     == takenBatches[s]
             b     == [proof |-> proof, upTo |-> Len(h) + size]
             m     == Len(t)
  <2>1. /\ proof \in Proofs /\ size \in 0..Len(q)
        /\ \A j \in 1..size : q[j].epoch = proof.epoch
        /\ handed' = [handed EXCEPT ![s] = @ \o part]
        /\ takenBatches' = [takenBatches EXCEPT ![s] = Append(@, b)]
    BY <1>2, TakeEffect
  <2>2. /\ q \in Seq(Numbered) /\ Len(q) \in Nat /\ h \in Seq(Numbered) /\ Len(h) \in Nat
        /\ t \in Seq([proof : Proofs, upTo : Nat]) /\ m \in Nat
    BY LenProperties DEF Typed
  <2>3. size \in Nat /\ b \in [proof : Proofs, upTo : Nat]
    BY <2>1, <2>2
  <2>4. part \in Seq(Numbered) /\ Len(part) = size /\ \A i \in 1..size : part[i] = q[i]
    BY <2>1, <2>2, CutInTwo
  <2>5. /\ Len(h \o part) = Len(h) + size
        /\ \A i \in 1..(Len(h) + size) : (h \o part)[i] = IF i <= Len(h) THEN h[i] ELSE part[i - Len(h)]
    BY <2>2, <2>4, ConcatProperties
  <2>6. Len(Append(t, b)) = m + 1 /\ Append(t, b)[m + 1] = b /\ \A i \in 1..m : Append(t, b)[i] = t[i]
    BY <2>2, <2>3, AppendProperties
  <2>7. handed'[s] = h \o part /\ takenBatches'[s] = Append(t, b)
        /\ \A u \in Servers : u # s => handed'[u] = handed[u] /\ takenBatches'[u] = takenBatches[u]
    BY <2>1 DEF Typed
  <2>8. b.proof = proof /\ b.upTo = Len(h) + size
    OBVIOUS
  <2> DEFINE hh == h \o part
             tt == Append(t, b)
  <2>9. Len(hh) = Len(h) + size /\ Len(tt) = m + 1 /\ tt[m + 1] = b
    BY <2>5, <2>6
  <2>10. /\ \A i \in 1..Len(h) : hh[i] = h[i]
         /\ \A j \in (Len(h) + 1)..(Len(h) + size) : hh[j].epoch = proof.epoch
    <3>1. ASSUME NEW i \in 1..Len(h) PROVE hh[i] = h[i]
      BY <2>2, <2>3, <2>5
    <3>2. ASSUME NEW j \in (Len(h) + 1)..(Len(h) + size) PROVE hh[j].epoch = proof.epoch
      <4>1. j - Len(h) \in 1..size /\ j \in 1..(Len(h) + size) /\ ~(j <= Len(h))
        BY <2>2, <2>3
      <4>2. hh[j] = part[j - Len(h)]
        BY <2>5, <4>1
      <4>3. part[j - Len(h)] = q[j - Len(h)]
        BY <2>4, <4>1
      <4>4. q[j - Len(h)].epoch = proof.epoch
        BY <2>1, <4>1
      <4> QED  BY <4>2, <4>3, <4>4
    <3> QED  BY <3>1, <3>2
  <2>11. handed'[s] = hh /\ takenBatches'[s] = tt /\ \A i \in 1..m : tt[i] = t[i]
    BY <2>6, <2>7
  <2> DEFINE n == Len(h)
  <2>12. n \in Nat /\ Len(hh) = n + size /\ (\A i \in 1..n : hh[i] = h[i])
         /\ (\A j \in (n + 1)..(n + size) : hh[j].epoch = proof.epoch)
         /\ b.upTo = n + size /\ n = Len(handed[s]) /\ m = Len(takenBatches[s]) /\ h = handed[s] /\ t = takenBatches[s]
    BY <2>2, <2>8, <2>9, <2>10
  <2> HIDE DEF hh, tt, h, t, m, n, b, part, q, proof, size
  <2>13. /\ UpTo(s, m) = n
         /\ \A i \in 1..m : /\ UpTo(s, i) <= n /\ UpTo(s, i) = UpTo(s, i - 1) + t[i].proof.size
                            /\ \A j \in (UpTo(s, i - 1) + 1)..UpTo(s, i) : h[j].epoch = t[i].proof.epoch
    BY <2>12 DEF TakenInv
  <2>14. \A i \in 0..m : UpTo(s, i)' = UpTo(s, i) /\ UpTo(s, i) \in 0..n
    <3> SUFFICES ASSUME NEW i \in 0..m PROVE UpTo(s, i)' = UpTo(s, i) /\ UpTo(s, i) \in 0..n
      OBVIOUS
    <3>1. CASE i = 0
      BY <2>12, <3>1 DEF UpTo
    <3>2. CASE i # 0
      <4>1. i \in 1..m
        BY <2>2, <3>2
      <4>2. tt[i] = t[i]
        BY <2>11, <4>1
      <4>3. t[i] \in [proof : Proofs, upTo : Nat]
        BY <2>2, <2>12, <4>1, ElementOfSeq
      <4>4. UpTo(s, i) = t[i].upTo /\ UpTo(s, i)' = tt[i].upTo /\ t[i].upTo \in Nat
        BY <2>11, <2>12, <3>2, <4>3 DEF UpTo
      <4>5. UpTo(s, i) <= n
        BY <2>13, <4>1
      <4> QED  BY <2>12, <4>2, <4>4, <4>5
    <3> QED  BY <3>1, <3>2
  <2>15. ASSUME NEW i, i = m + 1 PROVE UpTo(s, i)' = n + size
    <3>1. i # 0 /\ tt[i] = b /\ takenBatches'[s] = tt
      BY <2>2, <2>9, <2>11, <2>15
    <3> QED  BY <2>12, <3>1 DEF UpTo
  <2>16. UpTo(s, Len(takenBatches[s]))' = Len(handed'[s])
    <3>1. m + 1 # 0 /\ Len(takenBatches'[s]) = m + 1 /\ takenBatches'[s][m + 1] = b /\ Len(handed'[s]) = n + size
      BY <2>2, <2>9, <2>11, <2>12
    <3> QED  BY <2>12, <3>1 DEF UpTo
  <2>17. ASSUME NEW i \in 1..(m + 1)
         PROVE  /\ UpTo(s, i)' <= n + size
                /\ UpTo(s, i)' = UpTo(s, i - 1)' + tt[i].proof.size
                /\ \A j \in (UpTo(s, i - 1)' + 1)..UpTo(s, i)' : hh[j].epoch = tt[i].proof.epoch
    <3>1. CASE i = m + 1
      <4>1. i - 1 = m /\ m \in 0..m
        BY <2>2, <3>1
      <4>2. UpTo(s, i - 1)' = n /\ UpTo(s, i)' = n + size
        BY <2>13, <2>14, <2>15, <3>1, <4>1
      <4>3. tt[i].proof = proof /\ size = proof.size
        BY <2>8, <2>9, <3>1 DEF size
      <4> QED  BY <2>3, <2>12, <4>2, <4>3
    <3>2. CASE i # m + 1
      <4>1. i \in 1..m /\ i \in 0..m /\ i - 1 \in 0..m
        BY <2>2, <3>2
      <4>2. UpTo(s, i)' = UpTo(s, i) /\ UpTo(s, i - 1)' = UpTo(s, i - 1) /\ tt[i] = t[i]
        BY <2>11, <2>14, <4>1
      <4>3. UpTo(s, i) \in 0..n /\ UpTo(s, i - 1) \in 0..n
        BY <2>14, <4>1
      <4>4. \A j \in (UpTo(s, i - 1) + 1)..UpTo(s, i) : hh[j] = h[j]
        BY <2>12, <4>3
      <4>5. UpTo(s, i) <= n + size
        BY <2>3, <2>12, <4>3
      <4> QED  BY <2>13, <4>1, <4>2, <4>4, <4>5
    <3> QED  BY <3>1, <3>2
  <2> SUFFICES ASSUME NEW u \in Servers
               PROVE  /\ UpTo(u, Len(takenBatches[u]))' = Len(handed'[u])
                      /\ \A i \in 1..Len(takenBatches'[u]) :
                           /\ UpTo(u, i)' <= Len(handed'[u])
                           /\ UpTo(u, i)' = UpTo(u, i - 1)' + takenBatches'[u][i].proof.size
                           /\ \A j \in (UpTo(u, i - 1)' + 1)..UpTo(u, i)' :
                                handed'[u][j].epoch = takenBatches'[u][i].proof.epoch
    BY DEF TakenInv
  <2>18. CASE u = s
    <3>1. handed'[s] = hh /\ takenBatches'[s] = tt /\ Len(hh) = n + size /\ Len(tt) = m + 1
      BY <2>9, <2>11, <2>12
    <3>2. \A i \in 1..Len(takenBatches'[s]) :
            /\ UpTo(s, i)' <= Len(handed'[s])
            /\ UpTo(s, i)' = UpTo(s, i - 1)' + takenBatches'[s][i].proof.size
            /\ \A j \in (UpTo(s, i - 1)' + 1)..UpTo(s, i)' :
                 handed'[s][j].epoch = takenBatches'[s][i].proof.epoch
      BY <2>17, <3>1, Zenon
    <3> QED  BY <2>16, <2>18, <3>2, Zenon
  <2>19. CASE u # s
    <3>1. handed'[u] = handed[u] /\ takenBatches'[u] = takenBatches[u]
      BY <2>7, <2>19
    <3>2. \A i : UpTo(u, i)' = UpTo(u, i)
      BY <3>1 DEF UpTo
    <3>3. UpTo(u, Len(takenBatches[u])) = Len(handed[u])
      BY DEF TakenInv
    <3>4. UpTo(u, Len(takenBatches[u]))' = Len(handed'[u])
      BY <3>1, <3>3 DEF UpTo
    <3>5. \A i \in 1..Len(takenBatches[u]) :
            /\ UpTo(u, i) <= Len(handed[u])
            /\ UpTo(u, i) = UpTo(u, i - 1) + takenBatches[u][i].proof.size
            /\ \A j \in (UpTo(u, i - 1) + 1)..UpTo(u, i) :
                 handed[u][j].epoch = takenBatches[u][i].proof.epoch
      BY DEF TakenInv
    <3> QED  BY <3>1, <3>2, <3>4, <3>5
  <2> QED  BY <2>18, <2>19
<1>3. ASSUME NEW s \in Servers, ServerStep(s), ~TakeBatch(s) PROVE TakenInv'
  BY <1>1, <1>3 DEF ServerStep, CollectRequest, BufferRequest, PackBatch, Serve, EnqueueTransaction, EnqueueProof, queueVars
<1>4. CASE UpdateEpoch \/ Clock \/ UNCHANGED collectorVars
  BY <1>1, <1>4 DEF UpdateEpoch, Clock, collectorVars, queueVars
<1>5. ASSUME NEW c \in Clients, SendRequest(c) PROVE TakenInv'
  BY <1>1, <1>5 DEF SendRequest, queueVars
<1> QED  BY <1>2, <1>3, <1>4, <1>5 DEF Next

-----------------------------------------------------------------------------
(* The transactions in the queue are those of the proofs.                  *)
QueueAt(s) ==
  \E f \in [0..Len(pendingTransactionsProof[s]) -> 0..Len(pendingTransactions[s])] : EndsOf(s, f)

LEMMA QueueFrame ==
  ASSUME NEW u \in Servers, QueueInv,
         UNCHANGED <<pendingTransactionsProof[u], pendingTransactions[u], rpc[u], batch[u],
                     toEnqueue[u], numbered[u]>>
  PROVE  QueueAt(u)'
<1>1. PICK f \in [0..Len(pendingTransactionsProof[u]) -> 0..Len(pendingTransactions[u])] : EndsOf(u, f)
  BY DEF QueueInv
<1>2. EndsOf(u, f)'
  BY <1>1 DEF EndsOf
<1> QED  BY <1>2 DEF QueueAt

LEMMA PackQueue ==
  ASSUME Bounds, Typed, QueueInv, NEW s \in Servers, PackBatch(s)
  PROVE  QueueInv'
<1>1. /\ rpc[s] = "dequeue" /\ rpc' = [rpc EXCEPT ![s] = "numbering"]
      /\ UNCHANGED <<pendingTransactions, pendingTransactionsProof, toEnqueue, numbered>>
      /\ \A u \in Servers : u # s => batch'[u] = batch[u]
  BY DEF PackBatch, queueVars, epochVars, Typed
<1>2. rpc'[s] = "numbering" /\ \A u \in Servers : u # s => rpc'[u] = rpc[u]
  BY <1>1 DEF Typed
<1> SUFFICES ASSUME NEW u \in Servers PROVE QueueAt(u)'
  BY DEF QueueInv, QueueAt
<1>3. CASE u = s
  <2>1. PICK f \in [0..Len(pendingTransactionsProof[s]) -> 0..Len(pendingTransactions[s])] : EndsOf(s, f)
    BY DEF QueueInv
  <2>2. EndsOf(s, f)'
    BY <1>1, <1>2, <2>1 DEF EndsOf
  <2> QED  BY <1>1, <1>3, <2>2 DEF QueueAt
<1>4. CASE u # s
  <2>1. UNCHANGED <<pendingTransactionsProof[u], pendingTransactions[u], rpc[u], batch[u],
                    toEnqueue[u], numbered[u]>>
    BY <1>1, <1>2, <1>4
  <2> QED  BY <2>1, QueueFrame
<1> QED  BY <1>3, <1>4

LEMMA ServeQueue ==
  ASSUME Bounds, Typed, StepInv, QueueInv, NEW s \in Servers, Serve(s)
  PROVE  QueueInv'
<1>1. /\ rpc[s] = "numbering" /\ UNCHANGED <<pendingTransactions, pendingTransactionsProof, batch>>
      /\ rpc'[s] = "enqueue"
      /\ \A u \in Servers : u # s => rpc'[u] = rpc[u] /\ toEnqueue'[u] = toEnqueue[u] /\ numbered'[u] = numbered[u]
  BY DEF Serve, queueVars, Typed
<1>2. Len(toEnqueue'[s]) = Len(batch[s]) /\ Len(batch[s]) \in Nat
  BY ServeTyped
<1> SUFFICES ASSUME NEW u \in Servers PROVE QueueAt(u)'
  BY DEF QueueInv, QueueAt
<1>3. CASE u = s
  <2>1. PICK f \in [0..Len(pendingTransactionsProof[s]) -> 0..Len(pendingTransactions[s])] : EndsOf(s, f)
    BY DEF QueueInv
  <2> DEFINE n == Len(pendingTransactionsProof[s])
             l == Len(pendingTransactions[s])
  <2>2. f[n] = l /\ l \in Nat
    BY <1>1, <2>1, LenProperties DEF EndsOf, Typed
  <2>3. f[n] + Len(batch[s]) = l + Len(toEnqueue'[s]) /\ (f[n] + 1)..l = {}
    BY <1>2, <2>2
  <2>4. EndsOf(s, f)'
    BY <1>1, <2>1, <2>3 DEF EndsOf
  <2> QED  BY <1>1, <1>3, <2>4 DEF QueueAt
<1>4. CASE u # s
  BY <1>1, <1>4, QueueFrame
<1> QED  BY <1>3, <1>4

LEMMA EnqueueQueue ==
  ASSUME Bounds, Typed, StepInv, QueueInv, NEW s \in Servers, EnqueueTransaction(s)
  PROVE  QueueInv'
<1> DEFINE q == pendingTransactions[s]
           e == toEnqueue[s]
           x == Head(e)
           n == Len(pendingTransactionsProof[s])
           l == Len(q)
<1>1. /\ rpc[s] = "enqueue" /\ e # <<>>
      /\ UNCHANGED <<batch, rpc, pendingTransactionsProof, numbered>>
      /\ pendingTransactions' = [pendingTransactions EXCEPT ![s] = Append(@, x)]
      /\ toEnqueue' = [toEnqueue EXCEPT ![s] = Tail(@)]
  BY DEF EnqueueTransaction, epochVars
<1>2. /\ pendingTransactions'[s] = Append(q, x) /\ toEnqueue'[s] = Tail(e)
      /\ \A u \in Servers : u # s => pendingTransactions'[u] = pendingTransactions[u] /\ toEnqueue'[u] = toEnqueue[u]
  BY <1>1 DEF Typed
<1>3. q \in Seq(Numbered) /\ e \in Seq(Numbered) /\ batch[s] \in Seq(Requests) /\ pendingTransactionsProof[s] \in Seq(Proofs)
  BY DEF Typed
<1>4. l \in Nat /\ Len(e) \in Nat \ {0} /\ x = e[1] /\ x \in Numbered /\ Len(Tail(e)) = Len(e) - 1
      /\ Len(batch[s]) \in Nat /\ n \in Nat
  BY <1>1, <1>3, HeadTailProperties, EmptySeq, LenProperties
<1>5. x.epoch = Last(numbered[s])
  BY <1>4 DEF StepInv
<1>6. Len(Append(q, x)) = l + 1 /\ Append(q, x)[l + 1] = x /\ \A i \in 1..l : Append(q, x)[i] = q[i]
  BY <1>3, <1>4, AppendProperties
<1> SUFFICES ASSUME NEW u \in Servers PROVE QueueAt(u)'
  BY DEF QueueInv, QueueAt
<1>7. CASE u = s
  <2>1. PICK f \in [0..n -> 0..l] : EndsOf(s, f)
    BY DEF QueueInv
  <2> DEFINE proofs == pendingTransactionsProof[s]
             p == Append(q, x)
  <2>2. /\ f[0] = 0
        /\ \A i, j \in 0..n : i <= j => f[i] <= f[j]
        /\ \A i \in 1..n :
             /\ f[i] = f[i - 1] + proofs[i].size
             /\ \A j \in (f[i - 1] + 1)..f[i] : q[j].epoch = proofs[i].epoch
        /\ f[n] + Len(batch[s]) = l + Len(e)
        /\ \A j \in (f[n] + 1)..l : q[j].epoch = Last(numbered[s])
    BY <1>1, <2>1 DEF EndsOf
  <2>3. f \in [0..n -> 0..(l + 1)]
    BY <1>4
  <2>4. \A i \in 0..n : f[i] \in 0..l
    OBVIOUS
  <2>5. \A i \in 1..n : \A j \in (f[i - 1] + 1)..f[i] : p[j].epoch = proofs[i].epoch
    <3> SUFFICES ASSUME NEW i \in 1..n, NEW j \in (f[i - 1] + 1)..f[i] PROVE p[j].epoch = proofs[i].epoch
      OBVIOUS
    <3>1. i \in 0..n /\ i - 1 \in 0..n
      BY <1>4
    <3>2. f[i] \in 0..l /\ f[i - 1] \in 0..l
      BY <2>4, <3>1
    <3>3. j \in 1..l
      BY <1>4, <3>2
    <3> QED  BY <1>6, <2>2, <3>3
  <2>6. f[n] + Len(batch[s]) = (l + 1) + Len(Tail(e))
    <3> DEFINE b == Len(batch[s])
               t == Len(Tail(e))
               m == Len(e)
               k == f[n]
    <3>1. b \in Nat /\ m \in Nat /\ t = m - 1 /\ l \in Nat /\ k + b = l + m
      BY <1>4, <2>2
    <3>2. k \in 0..l
      BY <1>4, <2>4
    <3> HIDE DEF b, t, m, k, l
    <3>3. k + b = (l + 1) + t
      BY <3>1, <3>2
    <3> QED  BY <3>3 DEF b, t, k
  <2>7. \A j \in (f[n] + 1)..(l + 1) : p[j].epoch = Last(numbered[s])
    <3> SUFFICES ASSUME NEW j \in (f[n] + 1)..(l + 1) PROVE p[j].epoch = Last(numbered[s])
      OBVIOUS
    <3>1. n \in 0..n /\ f[n] \in 0..l
      BY <1>4, <2>4
    <3>2. CASE j = l + 1
      BY <1>5, <1>6, <3>2
    <3>3. CASE j # l + 1
      <4>1. j \in (f[n] + 1)..l /\ j \in 1..l
        BY <1>4, <3>1, <3>3
      <4> QED  BY <1>6, <2>2, <4>1
    <3> QED  BY <3>2, <3>3
  <2>8. /\ pendingTransactions'[s] = p /\ Len(p) = l + 1 /\ toEnqueue'[s] = Tail(e) /\ rpc'[s] = "enqueue"
        /\ pendingTransactionsProof'[s] = proofs /\ Len(proofs) = n /\ batch'[s] = batch[s] /\ numbered'[s] = numbered[s]
    BY <1>1, <1>2, <1>6
  <2> HIDE DEF p, q, e, n, l, x, proofs
  <2>9. EndsOf(s, f)'
    BY <2>2, <2>5, <2>6, <2>7, <2>8 DEF EndsOf
  <2> QED  BY <1>7, <2>3, <2>8, <2>9 DEF QueueAt
<1>8. CASE u # s
  BY <1>1, <1>2, <1>8, QueueFrame
<1> QED  BY <1>7, <1>8

LEMMA ProofQueue ==
  ASSUME Bounds, Typed, StepInv, QueueInv, NEW s \in Servers, EnqueueProof(s)
  PROVE  QueueInv'
<1> DEFINE q == pendingTransactions[s]
           proofs == pendingTransactionsProof[s]
           y == [epoch |-> Last(numbered[s]), size |-> Len(batch[s])]
           n == Len(proofs)
           l == Len(q)
           b == Len(batch[s])
<1>1. /\ rpc[s] = "enqueue" /\ toEnqueue[s] = <<>>
      /\ pendingTransactionsProof' = [pendingTransactionsProof EXCEPT ![s] = Append(@, y)]
      /\ rpc' = [rpc EXCEPT ![s] = "dequeue"]
      /\ UNCHANGED <<toEnqueue, pendingTransactions, numbered>>
      /\ \A u \in Servers : u # s => batch'[u] = batch[u]
  BY DEF EnqueueProof, epochVars, Typed
<1>2. /\ pendingTransactionsProof'[s] = Append(proofs, y) /\ rpc'[s] = "dequeue"
      /\ \A u \in Servers : u # s => pendingTransactionsProof'[u] = pendingTransactionsProof[u] /\ rpc'[u] = rpc[u]
  BY <1>1 DEF Typed
<1>3. q \in Seq(Numbered) /\ batch[s] \in Seq(Requests) /\ proofs \in Seq(Proofs)
  BY DEF Typed
<1>4. l \in Nat /\ b \in Nat /\ n \in Nat /\ Len(toEnqueue[s]) = 0
  BY <1>1, <1>3, LenProperties, EmptySeq
<1>5. y \in Proofs
  <2>1. pendingTransactionsProof' \in [Servers -> Seq(Proofs)]
    BY ProofTyped DEF Typed
  <2>2. Append(proofs, y) \in Seq(Proofs)
    BY <1>2, <2>1
  <2>3. Last(numbered[s]) \in Epochs
    <3>1. numbered[s] \in Seq(Epochs) /\ numbered[s] # <<>>
      BY <1>1 DEF Typed, StepInv
    <3>2. Len(numbered[s]) \in 1..Len(numbered[s])
      BY <3>1, EmptySeq, LenProperties
    <3>3. numbered[s][Len(numbered[s])] \in Epochs
      BY <3>1, <3>2, ElementOfSeq
    <3> QED  BY <3>3 DEF Last
  <2> QED  BY <1>4, <2>3 DEF Proofs
<1>6. Len(Append(proofs, y)) = n + 1 /\ Append(proofs, y)[n + 1] = y /\ \A i \in 1..n : Append(proofs, y)[i] = proofs[i]
  BY <1>3, <1>4, <1>5, AppendProperties
<1> SUFFICES ASSUME NEW u \in Servers PROVE QueueAt(u)'
  BY DEF QueueInv, QueueAt
<1>7. CASE u = s
  <2>1. PICK f \in [0..n -> 0..l] : EndsOf(s, f)
    BY DEF QueueInv
  <2> DEFINE p == Append(proofs, y)
             ends == [i \in 0..(n + 1) |-> IF i <= n THEN f[i] ELSE l]
  <2>2. /\ f[0] = 0
        /\ \A i, j \in 0..n : i <= j => f[i] <= f[j]
        /\ \A i \in 1..n :
             /\ f[i] = f[i - 1] + proofs[i].size
             /\ \A j \in (f[i - 1] + 1)..f[i] : q[j].epoch = proofs[i].epoch
        /\ f[n] + b = l + Len(toEnqueue[s])
        /\ \A j \in (f[n] + 1)..l : q[j].epoch = Last(numbered[s])
    BY <1>1, <2>1 DEF EndsOf
  <2>3. \A i \in 0..n : f[i] \in 0..l
    OBVIOUS
  <2>4. /\ pendingTransactions'[s] = q /\ rpc'[s] = "dequeue" /\ Len(q) = l
        /\ pendingTransactionsProof'[s] = p /\ Len(p) = n + 1
        /\ p[n + 1].epoch = Last(numbered[s]) /\ p[n + 1].size = b
        /\ \A i \in 1..n : p[i] = proofs[i]
    BY <1>1, <1>2, <1>6
  <2>5. f[n] + b = l
    BY <1>4, <2>2
  <2> DEFINE e == Last(numbered[s])
  <2>6. \A j \in (f[n] + 1)..l : q[j].epoch = e
    BY <2>2
  <2>7. n \in Nat /\ l \in Nat /\ b \in Nat
    BY <1>4
  <2> HIDE DEF p, q, n, l, b, proofs, y, e
  <2>8. PICK g : g \in [0..(n + 1) -> 0..l] /\ g[n + 1] = l /\ \A i \in 0..n : g[i] = f[i]
    <3>1. ends \in [0..(n + 1) -> 0..l] /\ ends[n + 1] = l /\ \A i \in 0..n : ends[i] = f[i]
      BY <2>3, <2>7
    <3> HIDE DEF ends
    <3> QED  BY <3>1
  <2>9. g[0] = 0
    BY <2>2, <2>7, <2>8
  <2>10. \A i, j \in 0..(n + 1) : i <= j => g[i] <= g[j]
    <3> SUFFICES ASSUME NEW i \in 0..(n + 1), NEW j \in 0..(n + 1), i <= j PROVE g[i] <= g[j]
      OBVIOUS
    <3>1. CASE j = n + 1
      BY <2>7, <2>8, <3>1
    <3>2. CASE j # n + 1
      <4>1. i \in 0..n /\ j \in 0..n
        BY <2>7, <3>2
      <4> QED  BY <2>2, <2>8, <4>1
    <3> QED  BY <3>1, <3>2
  <2>11. ASSUME NEW i \in 1..(n + 1)
         PROVE  /\ g[i] = g[i - 1] + p[i].size
                /\ \A j \in (g[i - 1] + 1)..g[i] : q[j].epoch = p[i].epoch
    <3>1. CASE i = n + 1
      <4>1. i - 1 = n /\ n \in 0..n
        BY <2>7, <3>1
      <4>2. g[i - 1] = f[n] /\ g[i] = l /\ p[i].size = b /\ p[i].epoch = e
        BY <2>4, <2>8, <3>1, <4>1 DEF e
      <4> QED  BY <2>5, <2>6, <4>2
    <3>2. CASE i # n + 1
      <4>1. i \in 1..n /\ i \in 0..n /\ i - 1 \in 0..n
        BY <2>7, <3>2
      <4>2. g[i - 1] = f[i - 1] /\ g[i] = f[i] /\ p[i] = proofs[i]
        BY <2>4, <2>8, <4>1
      <4> QED  BY <2>2, <4>1, <4>2
    <3> QED  BY <3>1, <3>2
  <2>12. EndsOf(s, g)'
    BY <2>4, <2>8, <2>9, <2>10, <2>11 DEF EndsOf
  <2> QED  BY <1>7, <2>4, <2>8, <2>12 DEF QueueAt
<1>8. CASE u # s
  <2>1. UNCHANGED <<pendingTransactionsProof[u], pendingTransactions[u], rpc[u], batch[u],
                    toEnqueue[u], numbered[u]>>
    BY <1>1, <1>2, <1>8
  <2> QED  BY <2>1, QueueFrame
<1> QED  BY <1>7, <1>8

LEMMA TakeQueue ==
  ASSUME Bounds, Typed, StepInv, QueueInv, NEW s \in Servers, TakeBatch(s)
  PROVE  QueueInv'
<1> DEFINE q == pendingTransactions[s]
           proofs == pendingTransactionsProof[s]
           size == Head(proofs).size
           p == SubSeq(q, size + 1, Len(q))
           n == Len(proofs)
           l == Len(q)
<1>1. /\ Head(proofs) \in Proofs /\ Head(proofs) = proofs[1] /\ proofs # <<>> /\ size \in 0..Len(q)
      /\ pendingTransactions' = [pendingTransactions EXCEPT ![s] = p]
      /\ pendingTransactionsProof' = [pendingTransactionsProof EXCEPT ![s] = Tail(@)]
      /\ UNCHANGED <<clientVars, collectVars, batchVars, epochVars>>
  BY TakeEffect
<1>2. UNCHANGED <<rpc, batch, toEnqueue, numbered>>
  BY <1>1 DEF batchVars, epochVars
<1>3. q \in Seq(Numbered) /\ proofs \in Seq(Proofs) /\ batch[s] \in Seq(Requests) /\ toEnqueue[s] \in Seq(Numbered)
  BY DEF Typed
<1>4. l \in Nat /\ n \in Nat \ {0} /\ Len(batch[s]) \in Nat /\ Len(toEnqueue[s]) \in Nat
  BY <1>1, <1>3, LenProperties, EmptySeq
<1>5. Len(p) = l - size /\ \A i \in 1..(l - size) : p[i] = q[size + i]
  BY <1>1, <1>3, CutInTwo
<1>6. Len(Tail(proofs)) = n - 1 /\ \A i \in 1..(n - 1) : Tail(proofs)[i] = proofs[i + 1]
  BY <1>1, <1>3, HeadTailProperties
<1>7. /\ pendingTransactions'[s] = p /\ pendingTransactionsProof'[s] = Tail(proofs)
      /\ \A u \in Servers : u # s => /\ pendingTransactions'[u] = pendingTransactions[u]
                                     /\ pendingTransactionsProof'[u] = pendingTransactionsProof[u]
  BY <1>1 DEF Typed
<1> SUFFICES ASSUME NEW u \in Servers PROVE QueueAt(u)'
  BY DEF QueueInv, QueueAt
<1>8. CASE u = s
  <2>1. PICK f \in [0..n -> 0..l] : EndsOf(s, f)
    BY DEF QueueInv
  <2> DEFINE t == Tail(proofs)
             e == Last(numbered[s])
             k == Len(batch[s])
             m == Len(toEnqueue[s])
             ends == [i \in 0..(n - 1) |-> f[i + 1] - size]
  <2>2. /\ f[0] = 0
        /\ \A i, j \in 0..n : i <= j => f[i] <= f[j]
        /\ \A i \in 1..n :
             /\ f[i] = f[i - 1] + proofs[i].size
             /\ \A j \in (f[i - 1] + 1)..f[i] : q[j].epoch = proofs[i].epoch
        /\ IF rpc[s] = "enqueue"
           THEN f[n] + k = l + m /\ \A j \in (f[n] + 1)..l : q[j].epoch = e
           ELSE f[n] = l
    BY <2>1 DEF EndsOf
  <2>3. \A i \in 0..n : f[i] \in 0..l
    OBVIOUS
  <2>4. /\ pendingTransactions'[s] = p /\ pendingTransactionsProof'[s] = t /\ rpc'[s] = rpc[s]
        /\ Len(batch'[s]) = k /\ Len(toEnqueue'[s]) = m /\ Last(numbered'[s]) = e
        /\ Len(p) = l - size /\ Len(t) = n - 1
        /\ (\A i \in 1..(n - 1) : t[i] = proofs[i + 1]) /\ (\A i \in 1..(l - size) : p[i] = q[size + i])
    BY <1>2, <1>5, <1>6, <1>7
  <2>5. /\ l \in Nat /\ n \in Nat \ {0} /\ k \in Nat /\ m \in Nat /\ size \in 0..l
        /\ size = proofs[1].size
    BY <1>1, <1>4
  <2> HIDE DEF p, q, n, l, k, m, t, e, proofs, size
  <2>6. f[1] = size /\ 1 \in 0..n
    <3>1. 1 \in 1..n /\ 0 \in 0..n /\ 1 \in 0..n
      BY <2>5
    <3>2. f[1] = f[1 - 1] + proofs[1].size
      BY <2>2, <3>1
    <3> QED  BY <2>2, <2>5, <3>1, <3>2
  <2>7. \A i \in 0..(n - 1) : i + 1 \in 0..n /\ f[i + 1] \in 0..l /\ size <= f[i + 1]
    <3> SUFFICES ASSUME NEW i \in 0..(n - 1) PROVE i + 1 \in 0..n /\ f[i + 1] \in 0..l /\ size <= f[i + 1]
      OBVIOUS
    <3>1. i + 1 \in 0..n /\ 1 <= i + 1
      BY <2>5
    <3>2. f[1] <= f[i + 1]
      BY <2>2, <2>6, <3>1
    <3> QED  BY <2>3, <2>6, <3>1, <3>2
  <2>8. PICK g : g \in [0..(n - 1) -> 0..(l - size)] /\ \A i \in 0..(n - 1) : g[i] = f[i + 1] - size
    <3>1. \A i \in 0..(n - 1) : f[i + 1] - size \in 0..(l - size)
      BY <2>5, <2>7
    <3>2. ends \in [0..(n - 1) -> 0..(l - size)] /\ \A i \in 0..(n - 1) : ends[i] = f[i + 1] - size
      BY <3>1
    <3> HIDE DEF ends
    <3> QED  BY <3>2
  <2>9. g[0] = 0
    <3>1. 0 \in 0..(n - 1) /\ 0 + 1 = 1
      BY <2>5
    <3>2. g[0] = f[1] - size
      BY <2>8, <3>1
    <3> QED  BY <2>5, <2>6, <3>2
  <2>10. \A i, j \in 0..(n - 1) : i <= j => g[i] <= g[j]
    <3> SUFFICES ASSUME NEW i \in 0..(n - 1), NEW j \in 0..(n - 1), i <= j PROVE g[i] <= g[j]
      OBVIOUS
    <3>1. i + 1 \in 0..n /\ j + 1 \in 0..n /\ i + 1 <= j + 1
      BY <2>5
    <3>2. f[i + 1] <= f[j + 1] /\ f[i + 1] \in 0..l /\ f[j + 1] \in 0..l
      BY <2>2, <2>3, <3>1
    <3>3. g[i] = f[i + 1] - size /\ g[j] = f[j + 1] - size
      BY <2>8
    <3> DEFINE a == f[i + 1]
               c == f[j + 1]
    <3>4. a \in Int /\ c \in Int /\ size \in Int /\ a <= c /\ g[i] = a - size /\ g[j] = c - size
      BY <2>5, <3>2, <3>3
    <3> HIDE DEF a, c
    <3> QED  BY <3>4
  <2>11. ASSUME NEW i \in 1..(n - 1)
         PROVE  /\ g[i] = g[i - 1] + t[i].size
                /\ \A j \in (g[i - 1] + 1)..g[i] : p[j].epoch = t[i].epoch
    <3>1. /\ i \in 0..(n - 1) /\ i - 1 \in 0..(n - 1) /\ (i - 1) + 1 = i /\ i + 1 \in 1..n /\ (i + 1) - 1 = i
          /\ i \in 0..n /\ i + 1 \in 0..n
      BY <2>5
    <3>2. g[i] = f[i + 1] - size /\ g[i - 1] = f[i] - size /\ t[i] = proofs[i + 1]
      BY <2>4, <2>8, <3>1
    <3>3. f[i + 1] = f[i] + t[i].size /\ \A j \in (f[i] + 1)..f[i + 1] : q[j].epoch = t[i].epoch
      BY <2>2, <3>1, <3>2
    <3>4. f[i] \in 0..l /\ f[i + 1] \in 0..l /\ size <= f[i]
      BY <2>3, <2>7, <3>1
    <3> DEFINE a == f[i]
               c == f[i + 1]
               d == t[i].size
    <3>5. d \in Nat
      <4>1. proofs[i + 1] \in Proofs
        BY <1>3, <3>1, ElementOfSeq DEF proofs, n
      <4> QED  BY <3>2, <4>1 DEF Proofs
    <3>6. /\ a \in Int /\ c \in Int /\ size \in Int /\ l \in Int /\ 0 <= size /\ size <= a /\ c <= l /\ c = a + d
          /\ g[i] = c - size /\ g[i - 1] = a - size
          /\ \A j \in (a + 1)..c : q[j].epoch = t[i].epoch
      BY <2>5, <3>2, <3>3, <3>4
    <3> HIDE DEF a, c, d
    <3> DEFINE u0 == g[i - 1]
               u1 == g[i]
    <3>7. u0 \in Int /\ u1 \in Int /\ u1 = c - size /\ u0 = a - size
      BY <3>6
    <3> HIDE DEF u0, u1
    <3>8. u1 = u0 + d
      BY <3>5, <3>6, <3>7
    <3>9. \A j \in (u0 + 1)..u1 : p[j].epoch = t[i].epoch
      <4> SUFFICES ASSUME NEW j \in (u0 + 1)..u1 PROVE p[j].epoch = t[i].epoch
        OBVIOUS
      <4>1. size + j \in (a + 1)..c /\ j \in 1..(l - size)
        BY <3>6, <3>7
      <4>2. p[j] = q[size + j]
        BY <2>4, <4>1
      <4> QED  BY <3>6, <4>1, <4>2
    <3> QED  BY <3>8, <3>9 DEF d, u0, u1
  <2>12. IF rpc[s] = "enqueue"
         THEN g[n - 1] + k = (l - size) + m /\ \A j \in (g[n - 1] + 1)..(l - size) : p[j].epoch = e
         ELSE g[n - 1] = l - size
    <3>1. n - 1 \in 0..(n - 1) /\ (n - 1) + 1 = n /\ n \in 0..n
      BY <2>5
    <3>2. g[n - 1] = f[n] - size /\ f[n] \in 0..l /\ size <= f[n]
      BY <2>3, <2>7, <2>8, <3>1
    <3>3. CASE rpc[s] = "enqueue"
      <4>1. f[n] + k = l + m /\ \A j \in (f[n] + 1)..l : q[j].epoch = e
        BY <2>2, <3>3
      <4> DEFINE a == f[n]
      <4>2. /\ a \in Int /\ size \in Int /\ l \in Int /\ k \in Int /\ m \in Int
            /\ 0 <= size /\ size <= a /\ a <= l /\ a + k = l + m /\ g[n - 1] = a - size
            /\ \A j \in (a + 1)..l : q[j].epoch = e
        BY <2>5, <3>2, <4>1
      <4> DEFINE u0 == g[n - 1]
      <4>3. u0 \in Int /\ u0 = a - size
        BY <4>2
      <4> HIDE DEF a, u0
      <4>4. u0 + k = (l - size) + m
        BY <4>2, <4>3
      <4>5. \A j \in (u0 + 1)..(l - size) : p[j].epoch = e
        <5> SUFFICES ASSUME NEW j \in (u0 + 1)..(l - size) PROVE p[j].epoch = e
          OBVIOUS
        <5>1. size + j \in (a + 1)..l /\ j \in 1..(l - size)
          BY <4>2, <4>3
        <5>2. p[j] = q[size + j]
          BY <2>4, <5>1
        <5> QED  BY <4>2, <5>1, <5>2
      <4> QED  BY <3>3, <4>4, <4>5 DEF u0
    <3>4. CASE rpc[s] # "enqueue"
      BY <2>2, <3>2, <3>4
    <3> QED  BY <3>3, <3>4
  <2>13. EndsOf(s, g)'
    BY <2>4, <2>9, <2>10, <2>11, <2>12 DEF EndsOf
  <2> QED  BY <1>8, <2>4, <2>8, <2>13 DEF QueueAt
<1>9. CASE u # s
  <2>1. UNCHANGED <<pendingTransactionsProof[u], pendingTransactions[u], rpc[u], batch[u],
                    toEnqueue[u], numbered[u]>>
    BY <1>2, <1>7, <1>9
  <2> QED  BY <2>1, QueueFrame
<1> QED  BY <1>8, <1>9

LEMMA QueueStep ==
  ASSUME Bounds, Typed, StepInv, QueueInv, [Next]_collectorVars
  PROVE  QueueInv'
<1>1. ASSUME UNCHANGED <<pendingTransactionsProof, pendingTransactions, rpc, batch, toEnqueue, numbered>>
      PROVE  QueueInv'
  <2> SUFFICES ASSUME NEW u \in Servers PROVE QueueAt(u)'
    BY DEF QueueInv, QueueAt
  <2> QED  BY <1>1, QueueFrame
<1>2. ASSUME NEW s \in Servers, ServerStep(s) PROVE QueueInv'
  <2>1. CASE CollectRequest(s) \/ BufferRequest(s)
    <3>1. UNCHANGED <<pendingTransactionsProof, pendingTransactions, rpc, batch, toEnqueue, numbered>>
      BY <2>1 DEF CollectRequest, BufferRequest, batchVars, queueVars, epochVars
    <3> QED  BY <1>1, <3>1
  <2> QED  BY <1>2, <2>1, PackQueue, ServeQueue, EnqueueQueue, ProofQueue, TakeQueue DEF ServerStep
<1>3. CASE UpdateEpoch \/ Clock \/ UNCHANGED collectorVars
  <2>1. UNCHANGED <<pendingTransactionsProof, pendingTransactions, rpc, batch, toEnqueue, numbered>>
    BY <1>3 DEF UpdateEpoch, Clock, collectorVars, batchVars, queueVars, epochVars
  <2> QED  BY <1>1, <2>1
<1>4. ASSUME NEW c \in Clients, SendRequest(c) PROVE QueueInv'
  BY <1>1, <1>4 DEF SendRequest, batchVars, queueVars, epochVars
<1> QED  BY <1>2, <1>3, <1>4 DEF Next

-----------------------------------------------------------------------------
(* The theorems.                                                           *)

LEMMA CollectorInit ==
  ASSUME Bounds, Init
  PROVE  CollectorInv
<1>1. Typed
  <2>1. /\ <<>> \in Seq(Requests) /\ <<>> \in Seq(Numbered) /\ <<>> \in Seq(Proofs) /\ <<>> \in Seq(Epochs)
        /\ <<>> \in Seq([proof : Proofs, upTo : Nat])
    BY EmptySeq
  <2>2. /\ inbox \in [Servers -> Seq(Requests)] /\ accepted \in [Servers -> Seq(Requests)]
        /\ requestBuffer \in [Servers -> Seq(Requests)] /\ batch \in [Servers -> Seq(Requests)]
        /\ toEnqueue \in [Servers -> Seq(Numbered)]
        /\ pendingTransactions \in [Servers -> Seq(Numbered)] /\ handed \in [Servers -> Seq(Numbered)]
    BY <2>1 DEF Init
  <2>3. /\ pendingTransactionsProof \in [Servers -> Seq(Proofs)]
        /\ takenBatches \in [Servers -> Seq([proof : Proofs, upTo : Nat])]
        /\ numbered \in [Servers -> Seq(Epochs)]
    BY <2>1 DEF Init
  <2>4. /\ sent \in [Clients -> 0..MaxRequests] /\ answered \in [Clients -> 0..MaxRequests]
        /\ rpc \in [Servers -> {"dequeue", "numbering", "enqueue"}]
    BY DEF Init, Bounds
  <2>5. /\ now \in 0..MaxTime /\ epochStartTime \in 0..now /\ epochNum \in Epochs
        /\ epochSizeMap \in [Epochs -> Nat] /\ totalSize \in Nat /\ serving \in BOOLEAN
        /\ firstRequest \in [Epochs -> Nat]
    <3>1. /\ now = 0 /\ epochStartTime = 0 /\ epochNum = 1 /\ totalSize = 0 /\ serving = FALSE
          /\ epochSizeMap = [e \in Epochs |-> 0] /\ firstRequest = [e \in Epochs |-> 0]
      BY DEF Init
    <3>2. now \in 0..MaxTime /\ epochStartTime \in 0..now /\ totalSize \in Nat
      <4>1. MaxTime \in Nat
        BY DEF Bounds
      <4>2. 0 \in 0..MaxTime /\ 0 \in 0..0 /\ 0 \in Nat
        BY <4>1
      <4> QED  BY <3>1, <4>2
    <3>5. serving \in BOOLEAN
      BY <3>1, Zenon
    <3>3. epochNum \in Epochs
      BY <3>1 DEF Bounds, Epochs
    <3>4. epochSizeMap \in [Epochs -> Nat] /\ firstRequest \in [Epochs -> Nat]
      BY <3>1
    <3> QED  BY <3>2, <3>3, <3>4, <3>5
  <2> QED  BY <2>2, <2>3, <2>4, <2>5 DEF Typed
<1>2. ASSUME NEW s \in Servers
      PROVE  /\ inbox[s] = <<>> /\ accepted[s] = <<>> /\ requestBuffer[s] = <<>> /\ batch[s] = <<>>
             /\ rpc[s] = "dequeue" /\ toEnqueue[s] = <<>> /\ pendingTransactions[s] = <<>>
             /\ pendingTransactionsProof[s] = <<>> /\ handed[s] = <<>> /\ takenBatches[s] = <<>>
  BY DEF Init
<1>3. \A c \in Clients : sent[c] = 0 /\ answered[c] = 0
  BY DEF Init
<1>4. Len(<<>>) = 0
  OBVIOUS
<1>5. LineInv
  <2> SUFFICES ASSUME NEW s \in Servers PROVE InLine(Line(s), s)
    BY DEF LineInv
  <2>1. <<>> \o <<>> = <<>>
    BY EmptySeq, ConcatEmptySeq
  <2>2. TxOf(<<>>) = <<>>
    BY DEF TxOf
  <2>3. Line(s) = <<>>
    BY <1>2, <2>1, <2>2 DEF Line, Unnumbered
  <2>4. \A c : Of(<<>>, c, 0) = {}
    BY DEF Of
  <2>5. \A c : Cardinality(Of(<<>>, c, 0)) = 0
    BY <2>4, FS_EmptySet
  <2>6. 1..Len(<<>>) = {}
    OBVIOUS
  <2> QED  BY <1>3, <1>4, <2>3, <2>5, <2>6 DEF InLine
<1>6. ClientInv
  BY <1>2, <1>3, <1>4 DEF ClientInv
<1>7. StepInv
  BY <1>2, <1>4 DEF StepInv
<1>8. QueueInv
  <2> SUFFICES ASSUME NEW s \in Servers PROVE QueueAt(s)
    BY DEF QueueInv, QueueAt
  <2> DEFINE f == [i \in 0..0 |-> 0]
  <2>1. f \in [0..0 -> 0..0] /\ f[0] = 0 /\ \A i \in 0..0 : i = 0 /\ f[i] = 0
    OBVIOUS
  <2> HIDE DEF f
  <2>2. EndsOf(s, f)
    BY <1>2, <1>4, <2>1 DEF EndsOf
  <2> QED  BY <1>2, <1>4, <2>1, <2>2 DEF QueueAt
<1>9. TakenInv
  BY <1>2, <1>4 DEF TakenInv, UpTo
<1>10. EpochInv
  BY DEF Init, EpochInv, Epochs, Bounds
<1> QED  BY <1>1, <1>5, <1>6, <1>7, <1>8, <1>9, <1>10 DEF CollectorInv

LEMMA CollectorStep ==
  ASSUME Bounds, CollectorInv, [Next]_collectorVars
  PROVE  CollectorInv'
BY TypedStep, LineStep, ClientStep, StepsInOrder, QueueStep, TakenStep, EpochStep DEF CollectorInv

LEMMA CollectorInvariance ==
  ASSUME Bounds PROVE Spec => []CollectorInv
<1>1. Init => CollectorInv
  BY CollectorInit
<1>2. CollectorInv /\ [Next]_collectorVars => CollectorInv'
  BY CollectorStep
<1> QED  BY <1>1, <1>2, PTL DEF Spec

LEMMA HandedFirst ==
  ASSUME Typed, NEW s \in Servers
  PROVE  \A i \in 1..Len(handed[s]) : i \in 1..Len(Line(s)) /\ Line(s)[i] = handed[s][i].tx
<1> DEFINE h == TxOf(handed[s])
           r == TxOf(pendingTransactions[s]) \o (TxOf(toEnqueue[s]) \o (Unnumbered(s) \o (requestBuffer[s] \o (accepted[s] \o inbox[s]))))
<1>1. h \in Seq(Requests) /\ r \in Seq(Requests) /\ handed[s] \in Seq(Numbered)
  BY LineParts
<1>2. Len(h) = Len(handed[s]) /\ \A i \in 1..Len(handed[s]) : h[i] = handed[s][i].tx
  BY <1>1, TxOfProperties
<1>3. Line(s) = h \o r
  BY DEF Line
<1> HIDE DEF h, r
<1>4. /\ Len(h \o r) = Len(h) + Len(r) /\ Len(h) \in Nat /\ Len(r) \in Nat
      /\ \A i \in 1..(Len(h) + Len(r)) : (h \o r)[i] = IF i <= Len(h) THEN h[i] ELSE r[i - Len(h)]
  BY <1>1, ConcatProperties, LenProperties
<1> SUFFICES ASSUME NEW i \in 1..Len(handed[s])
             PROVE  i \in 1..Len(Line(s)) /\ Line(s)[i] = handed[s][i].tx
  OBVIOUS
<1>5. i \in 1..(Len(h) + Len(r)) /\ i <= Len(h)
  BY <1>2, <1>4
<1> QED  BY <1>2, <1>3, <1>4, <1>5

(* What reaches the local receiver is what the clients sent: every batch   *)
(* is whole, and a client's transactions come in the order of its          *)
(* requests, none lost and none twice, for any number of servers and of    *)
(* clients that each have one request outstanding.                         *)
THEOREM HandedAsSent == ASSUME Bounds PROVE Spec => []HandedInOrder
<1>1. ASSUME CollectorInv PROVE HandedInOrder
  <2>0. Typed /\ LineInv /\ TakenInv
    BY <1>1 DEF CollectorInv
  <2>1. TypeOK
    BY <2>0 DEF Typed, TypeOK
  <2>2. BatchesWhole
    <3> SUFFICES ASSUME NEW s \in Servers, NEW i \in DOMAIN takenBatches[s]
                 PROVE  LET first == IF i = 1 THEN 1 ELSE takenBatches[s][i - 1].upTo + 1
                            last  == takenBatches[s][i].upTo
                            proof == takenBatches[s][i].proof
                        IN  /\ last + 1 = first + proof.size
                            /\ \A j \in first..last : handed[s][j].epoch = proof.epoch
      BY DEF BatchesWhole
    <3> DEFINE t == takenBatches[s]
               first == IF i = 1 THEN 1 ELSE t[i - 1].upTo + 1
    <3>1. t \in Seq([proof : Proofs, upTo : Nat]) /\ i \in 1..Len(t) /\ Len(t) \in Nat
      BY <2>0, LenProperties DEF Typed
    <3>2. t[i] \in [proof : Proofs, upTo : Nat]
      BY <3>1, ElementOfSeq
    <3>3. t[i].proof.size \in Nat /\ t[i].upTo \in Nat
      BY <3>2 DEF Proofs
    <3>4. /\ UpTo(s, i) = UpTo(s, i - 1) + t[i].proof.size
          /\ \A j \in (UpTo(s, i - 1) + 1)..UpTo(s, i) : handed[s][j].epoch = t[i].proof.epoch
      BY <2>0, <3>1 DEF TakenInv
    <3>5. UpTo(s, i) = t[i].upTo
      BY <3>1 DEF UpTo
    <3>6. UpTo(s, i - 1) + 1 = first /\ UpTo(s, i - 1) \in Nat
      <4>1. CASE i = 1
        BY <4>1 DEF UpTo
      <4>2. CASE i # 1
        <5>1. i - 1 \in 1..Len(t) /\ i - 1 # 0
          BY <3>1, <4>2
        <5>2. t[i - 1] \in [proof : Proofs, upTo : Nat]
          BY <3>1, <5>1, ElementOfSeq
        <5> QED  BY <4>2, <5>1, <5>2 DEF UpTo
      <4> QED  BY <4>1, <4>2
    <3> DEFINE a == UpTo(s, i - 1)
               b == t[i].upTo
               d == t[i].proof.size
    <3>7. a \in Nat /\ b \in Nat /\ d \in Nat /\ b = a + d /\ a + 1 = first
      BY <3>3, <3>4, <3>5, <3>6
    <3> HIDE DEF first, a, b, d
    <3>8. b + 1 = first + d
      BY <3>7
    <3>9. \A j \in first..b : handed[s][j].epoch = t[i].proof.epoch
      BY <3>4, <3>5, <3>6 DEF b
    <3> QED  BY <3>8, <3>9 DEF first, b, d
  <2>3. RequestsInOrder
    <3> SUFFICES ASSUME NEW s \in Servers, NEW i \in DOMAIN handed[s]
                 PROVE  LET request == handed[s][i].tx
                        IN  /\ ServerOf[request[1]] = s
                            /\ request[2] = Cardinality({j \in 1..(i - 1) : handed[s][j].tx[1] = request[1]})
      BY DEF RequestsInOrder
    <3>1. i \in 1..Len(handed[s]) /\ Len(handed[s]) \in Nat
      BY <2>0, LenProperties DEF Typed
    <3> DEFINE request == handed[s][i].tx
               q == Line(s)
    <3>2. i \in 1..Len(q) /\ q[i] = request
      BY <2>0, <3>1, HandedFirst
    <3>3. ServerOf[q[i][1]] = s /\ q[i][2] = Cardinality(Of(q, q[i][1], i - 1))
      BY <2>0, <3>2 DEF LineInv, InLine
    <3>4. \A j \in 1..(i - 1) : j \in 1..Len(handed[s])
      BY <3>1
    <3>5. \A j \in 1..(i - 1) : q[j] = handed[s][j].tx
      BY <2>0, <3>4, HandedFirst
    <3> HIDE DEF q
    <3>6. Of(q, request[1], i - 1) = {j \in 1..(i - 1) : handed[s][j].tx[1] = request[1]}
      BY <3>5 DEF Of
    <3> HIDE DEF request
    <3>7. ServerOf[request[1]] = s /\ request[2] = Cardinality({j \in 1..(i - 1) : handed[s][j].tx[1] = request[1]})
      BY <3>2, <3>3, <3>6
    <3> QED  BY <3>7 DEF request
  <2> QED  BY <2>1, <2>2, <2>3 DEF HandedInOrder
<1> QED  BY <1>1, CollectorInvariance, PTL

(* The epoch server numbers the batches as EpochNumbering says, and no     *)
(* epoch ends before TIME_GAP has passed since its first batch: the reply  *)
(* to a batch comes first, then the look at the clock.                     *)
THEOREM NumberedInOrder == ASSUME Bounds PROVE Spec => ImplementsNumbering
<1>1. Init => Numbering!NumberingInit
  BY DEF Init, Numbering!NumberingInit
<1>2. CollectorInv /\ [Next]_collectorVars => [Numbering!NumberingNext]_(Numbering!numberingVars)
  <2> SUFFICES ASSUME CollectorInv, Next
               PROVE  Numbering!NumberingNext \/ UNCHANGED <<epochNum, numbered>>
    BY DEF Numbering!numberingVars, collectorVars, epochVars
  <2>1. ASSUME NEW s \in Servers, Serve(s) PROVE Numbering!Number(s)
    BY <2>1 DEF Serve, Numbering!Number
  <2>2. CASE UpdateEpoch
    <3>1. CASE epochNum' = epochNum
      BY <2>2, <3>1 DEF UpdateEpoch
    <3>2. CASE epochNum' # epochNum
      <4>1. epochNum < MaxEpochNum /\ epochNum' = epochNum + 1 /\ serving /\ numbered' = numbered
        BY <2>2, <3>2 DEF UpdateEpoch
      <4>2. PICK s \in Servers : \E i \in 1..Len(numbered[s]) : numbered[s][i] = epochNum
        BY <4>1 DEF CollectorInv, EpochInv
      <4>3. DOMAIN numbered[s] = 1..Len(numbered[s])
        BY LenProperties DEF CollectorInv, Typed
      <4>4. Numbering!HasBatch(s, epochNum)
        BY <4>2, <4>3 DEF Numbering!HasBatch
      <4> QED  BY <4>1, <4>4 DEF Numbering!Advance, Numbering!NumberingNext
    <3> QED  BY <3>1, <3>2
  <2>3. ASSUME NEW s \in Servers, ServerStep(s), ~Serve(s) PROVE UNCHANGED <<epochNum, numbered>>
    BY <2>3 DEF ServerStep, CollectRequest, BufferRequest, PackBatch, EnqueueTransaction, EnqueueProof,
                TakeBatch, epochVars
  <2>4. CASE Clock
    BY <2>4 DEF Clock
  <2>5. ASSUME NEW c \in Clients, SendRequest(c) PROVE UNCHANGED <<epochNum, numbered>>
    BY <2>5 DEF SendRequest, epochVars
  <2> QED  BY <2>1, <2>2, <2>3, <2>4, <2>5 DEF Next, Numbering!NumberingNext
<1> DEFINE Lasted == epochNum' # epochNum =>
                       /\ epochSizeMap[epochNum] > 0
                       /\ now - firstRequest[epochNum] >= TimeGap
<1>3. CollectorInv /\ [Next]_collectorVars => [Lasted]_collectorVars
  <2> SUFFICES ASSUME CollectorInv, Next, epochNum' # epochNum
               PROVE  epochSizeMap[epochNum] > 0 /\ now - firstRequest[epochNum] >= TimeGap
    OBVIOUS
  <2>1. UpdateEpoch
    BY DEF Next, ServerStep, SendRequest, CollectRequest, BufferRequest, PackBatch, Serve,
           EnqueueTransaction, EnqueueProof, TakeBatch, Clock, epochVars
  <2>2. serving /\ now - epochStartTime >= TimeGap
    BY <2>1 DEF UpdateEpoch
  <2>3. epochSizeMap[epochNum] > 0 /\ firstRequest[epochNum] = epochStartTime
    BY <2>2 DEF CollectorInv, EpochInv
  <2> QED  BY <2>2, <2>3
<1> QED
  BY <1>1, <1>2, <1>3, CollectorInvariance, PTL
     DEF Spec, ImplementsNumbering, Numbering!NumberingSpec, EpochsLast

=============================================================================
