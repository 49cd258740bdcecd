--------------------------- MODULE UserCollector ---------------------------
(***************************************************************************)
(* From the clients to the CommController: clients send transactions to a  *)
(* block server; its UserCollector accepts them on one thread, packs them  *)
(* into batches on another, has each batch numbered by the epoch server    *)
(* and hands the transactions and the numbered batch (the proof) to the    *)
(* local receiver through two queues.                                      *)
(*                                                                         *)
(* A request is <<client, how many the client sent before>>.  All sockets  *)
(* are REQ/REP: one request of a client is outstanding at a time.          *)
(***************************************************************************)
EXTENDS Naturals, Sequences, SequencesExt, FiniteSets

CONSTANTS
  Servers,        \* the block servers
  Clients,        \* the client threads
  ServerOf,       \* the block server each of them is connected to, a function
  MaxRequests,    \* bound: requests per client
  MaxBatch,       \* EPOCH_SIZE_APPROX
  TimeGap,        \* TIME_GAP
  MaxTime,        \* bound: the last value of the clock
  MaxEpochNum     \* bound: the last epoch

VARIABLES
  \* the clients
  sent,              \* how many requests each has sent
  answered,          \* how many replies it has received
  \* the block servers
  inbox,             \* requests in the REP socket of port 5001
  accepted,          \* the request collectRequest is about to enqueue
  requestBuffer,
  batch,             \* the transactions of the batch being numbered
  rpc,               \* where UserCollector::run is
  toEnqueue,         \* what newTransactionHandle still has to enqueue
  pendingTransactions,
  pendingTransactionsProof,
  handed,            \* history: the transactions the local receiver has taken
  takenBatches,      \* history: its batches, proof and end in handed of each
  \* the epoch server
  now, epochStartTime, epochNum, epochSizeMap, totalSize,
  serving,           \* whether it has replied and not looked at the clock
  \* history
  numbered,          \* the epochs of each server's batches
  firstRequest       \* when the first request of each epoch arrived

clientVars    == <<sent, answered>>
collectVars   == <<inbox, accepted, requestBuffer>>
batchVars     == <<batch, rpc, toEnqueue>>
queueVars     == <<pendingTransactions, pendingTransactionsProof, handed,
                   takenBatches>>
epochVars     == <<now, epochStartTime, epochNum, epochSizeMap, totalSize,
                   serving, numbered, firstRequest>>
collectorVars == <<clientVars, collectVars, batchVars, queueVars, epochVars>>

Epochs == 1..MaxEpochNum

Init ==
  /\ sent = [c \in Clients |-> 0] /\ answered = [c \in Clients |-> 0]
  /\ inbox = [s \in Servers |-> <<>>]
  /\ accepted = [s \in Servers |-> <<>>]
  /\ requestBuffer = [s \in Servers |-> <<>>]
  /\ batch = [s \in Servers |-> <<>>]
  /\ rpc = [s \in Servers |-> "dequeue"]
  /\ toEnqueue = [s \in Servers |-> <<>>]
  /\ pendingTransactions = [s \in Servers |-> <<>>]
  /\ pendingTransactionsProof = [s \in Servers |-> <<>>]
  /\ handed = [s \in Servers |-> <<>>]
  /\ takenBatches = [s \in Servers |-> <<>>]
  /\ now = 0 /\ epochStartTime = 0 /\ epochNum = 1
  /\ epochSizeMap = [e \in Epochs |-> 0] /\ totalSize = 0 /\ serving = FALSE
  /\ numbered = [s \in Servers |-> <<>>]
  /\ firstRequest = [e \in Epochs |-> 0]

-----------------------------------------------------------------------------
\* The client: send a transaction, wait for the empty reply.
SendRequest(c) ==
  /\ sent[c] = answered[c] /\ sent[c] < MaxRequests
  /\ inbox' = [inbox EXCEPT ![ServerOf[c]] = Append(@, <<c, sent[c]>>)]
  /\ sent' = [sent EXCEPT ![c] = @ + 1]
  /\ UNCHANGED <<answered, accepted, requestBuffer, batchVars, queueVars, epochVars>>

\* collectRequest: the reply leaves before the request is in the buffer.
CollectRequest(s) ==
  /\ inbox[s] # <<>> /\ accepted[s] = <<>>
  /\ inbox' = [inbox EXCEPT ![s] = Tail(@)]
  /\ accepted' = [accepted EXCEPT ![s] = <<Head(inbox[s])>>]
  /\ answered' = [answered EXCEPT ![Head(inbox[s])[1]] = @ + 1]
  /\ UNCHANGED <<sent, requestBuffer, batchVars, queueVars, epochVars>>

MutantBufferRequest(s) ==
  /\ accepted[s] # <<>>
  /\ requestBuffer' = [requestBuffer EXCEPT ![s] = accepted[s]]
  /\ accepted' = [accepted EXCEPT ![s] = <<>>]
  /\ UNCHANGED <<inbox, clientVars, batchVars, queueVars, epochVars>>
BufferRequest(s) ==
  /\ accepted[s] # <<>>
  /\ requestBuffer' = [requestBuffer EXCEPT ![s] = @ \o accepted[s]]
  /\ accepted' = [accepted EXCEPT ![s] = <<>>]
  /\ UNCHANGED <<inbox, clientVars, batchVars, queueVars, epochVars>>

(* run: one or more transactions, up to the size of the buffer, become a   *)
(* batch, and a request is sent to the epoch server.                       *)
PackBatch(s) ==
  /\ rpc[s] = "dequeue"
  /\ \E n \in 1..MaxBatch :
       /\ n <= Len(requestBuffer[s])
       /\ batch' = [batch EXCEPT ![s] = SubSeq(requestBuffer[s], 1, n)]
       /\ requestBuffer' =
            [requestBuffer EXCEPT ![s] = SubSeq(@, n + 1, Len(@))]
  /\ rpc' = [rpc EXCEPT ![s] = "numbering"]
  /\ UNCHANGED <<inbox, accepted, clientVars, toEnqueue, queueVars, epochVars>>

-----------------------------------------------------------------------------
\* The epoch server's timer starts with the first request of an epoch.
StartTimer ==
  epochStartTime' = IF epochSizeMap[epochNum] = 0 THEN now ELSE epochStartTime

(* It numbers the batch of s and replies: the reply is the proof, and the  *)
(* collector gives every transaction of the batch its epoch.               *)
Serve(s) ==
  /\ rpc[s] = "numbering" /\ ~serving
  /\ StartTimer
  /\ firstRequest' = IF epochSizeMap[epochNum] = 0
                     THEN [firstRequest EXCEPT ![epochNum] = now] ELSE firstRequest
  /\ totalSize' = totalSize + Len(batch[s])
  /\ epochSizeMap' = [epochSizeMap EXCEPT ![epochNum] = @ + Len(batch[s])]
  /\ numbered' = [numbered EXCEPT ![s] = Append(@, epochNum)]
  /\ rpc' = [rpc EXCEPT ![s] = "enqueue"]
  /\ toEnqueue' = [toEnqueue EXCEPT ![s] =
       [i \in DOMAIN batch[s] |-> [tx |-> batch[s][i], epoch |-> epochNum]]]
  /\ serving' = TRUE
  /\ UNCHANGED <<now, epochNum, batch, clientVars, collectVars, queueVars>>

\* After the reply: is the epoch over?  The timer is not reset here.
MutantUpdateEpoch ==
  /\ serving
  /\ serving' = FALSE
  /\ epochNum' = IF now - epochStartTime >= TimeGap /\ epochNum < MaxEpochNum
                 THEN epochNum + 1 ELSE 1
  /\ UNCHANGED <<now, epochStartTime, epochSizeMap, totalSize, numbered,
                 firstRequest, clientVars, collectVars, batchVars, queueVars>>
UpdateEpoch ==
  /\ serving
  /\ serving' = FALSE
  /\ epochNum' = IF now - epochStartTime >= TimeGap /\ epochNum < MaxEpochNum
                 THEN epochNum + 1 ELSE epochNum
  /\ UNCHANGED <<now, epochStartTime, epochSizeMap, totalSize, numbered,
                 firstRequest, clientVars, collectVars, batchVars, queueVars>>

Clock ==
  /\ now < MaxTime
  /\ now' = now + 1
  /\ UNCHANGED <<epochStartTime, epochNum, epochSizeMap, totalSize, serving,
                 numbered, firstRequest, clientVars, collectVars, batchVars,
                 queueVars>>

-----------------------------------------------------------------------------
(* newTransactionHandle: the transactions first, one by one, then the      *)
(* proof, a response of the epoch server.                                  *)
EnqueueTransaction(s) ==
  /\ rpc[s] = "enqueue" /\ toEnqueue[s] # <<>>
  /\ pendingTransactions' =
       [pendingTransactions EXCEPT ![s] = Append(@, Head(toEnqueue[s]))]
  /\ toEnqueue' = [toEnqueue EXCEPT ![s] = Tail(@)]
  /\ UNCHANGED <<batch, rpc, pendingTransactionsProof, handed, takenBatches,
                 clientVars, collectVars, epochVars>>

MutantEnqueueProof(s) ==
  /\ rpc[s] = "enqueue" /\ Len(toEnqueue[s]) < Len(batch[s])
  /\ pendingTransactionsProof' = [pendingTransactionsProof EXCEPT ![s] =
       Append(@, [epoch |-> Last(numbered[s]), size |-> Len(batch[s])])]
  /\ rpc' = [rpc EXCEPT ![s] = "dequeue"]
  /\ batch' = [batch EXCEPT ![s] = <<>>]
  /\ UNCHANGED <<toEnqueue, pendingTransactions, handed, takenBatches,
                 clientVars, collectVars, epochVars>>
EnqueueProof(s) ==
  /\ rpc[s] = "enqueue" /\ toEnqueue[s] = <<>>
  /\ pendingTransactionsProof' = [pendingTransactionsProof EXCEPT ![s] =
       Append(@, [epoch |-> Last(numbered[s]), size |-> Len(batch[s])])]
  /\ rpc' = [rpc EXCEPT ![s] = "dequeue"]
  /\ batch' = [batch EXCEPT ![s] = <<>>]
  /\ UNCHANGED <<toEnqueue, pendingTransactions, handed, takenBatches,
                 clientVars, collectVars, epochVars>>

(* The local receiver waits for a proof, then takes as many transactions   *)
(* as it names in one wait_dequeue_bulk, which would return fewer if there *)
(* were fewer.                                                             *)
TakeBatch(s) ==
  /\ pendingTransactionsProof[s] # <<>>
  /\ LET proof == Head(pendingTransactionsProof[s])
         queue == pendingTransactions[s]
         n     == IF proof.size <= Len(queue) THEN proof.size ELSE Len(queue)
     IN  /\ handed' = [handed EXCEPT ![s] = @ \o SubSeq(queue, 1, n)]
         /\ takenBatches' = [takenBatches EXCEPT ![s] =
              Append(@, [proof |-> proof, upTo |-> Len(handed[s]) + n])]
         /\ pendingTransactions' =
              [pendingTransactions EXCEPT ![s] = SubSeq(queue, n + 1, Len(queue))]
  /\ pendingTransactionsProof' = [pendingTransactionsProof EXCEPT ![s] = Tail(@)]
  /\ UNCHANGED <<clientVars, collectVars, batchVars, epochVars>>

ServerStep(s) ==
  \/ CollectRequest(s) \/ BufferRequest(s) \/ PackBatch(s) \/ Serve(s)
  \/ EnqueueTransaction(s) \/ EnqueueProof(s) \/ TakeBatch(s)

Next ==
  \/ \E c \in Clients : SendRequest(c)
  \/ \E s \in Servers : ServerStep(s)
  \/ UpdateEpoch \/ Clock

(* The threads of the servers run; a server's turn at the epoch server     *)
(* comes (fair queueing of the REP socket).  Clients need not send.        *)
Fairness ==
  /\ WF_collectorVars(UpdateEpoch)
  /\ \A s \in Servers :
       /\ WF_collectorVars(CollectRequest(s)) /\ WF_collectorVars(BufferRequest(s))
       /\ WF_collectorVars(PackBatch(s)) /\ SF_collectorVars(Serve(s))
       /\ WF_collectorVars(EnqueueTransaction(s)) /\ WF_collectorVars(EnqueueProof(s))
       /\ WF_collectorVars(TakeBatch(s))

Spec == Init /\ [][Next]_collectorVars /\ Fairness

-----------------------------------------------------------------------------
Requests == Clients \X (0..MaxRequests)
Numbered == [tx : Requests, epoch : Epochs]

TypeOK ==
  /\ sent \in [Clients -> 0..MaxRequests] /\ answered \in [Clients -> 0..MaxRequests]
  /\ \A s \in Servers :
       /\ inbox[s] \in Seq(Requests) /\ requestBuffer[s] \in Seq(Requests)
       /\ accepted[s] \in Seq(Requests) /\ batch[s] \in Seq(Requests)
       /\ toEnqueue[s] \in Seq(Numbered) /\ pendingTransactions[s] \in Seq(Numbered)
       /\ handed[s] \in Seq(Numbered) /\ numbered[s] \in Seq(Epochs)
  /\ rpc \in [Servers -> {"dequeue", "numbering", "enqueue"}]
  /\ now \in 0..MaxTime /\ epochStartTime \in 0..now
  /\ epochNum \in Epochs /\ epochSizeMap \in [Epochs -> Nat]
  /\ totalSize \in Nat /\ serving \in BOOLEAN

(* The receiver takes whole batches: all the transactions that the proof   *)
(* was issued for, each with the proof's epoch (its CHECK of the epoch).   *)
BatchesWhole ==
  \A s \in Servers : \A i \in DOMAIN takenBatches[s] :
    LET first == IF i = 1 THEN 1 ELSE takenBatches[s][i - 1].upTo + 1
        last  == takenBatches[s][i].upTo
        proof == takenBatches[s][i].proof
    IN  /\ last + 1 = first + proof.size
        /\ \A j \in first..last : handed[s][j].epoch = proof.epoch

(* A client's transactions reach the receiver in the order of its          *)
(* requests, none lost and none twice, although the reply to one and the   *)
(* packing of another overlap.                                             *)
RequestsInOrder ==
  \A s \in Servers : \A i \in DOMAIN handed[s] :
    LET request == handed[s][i].tx
    IN  /\ ServerOf[request[1]] = s
        /\ request[2] = Cardinality({j \in 1..(i - 1) : handed[s][j].tx[1] = request[1]})

\* Transactions are handed on batch by batch, in their order.
HandedInOrder == TypeOK /\ BatchesWhole /\ RequestsInOrder

(* No epoch is shorter than TIME_GAP, counted from its first batch, and    *)
(* none is empty.                                                          *)
EpochsLast ==
  [][epochNum' # epochNum =>
       /\ epochSizeMap[epochNum] > 0
       /\ now - firstRequest[epochNum] >= TimeGap]_collectorVars

\* The batches are numbered as the CommController expects it.
Numbering == INSTANCE EpochNumbering WITH Skips <- TRUE
ImplementsNumbering == Numbering!NumberingSpec /\ EpochsLast

(* The transactions that were acknowledged to a client reach the local     *)
(* receiver, all of them when the client has been told of all.             *)
HandedOf(c) ==
  {i \in DOMAIN handed[ServerOf[c]] : handed[ServerOf[c]][i].tx[1] = c}
AcknowledgedHanded ==
  \A c \in Clients :
    answered[c] = MaxRequests ~> Cardinality(HandedOf(c)) = MaxRequests
=============================================================================
