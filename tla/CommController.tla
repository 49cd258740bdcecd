--------------------------- MODULE CommController ---------------------------
(***************************************************************************)
(* The CommControllers of the block servers, which exchange the batches of *)
(* an epoch.  Every server has one receiver thread for its own batches     *)
(* (receiveFromLocalServer, called s itself below) and one for those of    *)
(* each other server (receiveFromOtherServer).  They meet at a barrier at  *)
(* the end of an epoch, whose callback increments the server's epoch.      *)
(*                                                                         *)
(* A batch is <<server, its number there>>; numbered[s][i] is the epoch of *)
(* <<s, i>>.  The transactions of a batch go the same way one after the    *)
(* other and are not told apart.                                           *)
(***************************************************************************)
EXTENDS EpochNumbering, FiniteSets, SequencesExt

CONSTANTS
  MaxPerServer,   \* bound: how many batches a server gets
  MaxPerEpoch,    \* bound: how many of them in one epoch
  Lossy           \* whether a publication may miss a subscriber

VARIABLES
  epoch,               \* CommController::epoch of each server
  taken,               \* how many of its batches its local receiver has taken
  receiver,            \* where receiver r of server s is
  transactionSetMulti, \* the batches the local receiver has for this epoch
  channel,             \* publications on their way from o to s
  broadcastTransactions,  \* history: all batches enqueued there at s
  stopped              \* the servers a failed CHECK has stopped

commVars == <<epoch, taken, receiver, transactionSetMulti, channel,
              broadcastTransactions, stopped>>
controllerVars == <<numberingVars, commVars>>

EpochOf(b) == numbered[b[1]][b[2]]

Init ==
  /\ NumberingInit
  /\ epoch = [s \in Servers |-> 1]
  /\ taken = [s \in Servers |-> 0]
  /\ receiver = [s \in Servers |-> [r \in Servers |-> "receive"]]
  /\ transactionSetMulti = [s \in Servers |-> <<>>]
  /\ channel = [o \in Servers |-> [s \in Servers |-> <<>>]]
  /\ broadcastTransactions = [s \in Servers |-> <<>>]
  /\ stopped = {}

-----------------------------------------------------------------------------
(* Receiver r of s is at the barrier (CyclicBarrier, used as Barrier): the *)
(* last to arrive runs the callback, and all go on, the local receiver     *)
(* with the batch in its hands.                                            *)
MutantArrive(s, r) ==
  IF Cardinality({t \in Servers \ {r} : receiver[s][t] = "await"}) + 2 >= Cardinality(Servers)
  THEN /\ epoch' = [epoch EXCEPT ![s] = @ + 1]
       /\ receiver' = [receiver EXCEPT ![s] = [t \in Servers |->
            IF receiver[s][t] # "await" /\ t # r THEN receiver[s][t]
            ELSE IF t = s THEN "add" ELSE "receive"]]
  ELSE /\ receiver' = [receiver EXCEPT ![s][r] = "await"]
       /\ UNCHANGED epoch
Arrive(s, r) ==
  IF \A t \in Servers \ {r} : receiver[s][t] = "await"
  THEN /\ epoch' = [epoch EXCEPT ![s] = @ + 1]
       /\ receiver' = [receiver EXCEPT ![s] = [t \in Servers |->
                                     IF t = s THEN "add" ELSE "receive"]]
  ELSE /\ receiver' = [receiver EXCEPT ![s][r] = "await"]
       /\ UNCHANGED epoch

(* sendReply on the PUB socket reaches the subscribers, which are all other *)
(* servers unless Lossy.                                                   *)
Publish(s, m) ==
  \E R \in SUBSET (Servers \ {s}) :
    /\ Lossy \/ R = Servers \ {s}
    /\ channel' = [channel EXCEPT ![s] =
                     [o \in Servers |-> IF o \in R THEN Append(@[o], m) ELSE @[o]]]

\* CHECK(response.epoch() == epoch), then b joins the set of the epoch.
AddBatch(s, b) ==
  IF EpochOf(b) = epoch[s]
  THEN /\ transactionSetMulti' = [transactionSetMulti EXCEPT ![s] = Append(@, b)]
       /\ broadcastTransactions' = [broadcastTransactions EXCEPT ![s] = Append(@, b)]
       /\ receiver' = [receiver EXCEPT ![s][s] = "receive"]
       /\ UNCHANGED stopped
  ELSE /\ stopped' = stopped \cup {s}
       /\ UNCHANGED <<transactionSetMulti, broadcastTransactions, receiver>>

\* The local receiver takes a batch of this epoch,
Dequeue(s) ==
  /\ receiver[s][s] = "receive" /\ taken[s] < Len(numbered[s])
  /\ numbered[s][taken[s] + 1] <= epoch[s]
  /\ taken' = [taken EXCEPT ![s] = @ + 1]
  /\ AddBatch(s, <<s, taken[s] + 1>>)
  /\ UNCHANGED <<numberingVars, epoch, channel>>

\* or one of a later epoch: broadcast the set of this one, and wait.
CloseEpoch(s) ==
  /\ receiver[s][s] = "receive" /\ taken[s] < Len(numbered[s])
  /\ numbered[s][taken[s] + 1] > epoch[s]
  /\ taken' = [taken EXCEPT ![s] = @ + 1]
  /\ Publish(s, transactionSetMulti[s])
  /\ transactionSetMulti' = [transactionSetMulti EXCEPT ![s] = <<>>]
  /\ Arrive(s, s)
  /\ UNCHANGED <<numberingVars, broadcastTransactions, stopped>>

\* After the barrier the batch in hand is added to the next epoch.
AddLocal(s) ==
  /\ receiver[s][s] = "add"
  /\ AddBatch(s, <<s, taken[s]>>)
  /\ UNCHANGED <<numberingVars, epoch, taken, channel>>

(* The receiver of another server's publications takes one, enqueues its   *)
(* batches after a CHECK of their epoch, and waits.                        *)
MutantReceive(s, o) ==
  /\ receiver[s][o] = "receive" /\ channel[o][s] # <<>>
  /\ channel' = [channel EXCEPT ![o][s] = Tail(@)]
  /\ LET m == Head(channel[o][s])
     IN  /\ broadcastTransactions' = [broadcastTransactions EXCEPT ![s] = m \o @]
         /\ Arrive(s, o)
         /\ UNCHANGED stopped
  /\ UNCHANGED <<numberingVars, taken, transactionSetMulti>>
Receive(s, o) ==
  /\ receiver[s][o] = "receive" /\ channel[o][s] # <<>>
  /\ channel' = [channel EXCEPT ![o][s] = Tail(@)]
  /\ LET m == Head(channel[o][s])
     IN  IF \A i \in DOMAIN m : EpochOf(m[i]) = epoch[s]
         THEN /\ broadcastTransactions' =
                   [broadcastTransactions EXCEPT ![s] = @ \o m]
              /\ Arrive(s, o)
              /\ UNCHANGED stopped
         ELSE /\ stopped' = stopped \cup {s}
              /\ UNCHANGED <<broadcastTransactions, epoch, receiver>>
  /\ UNCHANGED <<numberingVars, taken, transactionSetMulti>>

LocalReceiver(s) == s \notin stopped /\ (Dequeue(s) \/ CloseEpoch(s) \/ AddLocal(s))
RemoteReceiver(s, o) == s \notin stopped /\ Receive(s, o)

Numbering ==
  /\ \/ Advance
     \/ \E s \in Servers :
          /\ Len(numbered[s]) < MaxPerServer
          /\ Cardinality({i \in DOMAIN numbered[s] :
                            numbered[s][i] = epochNum}) < MaxPerEpoch
          /\ Number(s)
  /\ UNCHANGED commVars

Next ==
  \/ Numbering
  \/ \E s \in Servers : LocalReceiver(s) \/ \E o \in Servers \ {s} : RemoteReceiver(s, o)

\* The receivers run; nothing forces a client to send more.
Fairness ==
  \A s \in Servers :
    /\ WF_controllerVars(LocalReceiver(s))
    /\ \A o \in Servers \ {s} : WF_controllerVars(RemoteReceiver(s, o))

Spec == Init /\ [][Next]_controllerVars /\ Fairness

-----------------------------------------------------------------------------
Batches == Servers \X (1..MaxPerServer)

TypeOK ==
  /\ epochNum \in 1..MaxEpochNum
  /\ epoch \in [Servers -> 1..MaxEpochNum]
  /\ taken \in [Servers -> 0..MaxPerServer]
  /\ receiver \in [Servers -> [Servers -> {"receive", "add", "await"}]]
  /\ \A s \in Servers :
       /\ taken[s] <= Len(numbered[s])
       /\ transactionSetMulti[s] \in Seq(Batches)
       /\ broadcastTransactions[s] \in Seq(Batches)
       /\ \A o \in Servers : channel[o][s] \in Seq(Seq(Batches))
  /\ stopped \subseteq Servers

\* CHECK(response.epoch() == epoch) and CHECK(transaction->getEpoch() == epoch).
ChecksHold == stopped = {}

Of(s, e) == {b \in ToSet(broadcastTransactions[s]) : EpochOf(b) = e}

(* A server that has left an epoch has the batches that any server got for *)
(* it, each once: this is what lets all servers execute the same epochs.   *)
SameTransactions ==
  /\ \A s \in Servers : IsInjective(broadcastTransactions[s])
  /\ \A s \in Servers : \A e \in 1..(epoch[s] - 1) :
       Of(s, e) = {b \in Batches : b[2] <= Len(numbered[b[1]]) /\ EpochOf(b) = e}

(* The batches become available epoch by epoch, none before the server is  *)
(* in its epoch: getTransaction takes a later epoch as the end of this.    *)
EpochOrder ==
  \A s \in Servers : LET q == broadcastTransactions[s] IN
    \A i \in DOMAIN q :
      /\ EpochOf(q[i]) <= epoch[s]
      /\ i > 1 => EpochOf(q[i - 1]) <= EpochOf(q[i])

(* No server is ahead of another by more than an epoch, and never are more *)
(* than two publications waiting: the queue of a subscriber stays short.   *)
Lockstep ==
  \A s, o \in Servers :
    epoch[s] <= epoch[o] + 1 /\ Len(channel[o][s]) <= 2

(* All servers go through the same epochs with the same batches, none of   *)
(* them far ahead of another.                                              *)
SameEpochs == TypeOK /\ ChecksHold /\ SameTransactions /\ EpochOrder /\ Lockstep

(* An epoch after which every server has got a batch is delivered at every *)
(* server.                                                                 *)
EpochDelivered ==
  \A e \in 1..MaxEpochNum :
    (\A s \in Servers : numbered[s] # <<>> /\ Last(numbered[s]) > e)
      ~> (\A s \in Servers : epoch[s] > e)
=============================================================================
