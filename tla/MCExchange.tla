------------------------------ MODULE MCExchange ------------------------------
(***************************************************************************)
(* Model checking of the parts that exchange transactions, one part to a   *)
(* behaviour: the barrier of one server's receivers (CyclicBarrier) and    *)
(* the way of a transaction from a client to the local receiver            *)
(* (UserCollector), both extended, and two servers' controllers, for their *)
(* liveness (Controllers).                                                 *)
(***************************************************************************)
EXTENDS CyclicBarrier, UserCollector, TLC

CONSTANTS s1, s2, c1, c2

VARIABLES
  running,           \* the part that runs in this behaviour
  \* Controllers; currentEpoch and numberedBatches are the epoch server's
  currentEpoch, numberedBatches, epoch, taken, receiver, transactionSetMulti,
  channel, broadcastTransactions, stopped

controllerVars ==
  <<currentEpoch, numberedBatches, epoch, taken, receiver, transactionSetMulti,
    channel, broadcastTransactions, stopped>>
vars == <<running, barrierVars, collectorVars, controllerVars>>

Controllers == INSTANCE CommController WITH
  MaxEpochNum <- 3, MaxPerServer <- 4, MaxPerEpoch <- 2,
  Skips <- FALSE, Lossy <- FALSE,
  epochNum <- currentEpoch, numbered <- numberedBatches

ExchangeInit ==
  /\ running \in {"barrier", "collector", "controllers"}
  /\ BarrierInit
  /\ running # "barrier" => use = CHOOSE u \in Uses : TRUE
  /\ Init /\ Controllers!Init

ExchangeNext ==
  \/ /\ running = "barrier" /\ BarrierNext
     /\ UNCHANGED <<running, collectorVars, controllerVars>>
  \/ /\ running = "collector" /\ Next
     /\ UNCHANGED <<running, barrierVars, controllerVars>>
  \/ /\ running = "controllers" /\ Controllers!Next
     /\ UNCHANGED <<running, barrierVars, collectorVars>>

\* In the initial state of a part, nothing that its fairness forces is enabled.
ExchangeSpec ==
  /\ ExchangeInit /\ [][ExchangeNext]_vars
  /\ BarrierFairness /\ Fairness /\ Controllers!Fairness

-----------------------------------------------------------------------------
\* The barrier's uses: by the CommController, and all that its interface allows.
MCUses ==
  {[parties |-> 4, spurious |-> FALSE, timed |-> FALSE, resets |-> FALSE],
   [parties |-> 3, spurious |-> TRUE, timed |-> TRUE, resets |-> TRUE]}

\* The server each client is connected to.
MCServerOf == (c1 :> s1) @@ (c2 :> s2)

\* An epoch that all servers have closed is delivered at all of them.
EpochDelivered == Controllers!EpochDelivered
=============================================================================
