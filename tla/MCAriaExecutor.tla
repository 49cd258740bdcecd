--------------------------- MODULE MCAriaExecutor ---------------------------
(***************************************************************************)
(* Instances of AriaExecutor for TLC.  With MaxTid = 3, the transactions   *)
(* 1 and 3 share a worker when there are two.                              *)
(***************************************************************************)
EXTENDS AriaExecutor

CONSTANTS w1, w2, w3, k1, k2

\* InvokeChaincode returns false: an unknown chaincode name.
Unknown == [ok |-> FALSE, rwset |-> {}]

Access(R, W) == [ok |-> TRUE, rwset |-> ({"read"} \X R) \cup ({"write"} \X W)]

\* correct_test and crdt_gcounter on either key, a mixed one, and a failure
SomeRequests ==
  {Unknown, Access({k1}, {k1}), Access({k2}, {k2}), Access({k1}, {k2})}

\* every payload of a mixed chaincode
AllRequests == {Access(R, W) : R \in SUBSET Keys, W \in SUBSET Keys}

Payloads == SomeRequests \cup AllRequests

\* one worker gets everything, or round robin over two or three
HomeOne == [t \in Tid |-> w1]
HomeTwo == [t \in Tid |-> IF t % 2 = 1 THEN w1 ELSE w2]
HomeThree == [t \in Tid |-> <<w1, w2, w3>>[1 + (t % 3)]]

\* three workers race, or one worker gets every combination of payloads
RacingOrAlone ==
  [request : [Tid -> SomeRequests], home : {HomeThree}]
    \cup [request : [Tid -> AllRequests], home : {HomeOne}]

TwoWorkers == [request : [Tid -> SomeRequests], home : {HomeTwo}]

\* one worker gets the transactions, which have no key in common
OnDifferentKeys ==
  [request : {q \in [Tid -> {Access({k}, {k}) : k \in Keys}] :
                \A t, u \in Tid : t # u => q[t] # q[u]},
   home : {HomeOne}]

\* the two smallest IDs meet first, on different workers
ArrivalFirst == [t \in Tid |-> 1]
=============================================================================
