------------------------- MODULE MCTransactionManager -------------------------
(***************************************************************************)
(* TransactionManager with either comm module, after a restart; with       *)
(* CommController, on a server that is alone or has a second receiver.     *)
(* The model stops when its transactions are used up, as the server does   *)
(* when nobody sends any.                                                  *)
(***************************************************************************)
EXTENDS TransactionManager

(* IDs of different epochs are never compared: transactions may be         *)
(* numbered in the order of their epochs.                                  *)
NumberedByEpoch ==
  \A t \in Tx : epochOf[t] = 0 /\ epochOf'[t] # 0 =>
    \A u \in Tx : epochOf[u] \in 1..(epochOf'[t] - 1) => u < t

MCSpec == Init /\ [][Next /\ NumberedByEpoch]_vars /\ Fairness
=============================================================================
