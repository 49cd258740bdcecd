------------------------------ MODULE Semaphore ------------------------------
(***************************************************************************)
(* What a blocking queue expects of its semaphore: tokens are signalled    *)
(* and acquired, one or several at a time, and never more are acquired     *)
(* than have been signalled.                                               *)
(***************************************************************************)
EXTENDS Naturals

VARIABLE tokens

Init == tokens = 0

Signal(n)  == tokens' = tokens + n
Acquire(n) == n <= tokens /\ tokens' = tokens - n

Next == \E n \in 1..(tokens + tokens') : Signal(n) \/ Acquire(n)

Spec == Init /\ [][Next]_tokens
==============================================================================
