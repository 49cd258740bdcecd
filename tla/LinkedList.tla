------------------------------ MODULE LinkedList ------------------------------
(***************************************************************************)
(* A list of nodes that are linked by next pointers, as the queue keeps    *)
(* its free blocks and its producers.                                      *)
(***************************************************************************)
EXTENDS Naturals

\* The nodes that are reached from head by following at most `steps' pointers.
Linked(head, next, null, steps) ==
  LET reach[k \in 0..steps] ==
        IF k = 0 THEN {head} \ {null}
        ELSE reach[k - 1] \cup ({next[n] : n \in reach[k - 1]} \ {null})
  IN  reach[steps]
===============================================================================
