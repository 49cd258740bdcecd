------------------------------ MODULE BlockPool ------------------------------
(***************************************************************************)
(* What the queue expects of its free list: a block has one owner at a     *)
(* time, a thread that has taken it or the list.                           *)
(***************************************************************************)
CONSTANTS Threads, Blocks

VARIABLE owned     \* the blocks of each thread; the others are free

Free == Blocks \ UNION {owned[t] : t \in Threads}

Init == \E f \in [Blocks -> Threads] :
          owned = [t \in Threads |-> {b \in Blocks : f[b] = t}]

Add(t, b) ==
  /\ b \in owned[t]
  /\ owned' = [owned EXCEPT ![t] = @ \ {b}]

\* A thread may find nothing although a block is free: that is no step.
Get(t, b) ==
  /\ b \in Free
  /\ owned' = [owned EXCEPT ![t] = @ \cup {b}]

Next == \E t \in Threads, b \in Blocks : Add(t, b) \/ Get(t, b)

Spec == Init /\ [][Next]_owned
==============================================================================
