------------------------------ MODULE Barrier ------------------------------
(***************************************************************************)
(* What the CommController expects of its barrier: a thread that calls     *)
(* await stays inside until all threads are, and then all are let out in   *)
(* one step.                                                               *)
(***************************************************************************)
EXTENDS FiniteSets

CONSTANT Threads

VARIABLE inside

Init == inside = {}

Enter(t) ==
  /\ t \notin inside
  /\ inside \cup {t} # Threads
  /\ inside' = inside \cup {t}

\* The last one to arrive does not stay.
Open(t) ==
  /\ t \notin inside
  /\ inside \cup {t} = Threads
  /\ inside' = {}

Next == \E t \in Threads : Enter(t) \/ Open(t)

Spec == Init /\ [][Next]_inside
=============================================================================
