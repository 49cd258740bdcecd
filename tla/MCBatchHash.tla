------------------------------ MODULE MCBatchHash ------------------------------
(***************************************************************************)
(* BatchHash on a server that has another one beside it: its own receiver  *)
(* thread and one for the other server share the helper.                   *)
(***************************************************************************)
EXTENDS BatchHash
=============================================================================
