------------------------------ MODULE KVRWSet ------------------------------
(***************************************************************************)
(* The read and write sets of transactions (KVRWSet): what a transaction   *)
(* reads and writes of the one table that the chaincodes use.  A slot is a *)
(* key to be read or to be written; its value is left out.                 *)
(***************************************************************************)
EXTENDS Naturals

CONSTANTS
  Keys,      \* the rows of the database
  MaxTid     \* bound: transactions have the IDs 1..MaxTid

ASSUME TidAssumption == MaxTid \in Nat

Tid == 1..MaxTid

Reads  == {"read"} \X Keys
Writes == {"write"} \X Keys
Slots  == Reads \cup Writes

\* The keys that a set of slots reads and writes.
ReadKeys(rwset)  == {k \in Keys : <<"read", k>> \in rwset}
WriteKeys(rwset) == {k \in Keys : <<"write", k>> \in rwset}
=============================================================================
