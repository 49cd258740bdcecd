--------------------------- MODULE EpochNumbering ---------------------------
(***************************************************************************)
(* What the block servers get from the epoch server: every server hands a  *)
(* sequence of batches to its CommController, and each batch is numbered   *)
(* with the epoch that is current when it is numbered.                     *)
(***************************************************************************)
EXTENDS Naturals, Sequences

CONSTANTS
  Servers,        \* the block servers
  MaxEpochNum,    \* bound: the last epoch
  Skips           \* whether an epoch may end without a batch of every server

VARIABLES
  epochNum,       \* the epoch server's current epoch
  numbered        \* the epochs of each server's batches so far

numberingVars == <<epochNum, numbered>>

NumberingInit ==
  /\ epochNum = 1
  /\ numbered = [s \in Servers |-> <<>>]

HasBatch(s, e) == \E i \in DOMAIN numbered[s] : numbered[s][i] = e

Number(s) ==
  /\ numbered' = [numbered EXCEPT ![s] = Append(@, epochNum)]
  /\ UNCHANGED epochNum

\* The epoch server looks at the clock only after a request.
Advance ==
  /\ epochNum < MaxEpochNum
  /\ \E s \in Servers : HasBatch(s, epochNum)
  /\ Skips \/ \A s \in Servers : HasBatch(s, epochNum)
  /\ epochNum' = epochNum + 1
  /\ UNCHANGED numbered

NumberingNext == Advance \/ \E s \in Servers : Number(s)

NumberingSpec == NumberingInit /\ [][NumberingNext]_numberingVars
=============================================================================
