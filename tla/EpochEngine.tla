----------------------------- MODULE EpochEngine -----------------------------
(***************************************************************************)
(* What the epoch engine of a block server promises, without threads,      *)
(* workers, signals or buffers: transactions are executed and committed in *)
(* batches, epoch after epoch.  An epoch has two phases.  In the first its *)
(* transactions are executed against the state the previous epoch left; in *)
(* the second, which starts when all of them have been, the outcome of     *)
(* each one is decided.  Then the epoch is announced as finished.          *)
(*                                                                         *)
(* Every server is to produce the same block for an epoch, hence an epoch  *)
(* that has been closed gets no further transactions.                      *)
(***************************************************************************)
EXTENDS Naturals

CONSTANTS Tx, MaxEpoch, NoFinish

VARIABLES
  epochOf,     \* the epoch of each transaction, 0 until it is submitted
  epoch,       \* the epoch being processed
  phase,       \* "read", "commit" or "done"
  nExec,       \* how often each transaction was executed
  nCommit,     \* how often the outcome of each transaction was decided
  finished     \* the last epoch announced, NoFinish at first

vars == <<epochOf, epoch, phase, nExec, nCommit, finished>>

Batch == {t \in Tx : epochOf[t] = epoch}

Init ==
  /\ epochOf = [t \in Tx |-> 0]
  /\ epoch = 1 /\ phase = "read"
  /\ nExec = [t \in Tx |-> 0] /\ nCommit = [t \in Tx |-> 0]
  /\ finished = NoFinish

Submit(T, e) ==
  /\ \A t \in T : epochOf[t] = 0
  /\ e > epoch \/ (e = epoch /\ phase = "read")
  /\ epochOf' = [t \in Tx |-> IF t \in T THEN e ELSE epochOf[t]]
  /\ UNCHANGED <<epoch, phase, nExec, nCommit, finished>>

Execute(T) ==
  /\ phase = "read"
  /\ \A t \in T : t \in Batch /\ nExec[t] = 0
  /\ nExec' = [t \in Tx |-> IF t \in T THEN 1 ELSE nExec[t]]
  /\ UNCHANGED <<epochOf, epoch, phase, nCommit, finished>>

StartCommit ==
  /\ phase = "read"
  /\ \A t \in Batch : nExec[t] = 1
  /\ phase' = "commit"
  /\ UNCHANGED <<epochOf, epoch, nExec, nCommit, finished>>

Commit(T) ==
  /\ phase = "commit"
  /\ \A t \in T : t \in Batch /\ nCommit[t] = 0
  /\ nCommit' = [t \in Tx |-> IF t \in T THEN 1 ELSE nCommit[t]]
  /\ UNCHANGED <<epochOf, epoch, phase, nExec, finished>>

Finish ==
  /\ phase = "commit"
  /\ \A t \in Batch : nCommit[t] = 1
  /\ finished' = epoch /\ phase' = "done"
  /\ UNCHANGED <<epochOf, epoch, nExec, nCommit>>

NextEpoch ==
  /\ phase = "done"
  /\ epoch' = epoch + 1 /\ phase' = "read"
  /\ UNCHANGED <<epochOf, nExec, nCommit, finished>>

Next ==
  \/ \E T \in SUBSET Tx :
       \/ \E e \in 1..MaxEpoch : Submit(T, e)
       \/ Execute(T)
       \/ Commit(T)
  \/ StartCommit \/ Finish \/ NextEpoch

Spec == Init /\ [][Next]_vars

=============================================================================
