------------------------------- MODULE BatchHash -------------------------------
(***************************************************************************)
(* The hashes of the comm modules: the hash of a batch, computed by the    *)
(* user collector and again by every receiver, and the transaction IDs,    *)
(* which each receiver derives from a transaction's digest.  All receiver  *)
(* threads of a server use one SHA256Helper, without a lock.               *)
(*                                                                         *)
(* The context of the helper is the sequence of the inputs since the last  *)
(* reset, and a hash is that sequence (see Sha256).  Each call of the      *)
(* helper's reset, append or execute is a step of its thread.              *)
(***************************************************************************)
EXTENDS Naturals, Sequences, SequencesExt

CONSTANTS
  Receivers,    \* the receiver threads
  Local,        \* the one of them for the server's own batches
  Digests,      \* the digests of transactions
  Signature,    \* the epoch server's signature of a batch
  MaxSize,      \* bound: transactions in a batch
  MaxBatches    \* bound: batches per receiver

VARIABLES
  ctx,          \* the shared helper's context
  status,       \* "open", "computed" or "corrupted"
  calls,        \* the calls each receiver has still to make for its batch
  received,     \* how many batches each receiver has started on
  enqueued,     \* history: transactions in broadcastTransactions, with IDs
  accepted      \* history: what verifyBatchHash returned, with the batch: a
                \* batch that is refused is logged and used all the same

vars == <<ctx, status, calls, received, enqueued, accepted>>

HashedBatches == BoundedSeq(Digests, MaxSize) \ {<<>>}

-----------------------------------------------------------------------------
\* Calls of the helper.  hash resets the context before it appends.
Reset      == [op |-> "reset"]
Append_(x) == [op |-> "append", input |-> x]
Hash(x)    == <<Reset, Append_(x)>>

\* The user collector hashes the signatures one after the other, then executes.
BatchHash(b) == <<Last(b)>>

TransactionIDCalls(d) ==
  Hash(Signature) \o Hash(d) \o <<[op |-> "setID", digest |-> d]>>
VerifyCalls(b) ==
  <<Reset>> \o FlattenSeq([i \in DOMAIN b |-> Hash(b[i])])
            \o <<[op |-> "verify", batch |-> b]>>
AllIDs(b) == FlattenSeq([i \in DOMAIN b |-> TransactionIDCalls(b[i])])

\* The local receiver sets the IDs first, the others verify the batch first.
CallsFor(r, b) ==
  IF r = Local THEN AllIDs(b) \o VerifyCalls(b) ELSE VerifyCalls(b) \o AllIDs(b)

Init ==
  /\ ctx = <<>> /\ status = "open"
  /\ calls = [r \in Receivers |-> <<>>]
  /\ received = [r \in Receivers |-> 0]
  /\ enqueued = {} /\ accepted = {}

Receive(r, b) ==
  /\ calls[r] = <<>> /\ received[r] < MaxBatches
  /\ calls' = [calls EXCEPT ![r] = CallsFor(r, b)]
  /\ received' = [received EXCEPT ![r] = @ + 1]
  /\ UNCHANGED <<ctx, status, enqueued, accepted>>

(* A context that has computed its hash is corrupted by more input, until  *)
(* it is reset; nobody looks at the errors, and the digest that execute    *)
(* leaves then is all zeros, written <<>>.                                 *)
Digest == IF status = "corrupted" THEN <<>> ELSE ctx

Call(r) ==
  /\ calls[r] # <<>>
  /\ calls' = [calls EXCEPT ![r] = Tail(@)]
  /\ LET c == Head(calls[r])
     IN  /\ ctx' = CASE c.op = "reset"                       -> <<>>
                     [] c.op = "append" /\ status = "open" -> Append(ctx, c.input)
                     [] OTHER                                -> ctx
         /\ status' = CASE c.op = "reset" -> "open"
                        [] c.op = "append" /\ status = "computed" -> "corrupted"
                        [] c.op \in {"setID", "verify"} /\ status = "open" -> "computed"
                        [] OTHER -> status
         /\ enqueued' = IF c.op = "setID"
                        THEN enqueued \cup {[digest |-> c.digest, id |-> Digest]}
                        ELSE enqueued
         /\ accepted' = IF c.op = "verify"
                        THEN accepted \cup {[batch |-> c.batch,
                                              ok |-> Digest = BatchHash(c.batch)]}
                        ELSE accepted
  /\ UNCHANGED received

Next ==
  \E r \in Receivers : Call(r) \/ \E b \in HashedBatches : Receive(r, b)

Spec == Init /\ [][Next]_vars

-----------------------------------------------------------------------------
(* broadcastTransactions holds verified transactions `with their computed  *)
(* tid': the digest of the transaction and nothing else, so that every     *)
(* server computes the same.                                               *)
TidComputed == \A e \in enqueued : e.id = <<e.digest>>
=============================================================================
