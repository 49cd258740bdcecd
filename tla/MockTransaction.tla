---------------------------- MODULE MockTransaction ----------------------------
(***************************************************************************)
(* MockTransaction, the transaction class of all servers: its life from    *)
(* the comm module to a block, and the text that it is stored as.  A text  *)
(* is a sequence of octets; payloads and read/write sets are texts.        *)
(***************************************************************************)
EXTENDS Integers, Sequences, SequencesExt

CONSTANTS
  GroupBits,    \* bits of an integer in one octet of a varint: 7
  MaxGroups,    \* octets of a varint: 10
  HashSize,     \* SHA256HashSize: 32
  Numbers,      \* transaction IDs and epochs
  Texts         \* serialized payloads and read/write sets

VARIABLE tr

Results == {"PENDING", "COMMIT", "ABORT", "ABORT_NO_RETRY"}

New == [epoch |-> 0, tid |-> 0, result |-> "PENDING", payload |-> <<>>, rwset |-> <<>>]

Init == tr = New

\* enqueueTransactions and the receivers
Receive(payload, tid, epoch) ==
  /\ tr.epoch = 0
  /\ tr' = [tr EXCEPT !.payload = payload, !.tid = tid, !.epoch = epoch]

\* executeList and commitList
Process(rwset, result) ==
  /\ tr.result = "PENDING"
  /\ tr' = [tr EXCEPT !.rwset = rwset, !.result = result]

\* resetTransaction, after which the manager sets the next epoch
Retry(epoch) ==
  /\ tr.result = "ABORT"
  /\ tr' = [tr EXCEPT !.epoch = epoch, !.rwset = <<>>, !.result = "PENDING"]

Next == \E n, m \in Numbers, t \in Texts :
  \/ Receive(t, n, m)
  \/ \E r \in Results \ {"PENDING"} : Process(t, r)
  \/ Retry(n)

Spec == Init /\ [][Next]_tr

-----------------------------------------------------------------------------
\* WriteVarint64: the low group first, and a bit that says that more follow.
Groups(n) ==
  CHOOSE k \in 1..MaxGroups :
    n < 2^(GroupBits * k) /\ (k > 1 => n >= 2^(GroupBits * (k - 1)))
MutantVarint(n) == <<n % 2^GroupBits>>
Varint(n) ==
  [i \in 1..Groups(n) |->
     ((n \div 2^(GroupBits * (i - 1))) % 2^GroupBits)
       + (IF i < Groups(n) THEN 2^GroupBits ELSE 0)]

Sized(text) == Varint(Len(text)) \o text

\* Nobody looks at the hash: any text of its size will do.
Hash(text) == [i \in 1..HashSize |-> 0]

serializeToString(t) ==
  LET raw == Varint(t.tid) \o Varint(t.epoch) \o Sized(t.payload) \o Sized(t.rwset)
  IN  raw \o Hash(raw)

\* What a reader has read, and the rest of the text.
Failed == [ok |-> FALSE, value |-> 0, rest |-> <<>>]

ReadVarint(text) ==
  LET ends == {i \in DOMAIN text : i <= MaxGroups /\ text[i] < 2^GroupBits}
      last == CHOOSE i \in ends : \A j \in ends : i <= j
      value[i \in 0..last] ==
        IF i = 0 THEN 0
        ELSE value[i - 1] + (text[i] % 2^GroupBits) * 2^(GroupBits * (i - 1))
  IN  IF ends = {} THEN Failed
      ELSE [ok |-> TRUE, value |-> value[last], rest |-> SubSeq(text, last + 1, Len(text))]

ReadString(text, size) ==
  IF size > Len(text) THEN Failed
  ELSE [ok |-> TRUE, value |-> SubSeq(text, 1, size),
        rest |-> SubSeq(text, size + 1, Len(text))]

\* Into a new transaction; a reader of what another has failed on fails as well.
deserializeFromString(text) ==
  LET tid         == ReadVarint(text)
      epoch       == ReadVarint(tid.rest)
      payloadSize == ReadVarint(epoch.rest)
      payload     == ReadString(payloadSize.rest, payloadSize.value)
      rwSetSize   == ReadVarint(payload.rest)
      rwSet       == ReadString(rwSetSize.rest, rwSetSize.value)
      hash        == ReadString(rwSet.rest, HashSize)
  IN  [ok |-> /\ tid.ok /\ epoch.ok /\ payloadSize.ok /\ payload.ok
              /\ rwSetSize.ok /\ rwSet.ok /\ hash.ok,
       tr |-> [New EXCEPT !.tid = tid.value, !.epoch = epoch.value,
                 !.payload = payload.value, !.rwset = rwSet.value]]

-----------------------------------------------------------------------------
(* A stored transaction is read back as it was but for its result, which   *)
(* the block keeps elsewhere; a text that was cut off anywhere is refused. *)
RestoresStored ==
  LET text == serializeToString(tr)
      read == deserializeFromString(text)
  IN  /\ read.ok /\ read.tr = [tr EXCEPT !.result = "PENDING"]
      /\ \A n \in 0..(Len(text) - 1) : ~deserializeFromString(SubSeq(text, 1, n)).ok
=============================================================================
