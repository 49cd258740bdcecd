------------------------- MODULE CommController_proofs -------------------------
(***************************************************************************)
(* Proofs about CommController, for any set of servers and any number of   *)
(* epochs and batches.  The theorems assume what the property needs: that  *)
(* no epoch ends without a batch of every server (Skips) and that no       *)
(* publication is lost (Lossy).                                            *)
(***************************************************************************)
EXTENDS CommController, SequenceTheorems, TLAPS

(* The circumstances.  The two bounds are numbers.                         *)
Reliable ==
  /\ Skips = FALSE /\ Lossy = FALSE
  /\ MaxEpochNum \in Nat \ {0} /\ MaxPerServer \in Nat

-----------------------------------------------------------------------------
(* The inductive invariant behind SameEpochs, in named parts.              *)

(* Epochs are numbered without gaps, each server's in their order.         *)
NumbersOf(s) ==
  /\ Len(numbered[s]) <= MaxPerServer
  /\ \A i \in 1..Len(numbered[s]) :
       /\ numbered[s][i] \in 1..epochNum
       /\ i = 1 => numbered[s][i] = 1
       /\ i > 1 => numbered[s][i] <= numbered[s][i - 1] + 1
  /\ \A i, j \in 1..Len(numbered[s]) : i < j => numbered[s][i] <= numbered[s][j]
  /\ numbered[s] = <<>> => epochNum = 1
  /\ numbered[s] # <<>> => epochNum <= numbered[s][Len(numbered[s])] + 1

NumbersInOrder ==
  /\ epochNum \in 1..MaxEpochNum
  /\ numbered \in [Servers -> Seq(Nat)]
  /\ \A s \in Servers : NumbersOf(s)

ReceiverTypes ==
  /\ epoch \in [Servers -> Nat \ {0}]
  /\ taken \in [Servers -> Nat]
  /\ receiver \in [Servers -> [Servers -> {"receive", "add", "await"}]]
  /\ \A s, o \in Servers : s # o => receiver[s][o] # "add"
  /\ transactionSetMulti \in [Servers -> Seq(Batches)]
  /\ broadcastTransactions \in [Servers -> Seq(Batches)]
  /\ channel \in [Servers -> [Servers -> Seq(Seq(Batches))]]
  /\ stopped = {}

(* How many epochs receiver r of s has brought to their end.               *)
Passed(s, r) == IF receiver[s][r] = "await" THEN epoch[s] ELSE epoch[s] - 1

(* How many of its batches s has added; it may have another in hand.       *)
Added(s) == IF receiver[s][s] = "receive" THEN taken[s] ELSE taken[s] - 1

Issued(b) == b[2] <= Len(numbered[b[1]])

(* A publication: the batches of s for epoch e, all of them.               *)
IsBatchOf(m, s, e) ==
  /\ IsInjective(m)
  /\ \A b \in Batches : b \in ToSet(m) <=> b[1] = s /\ Issued(b) /\ EpochOf(b) = e

(* The local receiver's batches are of the epoch it is in.                 *)
LocalOf(s) ==
  /\ taken[s] <= Len(numbered[s])
  /\ taken[s] = 0 => epoch[s] = 1 /\ receiver[s][s] = "receive"
  /\ taken[s] > 0 => numbered[s][taken[s]] = Passed(s, s) + 1
  /\ receiver[s][s] # "receive" => \A i \in 1..(taken[s] - 1) : numbered[s][i] <= Passed(s, s)
  /\ IsInjective(transactionSetMulti[s])
  /\ \A b \in Batches : b \in ToSet(transactionSetMulti[s]) <=>
       b[1] = s /\ b[2] <= Added(s) /\ EpochOf(b) = Passed(s, s) + 1

LocalInEpoch == \A s \in Servers : LocalOf(s)

(* What is on its way from s to o is what s published and o has not got.   *)
ChannelOf(s, o) ==
  /\ s = o => channel[s][o] = <<>>
  /\ s # o =>
       /\ Len(channel[s][o]) = Passed(s, s) - Passed(o, s)
       /\ \A i \in 1..Len(channel[s][o]) : IsBatchOf(channel[s][o][i], s, Passed(o, s) + i)

ChannelsInStep == \A s, o \in Servers : ChannelOf(s, o)

(* What a server has enqueued: its own batches as far as it has added      *)
(* them, those of the others for the epochs their receivers have passed.   *)
Has(s, b) ==
  /\ Issued(b)
  /\ b[1] = s => b[2] <= Added(s)
  /\ b[1] # s => EpochOf(b) <= Passed(s, b[1])

EnqueuedOf(s) ==
  LET q == broadcastTransactions[s]
  IN  /\ IsInjective(q)
      /\ \A b \in Batches : b \in ToSet(q) <=> Has(s, b)
      /\ \A i \in 1..Len(q) : i > 1 => EpochOf(q[i - 1]) <= EpochOf(q[i])

EnqueuedInOrder == \A s \in Servers : EnqueuedOf(s)

EpochsInv ==
  NumbersInOrder /\ ReceiverTypes /\ LocalInEpoch /\ ChannelsInStep /\ EnqueuedInOrder

-----------------------------------------------------------------------------
(* Sequences without repetitions.                                          *)

(* A new element may be appended ...                                       *)
LEMMA AppendFresh ==
  ASSUME NEW S, NEW q \in Seq(S), NEW b \in S, IsInjective(q), b \notin ToSet(q)
  PROVE  /\ Append(q, b) \in Seq(S) /\ IsInjective(Append(q, b))
         /\ \A x : x \in ToSet(Append(q, b)) <=> x \in ToSet(q) \/ x = b
<1> DEFINE r == Append(q, b)
           n == Len(q)
<1>1. /\ r \in Seq(S) /\ Len(r) = n + 1 /\ n \in Nat
      /\ \A i \in 1..n : r[i] = q[i]
      /\ r[n + 1] = b
      /\ DOMAIN r = 1..n + 1 /\ DOMAIN q = 1..n
  BY AppendProperties, LenProperties
<1>2. \A i \in 1..n : q[i] # b
  BY <1>1 DEF ToSet
<1>3. \A i, j \in 1..n : q[i] = q[j] => i = j
  BY <1>1 DEF IsInjective
<1> HIDE DEF r, n
<1>4. \A i \in 1..n + 1 : i \in 1..n \/ i = n + 1
  BY <1>1
<1>5. IsInjective(r)
  BY <1>1, <1>2, <1>3, <1>4 DEF IsInjective
<1>6. \A x : x \in ToSet(r) <=> x \in ToSet(q) \/ x = b
  <2>1. 1..n \subseteq 1..n + 1 /\ n + 1 \in 1..n + 1
    BY <1>1
  <2>2. ASSUME NEW x \in ToSet(r) PROVE x \in ToSet(q) \/ x = b
    BY <1>1, <1>4 DEF ToSet
  <2>3. ASSUME NEW x \in ToSet(q) PROVE x \in ToSet(r)
    <3>1. PICK i \in 1..n : x = q[i]
      BY <1>1 DEF ToSet
    <3> QED  BY <1>1, <2>1, <3>1 DEF ToSet
  <2>4. b \in ToSet(r)
    BY <1>1, <2>1 DEF ToSet
  <2> QED  BY <2>2, <2>3, <2>4
<1> QED  BY <1>1, <1>5, <1>6 DEF r

(* ... and a sequence that shares nothing with it.                         *)
LEMMA ConcatDisjoint ==
  ASSUME NEW S, NEW q \in Seq(S), NEW m \in Seq(S), IsInjective(q), IsInjective(m),
         \A x : ~(x \in ToSet(q) /\ x \in ToSet(m))
  PROVE  /\ q \o m \in Seq(S) /\ IsInjective(q \o m)
         /\ \A x : x \in ToSet(q \o m) <=> x \in ToSet(q) \/ x \in ToSet(m)
<1> DEFINE r == q \o m
           n == Len(q)
           k == Len(m)
<1>1. /\ r \in Seq(S) /\ Len(r) = n + k /\ n \in Nat /\ k \in Nat
      /\ \A i \in 1..n + k : r[i] = IF i <= n THEN q[i] ELSE m[i - n]
      /\ DOMAIN r = 1..n + k /\ DOMAIN q = 1..n /\ DOMAIN m = 1..k
  BY ConcatProperties, LenProperties
<1> HIDE DEF r, n, k
<1>2. /\ \A i \in 1..n : q[i] \in ToSet(q)
      /\ \A i \in 1..k : m[i] \in ToSet(m)
  BY <1>1 DEF ToSet
<1>3. /\ \A i, j \in 1..n : q[i] = q[j] => i = j
      /\ \A i, j \in 1..k : m[i] = m[j] => i = j
  BY <1>1 DEF IsInjective
<1>4. \A i \in 1..n + k : \/ i <= n /\ i \in 1..n /\ r[i] = q[i]
                          \/ ~(i <= n) /\ i - n \in 1..k /\ r[i] = m[i - n]
  BY <1>1
<1>5. \A i, j \in 1..n + k : i - n = j - n => i = j
  BY <1>1
<1>6. IsInjective(r)
  <2> SUFFICES ASSUME NEW i \in 1..n + k, NEW j \in 1..n + k, r[i] = r[j] PROVE i = j
    BY <1>1 DEF IsInjective
  <2>1. CASE i <= n /\ j <= n
    BY <1>3, <1>4, <2>1
  <2>2. CASE ~(i <= n) /\ ~(j <= n)
    BY <1>3, <1>4, <1>5, <2>2
  <2>3. CASE (i <= n) # (j <= n)
    BY <1>2, <1>4, <2>3
  <2> QED  BY <2>1, <2>2, <2>3
<1>7. \A x : x \in ToSet(r) <=> x \in ToSet(q) \/ x \in ToSet(m)
  <2>1. ASSUME NEW x \in ToSet(r) PROVE x \in ToSet(q) \/ x \in ToSet(m)
    <3>1. PICK i \in 1..n + k : x = r[i]
      BY <1>1 DEF ToSet
    <3> QED  BY <1>2, <1>4, <3>1
  <2>2. ASSUME NEW x \in ToSet(q) PROVE x \in ToSet(r)
    <3>1. PICK i \in 1..n : x = q[i]
      BY <1>1 DEF ToSet
    <3>2. i \in 1..n + k /\ r[i] = x
      BY <1>1, <3>1
    <3> QED  BY <1>1, <3>2 DEF ToSet
  <2>3. ASSUME NEW x \in ToSet(m) PROVE x \in ToSet(r)
    <3>1. PICK i \in 1..k : x = m[i]
      BY <1>1 DEF ToSet
    <3>2. n + i \in 1..n + k /\ ~(n + i <= n) /\ (n + i) - n = i
      BY <1>1
    <3>3. r[n + i] = x
      BY <1>1, <3>1, <3>2
    <3> QED  BY <1>1, <3>2, <3>3 DEF ToSet
  <2> QED  BY <2>1, <2>2, <2>3
<1> QED  BY <1>1, <1>6, <1>7 DEF r

-----------------------------------------------------------------------------
(* The numbering.                                                          *)

(* Batches are numbered in the order of the epochs.                        *)
LEMMA NumberingStep ==
  ASSUME Reliable, NumbersInOrder, Numbering
  PROVE  NumbersInOrder'
<1> USE DEF Reliable
<1>0. epochNum \in Nat /\ numbered \in [Servers -> Seq(Nat)]
  BY DEF NumbersInOrder
<1>1. CASE Advance
  <2>1. /\ epochNum < MaxEpochNum /\ epochNum' = epochNum + 1 /\ numbered' = numbered
        /\ \A s \in Servers : HasBatch(s, epochNum)
    BY <1>1 DEF Advance
  <2>2. ASSUME NEW s \in Servers PROVE NumbersOf(s)'
    <3>1. numbered[s] \in Seq(Nat) /\ NumbersOf(s) /\ Len(numbered[s]) \in Nat
      BY <1>0 DEF NumbersInOrder
    <3> DEFINE n == Len(numbered[s])
    <3>2. PICK i \in 1..n : numbered[s][i] = epochNum
      BY <2>1, <3>1 DEF HasBatch
    <3>3. n \in 1..n /\ numbered[s] # <<>>
      BY <3>1, <3>2
    <3>4. epochNum <= numbered[s][n]
      <4>1. i = n \/ i < n
        BY <3>1
      <4>2. CASE i = n
        BY <3>2, <4>2, <1>0
      <4>3. CASE i < n
        BY <3>1, <3>2, <3>3, <4>3 DEF NumbersOf
      <4> QED  BY <4>1, <4>2, <4>3
    <3>5. numbered[s][n] \in Nat
      BY <3>1, <3>3
    <3>6. epochNum' <= numbered[s][n] + 1
      BY <1>0, <2>1, <3>4, <3>5
    <3>7. \A j \in 1..n : numbered[s][j] \in 1..epochNum'
      BY <1>0, <2>1, <3>1 DEF NumbersOf
    <3> QED  BY <2>1, <3>1, <3>3, <3>6, <3>7 DEF NumbersOf
  <2> QED  BY <1>0, <2>1, <2>2 DEF NumbersInOrder
<1>2. ASSUME NEW s \in Servers, Len(numbered[s]) < MaxPerServer, Number(s)
      PROVE  NumbersInOrder'
  <2>1. epochNum' = epochNum /\ numbered' = [numbered EXCEPT ![s] = Append(@, epochNum)]
    BY <1>2 DEF Number
  <2>2. numbered' \in [Servers -> Seq(Nat)]
    BY <1>0, <2>1
  <2>3. NumbersOf(s)'
    <3> DEFINE n == Len(numbered[s])
               a == numbered'[s]
    <3>1. numbered[s] \in Seq(Nat) /\ NumbersOf(s) /\ n \in Nat
      BY <1>0 DEF NumbersInOrder
    <3>2. /\ a \in Seq(Nat) /\ Len(a) = n + 1 /\ a # <<>>
          /\ \A i \in 1..n : a[i] = numbered[s][i]
          /\ a[n + 1] = epochNum
      <4>1. a = Append(numbered[s], epochNum)
        BY <1>0, <2>1
      <4> HIDE DEF a
      <4>2. /\ Append(numbered[s], epochNum) \in Seq(Nat)
            /\ Append(numbered[s], epochNum) # <<>>
            /\ Len(Append(numbered[s], epochNum)) = n + 1
            /\ \A i \in 1..n : Append(numbered[s], epochNum)[i] = numbered[s][i]
            /\ Append(numbered[s], epochNum)[n + 1] = epochNum
        BY <1>0, <3>1, AppendProperties
      <4> QED  BY <4>1, <4>2
    <3>3. /\ \A i \in 1..n : /\ a[i] \in 1..epochNum
                             /\ i = 1 => a[i] = 1
                             /\ i > 1 => a[i] <= a[i - 1] + 1
          /\ \A i, j \in 1..n : i < j => a[i] <= a[j]
          /\ n = 0 => epochNum = 1
          /\ n > 0 => epochNum <= a[n] + 1
      <4>1. \A i \in 1..n : i > 1 => i - 1 \in 1..n
        BY <3>1
      <4>2. (n = 0 <=> numbered[s] = <<>>) /\ (n > 0 => n \in 1..n)
        BY <3>1
      <4>3. n > 0 => epochNum <= a[n] + 1
        <5> SUFFICES ASSUME n > 0 PROVE epochNum <= a[n] + 1
          OBVIOUS
        <5>1. numbered[s] # <<>> /\ n \in 1..n
          BY <3>1, <4>2
        <5>2. epochNum <= numbered[s][n] + 1
          BY <3>1, <5>1 DEF NumbersOf
        <5> QED  BY <3>2, <5>1, <5>2
      <4> QED  BY <3>1, <3>2, <4>1, <4>2, <4>3 DEF NumbersOf
    <3> HIDE DEF n, a
    <3>4. \A i \in 1..n + 1 : i \in 1..n \/ i = n + 1
      BY <3>1
    <3>5. epochNum \in 1..epochNum
      BY DEF NumbersInOrder
    <3>6. \A i \in 1..n + 1 : /\ a[i] \in 1..epochNum
                              /\ i = 1 => a[i] = 1
                              /\ i > 1 => a[i] <= a[i - 1] + 1
      <4> SUFFICES ASSUME NEW i \in 1..n + 1
                   PROVE  /\ a[i] \in 1..epochNum
                          /\ i = 1 => a[i] = 1
                          /\ i > 1 => a[i] <= a[i - 1] + 1
        OBVIOUS
      <4>1. CASE i \in 1..n
        BY <3>3, <4>1
      <4>2. CASE i = n + 1
        <5>1. i = 1 => n = 0
          BY <3>1, <4>2
        <5>2. i > 1 => n > 0 /\ i - 1 = n
          BY <3>1, <4>2
        <5> QED  BY <3>2, <3>3, <3>5, <4>2, <5>1, <5>2
      <4> QED  BY <3>4, <4>1, <4>2
    <3>7. \A i, j \in 1..n + 1 : i < j => a[i] <= a[j]
      <4> SUFFICES ASSUME NEW i \in 1..n + 1, NEW j \in 1..n + 1, i < j PROVE a[i] <= a[j]
        OBVIOUS
      <4>1. i \in 1..n
        BY <3>1
      <4>2. CASE j \in 1..n
        BY <3>3, <4>1, <4>2
      <4>3. CASE j = n + 1
        BY <1>0, <3>2, <3>3, <4>1, <4>3
      <4> QED  BY <3>4, <4>2, <4>3
    <3>8. epochNum <= a[n + 1] + 1
      BY <1>0, <3>2
    <3>9. Len(a) <= MaxPerServer
      BY <1>2, <3>1, <3>2 DEF n
    <3> QED  BY <2>1, <3>2, <3>6, <3>7, <3>8, <3>9 DEF NumbersOf, a
  <2>4. ASSUME NEW t \in Servers \ {s} PROVE NumbersOf(t)'
    <3>1. numbered'[t] = numbered[t] /\ NumbersOf(t)
      BY <1>0, <2>1 DEF NumbersInOrder
    <3> QED  BY <2>1, <3>1 DEF NumbersOf
  <2> QED  BY <2>1, <2>2, <2>3, <2>4 DEF NumbersInOrder
<1> QED  BY <1>1, <1>2 DEF Numbering

-----------------------------------------------------------------------------
(* What the invariant says of the numbers involved.                        *)

(* Numbers are numbers, and a batch a pair.                                *)
LEMMA Types ==
  ASSUME Reliable, NumbersInOrder, ReceiverTypes
  PROVE  /\ epochNum \in Nat \ {0} /\ MaxEpochNum \in Nat /\ MaxPerServer \in Nat
         /\ \A s \in Servers :
              /\ epoch[s] \in Nat \ {0} /\ taken[s] \in Nat
              /\ numbered[s] \in Seq(Nat) /\ Len(numbered[s]) \in Nat
              /\ \A i \in 1..Len(numbered[s]) : numbered[s][i] \in Nat \ {0}
              /\ transactionSetMulti[s] \in Seq(Batches)
              /\ broadcastTransactions[s] \in Seq(Batches)
              /\ Len(broadcastTransactions[s]) \in Nat
              /\ \A r \in Servers :
                   /\ Passed(s, r) \in Nat
                   /\ Passed(s, r) = epoch[s] \/ Passed(s, r) = epoch[s] - 1
                   /\ channel[s][r] \in Seq(Seq(Batches)) /\ Len(channel[s][r]) \in Nat
         /\ \A b \in Batches :
              /\ b[1] \in Servers /\ b[2] \in Nat \ {0} /\ b = <<b[1], b[2]>>
              /\ Issued(b) => b[2] \in 1..Len(numbered[b[1]]) /\ EpochOf(b) \in Nat \ {0}
<1>1. epochNum \in Nat \ {0} /\ MaxEpochNum \in Nat /\ MaxPerServer \in Nat
  BY DEF NumbersInOrder, Reliable
<1>2. ASSUME NEW s \in Servers
      PROVE  /\ epoch[s] \in Nat \ {0} /\ taken[s] \in Nat
             /\ numbered[s] \in Seq(Nat) /\ Len(numbered[s]) \in Nat
             /\ \A i \in 1..Len(numbered[s]) : numbered[s][i] \in Nat \ {0}
             /\ transactionSetMulti[s] \in Seq(Batches)
             /\ broadcastTransactions[s] \in Seq(Batches)
             /\ Len(broadcastTransactions[s]) \in Nat
  BY <1>1 DEF NumbersInOrder, ReceiverTypes, NumbersOf
<1>3. ASSUME NEW s \in Servers, NEW r \in Servers
      PROVE  /\ Passed(s, r) \in Nat
             /\ Passed(s, r) = epoch[s] \/ Passed(s, r) = epoch[s] - 1
             /\ channel[s][r] \in Seq(Seq(Batches)) /\ Len(channel[s][r]) \in Nat
  BY <1>2 DEF ReceiverTypes, Passed
<1>4. ASSUME NEW b \in Batches
      PROVE  /\ b[1] \in Servers /\ b[2] \in Nat \ {0} /\ b = <<b[1], b[2]>>
             /\ Issued(b) => b[2] \in 1..Len(numbered[b[1]]) /\ EpochOf(b) \in Nat \ {0}
  <2>1. b[1] \in Servers /\ b[2] \in Nat \ {0} /\ b = <<b[1], b[2]>>
    BY <1>1 DEF Batches
  <2>2. Issued(b) => b[2] \in 1..Len(numbered[b[1]])
    BY <1>2, <2>1 DEF Issued
  <2> QED  BY <1>2, <2>1, <2>2 DEF EpochOf
<1> QED  BY <1>1, <1>2, <1>3, <1>4

(* No receiver is ahead of the publications, nor a local one of the        *)
(* numbering.                                                              *)
LEMMA InStep ==
  ASSUME Reliable, EpochsInv
  PROVE  /\ \A s \in Servers : Passed(s, s) < epochNum /\ Added(s) <= taken[s]
              /\ taken[s] <= Len(numbered[s]) /\ Added(s) \in Nat
         /\ \A s, o \in Servers : Passed(s, o) <= Passed(o, o) /\ Passed(s, o) < epochNum
<1>0. NumbersInOrder /\ ReceiverTypes
  BY DEF EpochsInv
<1>1. ASSUME NEW s \in Servers
      PROVE  Passed(s, s) < epochNum /\ Added(s) <= taken[s] /\ taken[s] <= Len(numbered[s])
             /\ Added(s) \in Nat
  <2>1. LocalOf(s) /\ NumbersOf(s) /\ taken[s] \in Nat /\ Passed(s, s) \in Nat /\ epochNum \in Nat \ {0}
    BY <1>0, Types DEF EpochsInv, LocalInEpoch, NumbersInOrder
  <2>2. taken[s] <= Len(numbered[s]) /\ Added(s) <= taken[s] /\ Added(s) \in Nat
    BY <2>1 DEF LocalOf, Added
  <2>3. CASE taken[s] = 0
    BY <2>1, <2>2, <2>3 DEF LocalOf, Passed
  <2>4. CASE taken[s] > 0
    <3>1. taken[s] \in 1..Len(numbered[s])
      BY <1>0, <2>1, <2>2, <2>4, Types
    <3>2. numbered[s][taken[s]] = Passed(s, s) + 1 /\ numbered[s][taken[s]] \in 1..epochNum
      BY <2>1, <2>4, <3>1 DEF LocalOf, NumbersOf
    <3> QED  BY <2>1, <2>2, <3>2
  <2> QED  BY <2>1, <2>3, <2>4
<1>2. ASSUME NEW s \in Servers, NEW o \in Servers
      PROVE  Passed(s, o) <= Passed(o, o) /\ Passed(s, o) < epochNum
  <2>1. Passed(s, o) \in Nat /\ Passed(o, o) \in Nat /\ Len(channel[o][s]) \in Nat
        /\ epochNum \in Nat
    BY <1>0, Types
  <2>2. s # o => Len(channel[o][s]) = Passed(o, o) - Passed(s, o)
    BY DEF EpochsInv, ChannelsInStep, ChannelOf
  <2>3. Passed(o, o) < epochNum
    BY <1>1
  <2> QED  BY <2>1, <2>2, <2>3
<1> QED  BY <1>1, <1>2

(* What a server has is of its epoch at the latest.                        *)
LEMMA HasUpToEpoch ==
  ASSUME Reliable, EpochsInv, NEW s \in Servers, NEW b \in Batches, Has(s, b)
  PROVE  EpochOf(b) <= epoch[s] /\ EpochOf(b) \in Nat
<1>1. /\ NumbersInOrder /\ ReceiverTypes /\ LocalOf(s) /\ NumbersOf(s)
  BY DEF EpochsInv, LocalInEpoch, NumbersInOrder
<1>2. b[1] \in Servers /\ b[2] \in 1..Len(numbered[b[1]]) /\ EpochOf(b) \in Nat
  BY <1>1, Types DEF Has
<1>3. CASE b[1] # s
  <2>1. EpochOf(b) <= Passed(s, b[1])
    BY <1>3 DEF Has
  <2>2. Passed(s, b[1]) = epoch[s] \/ Passed(s, b[1]) = epoch[s] - 1
    BY <1>1, <1>2, Types
  <2>3. epoch[s] \in Nat
    BY <1>1, Types
  <2> QED  BY <1>2, <2>1, <2>2, <2>3
<1>4. CASE b[1] = s
  <2>1. b[2] <= Added(s) /\ taken[s] \in Nat /\ Passed(s, s) \in Nat /\ Added(s) \in Nat
        /\ Added(s) <= taken[s] /\ taken[s] <= Len(numbered[s]) /\ epoch[s] \in Nat
        /\ (Passed(s, s) = epoch[s] \/ Passed(s, s) = epoch[s] - 1)
    BY <1>1, <1>4, Types, InStep DEF Has
  <2>2. EpochOf(b) = numbered[s][b[2]]
    BY <1>4 DEF EpochOf
  <2>3. CASE receiver[s][s] = "receive"
    <3>1. Added(s) = taken[s] /\ Passed(s, s) = epoch[s] - 1
      BY <2>3 DEF Added, Passed
    <3>2. taken[s] \in 1..Len(numbered[s]) /\ taken[s] > 0
      BY <1>2, <1>4, <2>1, <3>1, Types, <1>1
    <3>3. numbered[s][taken[s]] = epoch[s]
      BY <1>1, <2>1, <3>1, <3>2 DEF LocalOf
    <3>4. b[2] = taken[s] \/ b[2] < taken[s]
      BY <1>2, <2>1, <3>1
    <3> QED  BY <1>1, <1>2, <1>4, <2>1, <2>2, <3>2, <3>3, <3>4 DEF NumbersOf
  <2>4. CASE receiver[s][s] # "receive"
    <3>1. Added(s) = taken[s] - 1
      BY <2>4 DEF Added
    <3>2. b[2] \in 1..(taken[s] - 1)
      BY <1>2, <2>1, <3>1
    <3>3. numbered[s][b[2]] <= Passed(s, s)
      BY <1>1, <2>4, <3>2 DEF LocalOf
    <3> QED  BY <1>2, <2>1, <2>2, <3>3
  <2> QED  BY <2>3, <2>4
<1> QED  BY <1>3, <1>4

-----------------------------------------------------------------------------
(* Steps of the numbering leave the controllers' part as it is: a batch    *)
(* that is numbered now is of an epoch nobody has passed.                  *)

(* The batches that were issued keep their epoch, a new one gets epochNum. *)
LEMMA NumberingEffect ==
  ASSUME Reliable, NumbersInOrder, ReceiverTypes, Numbering
  PROVE  /\ UNCHANGED commVars
         /\ \A s \in Servers : /\ Len(numbered[s]) <= Len(numbered'[s])
                               /\ \A i \in 1..Len(numbered[s]) : numbered'[s][i] = numbered[s][i]
         /\ \A b \in Batches :
              /\ Issued(b) => Issued(b)' /\ EpochOf(b)' = EpochOf(b)
              /\ Issued(b)' /\ ~Issued(b) => EpochOf(b)' = epochNum
<1>1. UNCHANGED commVars
  BY DEF Numbering
<1>2. CASE Advance
  <2>1. numbered' = numbered
    BY <1>2 DEF Advance
  <2>2. \A b \in Batches : Issued(b)' = Issued(b) /\ EpochOf(b)' = EpochOf(b)
    BY <2>1 DEF Issued, EpochOf
  <2> QED  BY <1>1, <2>1, <2>2, Types
<1>3. ASSUME NEW s \in Servers, Number(s)
      PROVE  /\ \A t \in Servers : /\ Len(numbered[t]) <= Len(numbered'[t])
                                   /\ \A i \in 1..Len(numbered[t]) : numbered'[t][i] = numbered[t][i]
             /\ \A b \in Batches :
                  /\ Issued(b) => Issued(b)' /\ EpochOf(b)' = EpochOf(b)
                  /\ Issued(b)' /\ ~Issued(b) => EpochOf(b)' = epochNum
  <2>1. numbered' = [numbered EXCEPT ![s] = Append(@, epochNum)]
    BY <1>3 DEF Number
  <2>2. numbered \in [Servers -> Seq(Nat)] /\ epochNum \in Nat
    BY DEF NumbersInOrder
  <2> DEFINE n == Len(numbered[s])
  <2>3. /\ numbered[s] \in Seq(Nat) /\ n \in Nat
        /\ Len(numbered'[s]) = n + 1
        /\ \A i \in 1..n : numbered'[s][i] = numbered[s][i]
        /\ numbered'[s][n + 1] = epochNum
    <3>1. numbered'[s] = Append(numbered[s], epochNum) /\ numbered[s] \in Seq(Nat)
      BY <2>1, <2>2
    <3> QED  BY <2>2, <3>1, AppendProperties
  <2>4. \A t \in Servers \ {s} : numbered'[t] = numbered[t] /\ Len(numbered[t]) \in Nat
    BY <2>1, <2>2, Types
  <2> HIDE DEF n
  <2>5. ASSUME NEW b \in Batches
        PROVE  /\ Issued(b) => Issued(b)' /\ EpochOf(b)' = EpochOf(b)
               /\ Issued(b)' /\ ~Issued(b) => EpochOf(b)' = epochNum
    <3>1. b[1] \in Servers /\ b[2] \in Nat \ {0}
      BY Types
    <3>2. CASE b[1] = s
      <4>1. Issued(b) => b[2] \in 1..n /\ b[2] <= n + 1
        BY <2>3, <3>1, <3>2 DEF Issued, n
      <4>2. b[2] <= n + 1 /\ ~(b[2] <= n) => b[2] = n + 1
        BY <2>3, <3>1
      <4> QED  BY <2>3, <3>2, <4>1, <4>2 DEF Issued, EpochOf, n
    <3>3. CASE b[1] # s
      BY <2>4, <3>1, <3>3 DEF Issued, EpochOf
    <3> QED  BY <3>2, <3>3
  <2>6. n <= n + 1
    BY <2>3
  <2> QED  BY <2>3, <2>4, <2>5, <2>6 DEF n
<1> QED  BY <1>1, <1>2, <1>3 DEF Numbering

(* Hence everything the invariant says of the receivers stays.             *)
LEMMA NumberingKeeps ==
  ASSUME Reliable, EpochsInv, Numbering
  PROVE  EpochsInv'
<1>0. NumbersInOrder /\ ReceiverTypes
  BY DEF EpochsInv
<1>1. /\ UNCHANGED commVars
      /\ \A s \in Servers : /\ Len(numbered[s]) <= Len(numbered'[s])
                            /\ \A i \in 1..Len(numbered[s]) : numbered'[s][i] = numbered[s][i]
      /\ \A b \in Batches :
           /\ Issued(b) => Issued(b)' /\ EpochOf(b)' = EpochOf(b)
           /\ Issued(b)' /\ ~Issued(b) => EpochOf(b)' = epochNum
  BY <1>0, NumberingEffect
<1>2. UNCHANGED <<epoch, taken, receiver, transactionSetMulti, channel, broadcastTransactions, stopped>>
  BY <1>1 DEF commVars
<1>3. /\ \A s, r \in Servers : Passed(s, r)' = Passed(s, r)
      /\ \A s \in Servers : Added(s)' = Added(s)
  BY <1>2 DEF Passed, Added
<1>4. NumbersInOrder'
  BY <1>0, NumberingStep
<1>5. NumbersInOrder' /\ ReceiverTypes'
  BY <1>0, <1>2, <1>4 DEF ReceiverTypes
<1>6. ASSUME NEW s \in Servers PROVE LocalOf(s)'
  <2>1. LocalOf(s) /\ taken[s] \in Nat /\ Len(numbered[s]) \in Nat /\ Len(numbered'[s]) \in Nat
    <3>1. numbered' \in [Servers -> Seq(Nat)]
      BY <1>4 DEF NumbersInOrder
    <3> QED  BY <1>0, <3>1, Types DEF EpochsInv, LocalInEpoch
  <2>2. \A i \in 1..taken[s] : i \in 1..Len(numbered[s]) /\ numbered'[s][i] = numbered[s][i]
    BY <1>1, <2>1 DEF LocalOf
  <2>3. taken[s] > 0 => taken[s] \in 1..taken[s]
    BY <2>1
  <2>4. \A i \in 1..(taken[s] - 1) : i \in 1..taken[s]
    BY <2>1
  <2>5. \A b \in Batches : b[1] = s /\ b[2] <= Added(s) => Issued(b)
    <3>1. Added(s) \in Nat /\ Added(s) <= Len(numbered[s])
      BY InStep, <2>1
    <3> QED  BY <1>0, <2>1, <3>1, Types DEF Issued
  <2>6. \A b \in Batches : b \in ToSet(transactionSetMulti[s]) <=>
          b[1] = s /\ b[2] <= Added(s) /\ EpochOf(b)' = Passed(s, s) + 1
    BY <1>1, <2>1, <2>5 DEF LocalOf
  <2>7. taken[s] <= Len(numbered'[s])
    <3>1. taken[s] <= Len(numbered[s]) /\ Len(numbered[s]) <= Len(numbered'[s])
      BY <1>1, <2>1 DEF LocalOf
    <3> QED  BY <2>1, <3>1
  <2>8. /\ taken[s] > 0 => numbered'[s][taken[s]] = Passed(s, s) + 1
        /\ receiver[s][s] # "receive" => \A i \in 1..(taken[s] - 1) : numbered'[s][i] <= Passed(s, s)
    BY <2>1, <2>2, <2>3, <2>4 DEF LocalOf
  <2>9. /\ taken[s] = 0 => epoch[s] = 1 /\ receiver[s][s] = "receive"
        /\ IsInjective(transactionSetMulti[s])
    BY <2>1 DEF LocalOf
  <2> QED  BY <1>2, <1>3, <2>6, <2>7, <2>8, <2>9 DEF LocalOf
<1>7. ASSUME NEW s \in Servers, NEW o \in Servers PROVE ChannelOf(s, o)'
  <2>1. ChannelOf(s, o) /\ Len(channel[s][o]) \in Nat /\ Passed(s, s) \in Nat /\ Passed(o, s) \in Nat
        /\ Passed(s, s) < epochNum /\ epochNum \in Nat
    BY <1>0, Types, InStep DEF EpochsInv, ChannelsInStep
  <2>2. s # o => \A i \in 1..Len(channel[s][o]) :
          Passed(o, s) + i \in Nat /\ Passed(o, s) + i < epochNum
    BY <2>1 DEF ChannelOf
  <2>3. s # o => \A i \in 1..Len(channel[s][o]) :
          IsBatchOf(channel[s][o][i], s, Passed(o, s) + i)
    BY <2>1 DEF ChannelOf
  <2>4. ASSUME s # o, NEW i \in 1..Len(channel[s][o])
        PROVE  /\ IsInjective(channel[s][o][i])
               /\ \A b \in Batches : b \in ToSet(channel[s][o][i])
                    <=> b[1] = s /\ Issued(b)' /\ EpochOf(b)' = Passed(o, s) + i
    <3>1. IsBatchOf(channel[s][o][i], s, Passed(o, s) + i)
      BY <2>3, <2>4
    <3>2. \A b \in Batches : Issued(b)' /\ EpochOf(b)' = Passed(o, s) + i
                               <=> Issued(b) /\ EpochOf(b) = Passed(o, s) + i
      <4>1. Passed(o, s) + i # epochNum
        BY <2>1, <2>2, <2>4
      <4> QED  BY <1>1, <4>1
    <3> QED  BY <3>1, <3>2 DEF IsBatchOf
  <2>5. channel' = channel /\ Passed(o, s)' = Passed(o, s) /\ Passed(s, s)' = Passed(s, s)
    BY <1>2, <1>3
  <2> QED  BY <2>1, <2>4, <2>5 DEF ChannelOf, IsBatchOf
<1>8. ASSUME NEW s \in Servers PROVE EnqueuedOf(s)'
  <2>1. EnqueuedOf(s) /\ broadcastTransactions'[s] = broadcastTransactions[s]
        /\ Len(numbered[s]) \in Nat /\ Added(s) \in Nat /\ Added(s) <= Len(numbered[s])
    <3>1. taken[s] \in Nat /\ taken[s] <= Len(numbered[s]) /\ Added(s) <= taken[s] /\ Added(s) \in Nat
          /\ Len(numbered[s]) \in Nat
      BY <1>0, Types, InStep
    <3> QED  BY <1>2, <3>1 DEF EpochsInv, EnqueuedInOrder
  <2>2. ASSUME NEW b \in Batches PROVE Has(s, b)' <=> Has(s, b)
    <3>1. b[1] \in Servers /\ b[2] \in Nat /\ Passed(s, b[1]) \in Nat /\ epochNum \in Nat
          /\ Passed(s, b[1]) < epochNum
      BY <1>0, Types, InStep
    <3>2. CASE b[1] = s
      <4>1. b[2] <= Added(s) => Issued(b)
        BY <2>1, <3>1, <3>2 DEF Issued
      <4> QED  BY <1>1, <1>3, <3>2, <4>1 DEF Has
    <3>3. CASE b[1] # s
      <4>1. ~(epochNum <= Passed(s, b[1]))
        BY <3>1
      <4>2. Passed(s, b[1])' = Passed(s, b[1])
        BY <1>3, <3>1
      <4>3. /\ Issued(b) => Issued(b)' /\ EpochOf(b)' = EpochOf(b)
            /\ Issued(b)' /\ ~Issued(b) => EpochOf(b)' = epochNum
        BY <1>1
      <4> QED  BY <3>3, <4>1, <4>2, <4>3 DEF Has
    <3> QED  BY <3>2, <3>3
  <2>3. \A i \in 1..Len(broadcastTransactions[s]) :
          EpochOf(broadcastTransactions[s][i])' = EpochOf(broadcastTransactions[s][i])
    <3> SUFFICES ASSUME NEW i \in 1..Len(broadcastTransactions[s])
                 PROVE  EpochOf(broadcastTransactions[s][i])' = EpochOf(broadcastTransactions[s][i])
      OBVIOUS
    <3>1. broadcastTransactions[s] \in Seq(Batches)
      BY <1>0, Types
    <3>2. broadcastTransactions[s][i] \in Batches
          /\ broadcastTransactions[s][i] \in ToSet(broadcastTransactions[s])
      BY <3>1, ElementOfSeq, LenProperties DEF ToSet
    <3>3. Issued(broadcastTransactions[s][i])
      BY <2>1, <3>2 DEF EnqueuedOf, Has
    <3>4. numbered'[broadcastTransactions[s][i][1]][broadcastTransactions[s][i][2]]
            = numbered[broadcastTransactions[s][i][1]][broadcastTransactions[s][i][2]]
      BY <1>0, <1>1, <3>2, <3>3, Types
    <3> QED  BY <1>2, <3>4 DEF EpochOf
  <2>4. \A i \in 1..Len(broadcastTransactions[s]) : i > 1 =>
          EpochOf(broadcastTransactions[s][i - 1])' <= EpochOf(broadcastTransactions[s][i])'
    <3>1. Len(broadcastTransactions[s]) \in Nat
      BY <1>0, Types
    <3>2. \A i \in 1..Len(broadcastTransactions[s]) : i > 1 =>
            i - 1 \in 1..Len(broadcastTransactions[s])
      BY <3>1
    <3> QED  BY <2>1, <2>3, <3>2 DEF EnqueuedOf
  <2> QED  BY <2>1, <2>2, <2>4 DEF EnqueuedOf
<1> QED  BY <1>5, <1>6, <1>7, <1>8 DEF EpochsInv, LocalInEpoch, ChannelsInStep, EnqueuedInOrder

-----------------------------------------------------------------------------
(* The barrier and the enqueuing.                                          *)

(* Receiver r of s ends an epoch: it alone has passed one more, the last   *)
(* to arrive takes the epoch, and the others, with it.                     *)
LEMMA ArriveEffect ==
  ASSUME ReceiverTypes, NEW s \in Servers, NEW r \in Servers, receiver[s][r] = "receive",
         Arrive(s, r)
  PROVE  /\ epoch' \in [Servers -> Nat \ {0}]
         /\ receiver' \in [Servers -> [Servers -> {"receive", "add", "await"}]]
         /\ \A t, u \in Servers : t # u => receiver'[t][u] # "add"
         /\ \A t \in Servers \ {s} : epoch'[t] = epoch[t] /\ receiver'[t] = receiver[t]
         /\ receiver'[s][s] = "receive" <=> receiver[s][s] = "receive" /\ r # s
         /\ \A t, u \in Servers :
              Passed(t, u)' = IF t = s /\ u = r THEN Passed(t, u) + 1 ELSE Passed(t, u)
<1>1. /\ epoch \in [Servers -> Nat \ {0}]
      /\ receiver \in [Servers -> [Servers -> {"receive", "add", "await"}]]
      /\ \A t, u \in Servers : t # u => receiver[t][u] # "add"
  BY DEF ReceiverTypes
<1>2. CASE \A t \in Servers \ {r} : receiver[s][t] = "await"
  <2>1. /\ epoch' = [epoch EXCEPT ![s] = @ + 1]
        /\ receiver' = [receiver EXCEPT ![s] = [t \in Servers |-> IF t = s THEN "add" ELSE "receive"]]
    BY <1>2 DEF Arrive
  <2>2. /\ epoch'[s] = epoch[s] + 1
        /\ \A u \in Servers : receiver'[s][u] = IF u = s THEN "add" ELSE "receive"
        /\ \A t \in Servers \ {s} : epoch'[t] = epoch[t] /\ receiver'[t] = receiver[t]
        /\ epoch' \in [Servers -> Nat \ {0}]
        /\ receiver' \in [Servers -> [Servers -> {"receive", "add", "await"}]]
    BY <1>1, <2>1
  <2>3. ASSUME NEW t \in Servers, NEW u \in Servers
        PROVE  Passed(t, u)' = IF t = s /\ u = r THEN Passed(t, u) + 1 ELSE Passed(t, u)
    <3>1. CASE t # s
      BY <2>2, <3>1 DEF Passed
    <3>2. CASE t = s /\ u = r
      <4>1. Passed(s, r) = epoch[s] - 1 /\ receiver'[s][r] # "await"
        BY <2>2 DEF Passed
      <4>2. Passed(s, r)' = epoch'[s] - 1
        BY <4>1 DEF Passed
      <4>3. epoch[s] \in Nat /\ epoch'[s] = epoch[s] + 1
        BY <1>1, <2>2
      <4> QED  BY <3>2, <4>1, <4>2, <4>3
    <3>3. CASE t = s /\ u # r
      <4>1. receiver[s][u] = "await" /\ receiver'[s][u] # "await"
        BY <1>2, <2>2, <3>3
      <4>2. Passed(s, u) = epoch[s] /\ Passed(s, u)' = epoch'[s] - 1
        BY <4>1 DEF Passed
      <4>3. epoch[s] \in Nat /\ epoch'[s] = epoch[s] + 1
        BY <1>1, <2>2
      <4> QED  BY <3>3, <4>2, <4>3
    <3> QED  BY <3>1, <3>2, <3>3
  <2>4. receiver'[s][s] # "receive" /\ (r # s => receiver[s][s] # "receive")
    BY <1>2, <2>2
  <2>5. \A t, u \in Servers : t # u => receiver'[t][u] # "add"
    BY <1>1, <2>2
  <2> QED  BY <2>2, <2>3, <2>4, <2>5
<1>3. CASE ~ \A t \in Servers \ {r} : receiver[s][t] = "await"
  <2>1. receiver' = [receiver EXCEPT ![s][r] = "await"] /\ epoch' = epoch
    BY <1>3 DEF Arrive
  <2>2. /\ receiver'[s][r] = "await" /\ \A u \in Servers \ {r} : receiver'[s][u] = receiver[s][u]
        /\ \A t \in Servers \ {s} : receiver'[t] = receiver[t]
        /\ receiver' \in [Servers -> [Servers -> {"receive", "add", "await"}]]
    BY <1>1, <2>1
  <2>3. ASSUME NEW t \in Servers, NEW u \in Servers
        PROVE  Passed(t, u)' = IF t = s /\ u = r THEN Passed(t, u) + 1 ELSE Passed(t, u)
    <3>1. CASE t = s /\ u = r
      BY <1>1, <2>1, <2>2, <3>1 DEF Passed
    <3>2. CASE ~(t = s /\ u = r)
      BY <2>1, <2>2, <3>2 DEF Passed
    <3> QED  BY <3>1, <3>2
  <2>4. \A t, u \in Servers : t # u => receiver'[t][u] # "add"
    BY <1>1, <2>2
  <2> QED  BY <1>1, <2>1, <2>2, <2>3, <2>4
<1> QED  BY <1>2, <1>3

(* A server that enqueues batches of its epoch that it has not got keeps   *)
(* each once, and the epochs in order.                                     *)
LEMMA Enqueue ==
  ASSUME Reliable, EpochsInv, NEW s \in Servers, NEW m \in Seq(Batches), IsInjective(m),
         \A b \in Batches : b \in ToSet(m) => ~Has(s, b) /\ EpochOf(b) = epoch[s],
         NEW q, q = broadcastTransactions[s] \o m
  PROVE  /\ q \in Seq(Batches) /\ IsInjective(q)
         /\ \A b \in Batches : b \in ToSet(q) <=> Has(s, b) \/ b \in ToSet(m)
         /\ \A i \in 1..Len(q) : i > 1 => EpochOf(q[i - 1]) <= EpochOf(q[i])
<1> DEFINE p == broadcastTransactions[s]
           n == Len(p)
           k == Len(m)
<1>1. /\ NumbersInOrder /\ ReceiverTypes /\ EnqueuedOf(s) /\ p \in Seq(Batches)
      /\ n \in Nat /\ k \in Nat /\ epoch[s] \in Nat
  BY Types, LenProperties DEF EpochsInv, EnqueuedInOrder
<1>2. \A b \in Batches : b \in ToSet(p) <=> Has(s, b)
  BY <1>1 DEF EnqueuedOf
<1>3. /\ \A i \in 1..n : p[i] \in Batches /\ p[i] \in ToSet(p)
      /\ \A i \in 1..k : m[i] \in Batches /\ m[i] \in ToSet(m)
  BY <1>1, ElementOfSeq, LenProperties DEF ToSet
<1>4. \A x : ~(x \in ToSet(p) /\ x \in ToSet(m))
  <2> SUFFICES ASSUME NEW x, x \in ToSet(p), x \in ToSet(m) PROVE FALSE
    OBVIOUS
  <2>1. x \in Batches
    BY <1>1, <1>3, LenProperties DEF ToSet
  <2> QED  BY <1>2, <2>1
<1>5. /\ q \in Seq(Batches) /\ IsInjective(q)
      /\ \A x : x \in ToSet(q) <=> x \in ToSet(p) \/ x \in ToSet(m)
  <2>1. IsInjective(p)
    BY <1>1 DEF EnqueuedOf
  <2> HIDE DEF p
  <2>2. /\ p \o m \in Seq(Batches) /\ IsInjective(p \o m)
        /\ \A x : x \in ToSet(p \o m) <=> x \in ToSet(p) \/ x \in ToSet(m)
    BY <1>1, <1>4, <2>1, ConcatDisjoint
  <2> QED  BY <2>2 DEF p
<1>6. Len(q) = n + k /\ \A i \in 1..n + k : q[i] = IF i <= n THEN p[i] ELSE m[i - n]
  BY <1>1, ConcatProperties
<1>7. /\ \A i \in 1..n : EpochOf(p[i]) <= epoch[s] /\ EpochOf(p[i]) \in Nat
      /\ \A i \in 1..k : EpochOf(m[i]) = epoch[s]
      /\ \A i \in 1..n : i > 1 => EpochOf(p[i - 1]) <= EpochOf(p[i])
  <2>1. ASSUME NEW i \in 1..n PROVE EpochOf(p[i]) <= epoch[s] /\ EpochOf(p[i]) \in Nat
    <3>1. p[i] \in Batches /\ Has(s, p[i])
      BY <1>2, <1>3
    <3> HIDE DEF p
    <3> QED  BY <3>1, HasUpToEpoch
  <2>2. \A i \in 1..n : i > 1 => EpochOf(p[i - 1]) <= EpochOf(p[i])
    BY <1>1 DEF EnqueuedOf
  <2> QED  BY <1>3, <2>1, <2>2
<1> HIDE DEF p, n, k
<1>8. ASSUME NEW i \in 1..n + k, i > 1 PROVE EpochOf(q[i - 1]) <= EpochOf(q[i])
  <2>0. i - 1 \in 1..n + k
    BY <1>1, <1>8
  <2>1. CASE i <= n
    <3>1. i \in 1..n /\ i - 1 \in 1..n /\ i - 1 <= n
      BY <1>1, <1>8, <2>1
    <3>2. q[i] = p[i] /\ q[i - 1] = p[i - 1]
      BY <1>6, <2>0, <2>1, <3>1
    <3> QED  BY <1>7, <1>8, <3>1, <3>2
  <2>2. CASE ~(i <= n) /\ i - 1 <= n
    <3>1. i - n \in 1..k /\ i - 1 \in 1..n
      BY <1>1, <1>8, <2>2
    <3>2. q[i] = m[i - n] /\ q[i - 1] = p[i - 1]
      BY <1>6, <2>0, <2>2
    <3> QED  BY <1>7, <3>1, <3>2
  <2>3. CASE ~(i - 1 <= n)
    <3>1. i - n \in 1..k /\ (i - 1) - n \in 1..k /\ ~(i <= n)
      BY <1>1, <1>8, <2>3
    <3>2. q[i] = m[i - n] /\ q[i - 1] = m[(i - 1) - n]
      BY <1>6, <2>0, <2>3, <3>1
    <3>3. EpochOf(q[i]) = epoch[s] /\ EpochOf(q[i - 1]) = epoch[s]
      BY <1>7, <3>1, <3>2
    <3> QED  BY <1>1, <3>3
  <2> QED  BY <2>1, <2>2, <2>3
<1> QED  BY <1>2, <1>5, <1>6, <1>8

(* One batch is a sequence of one.                                         *)
LEMMA AppendOne ==
  ASSUME NEW S, NEW q \in Seq(S), NEW b \in S
  PROVE  /\ Append(q, b) = q \o <<b>> /\ <<b>> \in Seq(S) /\ IsInjective(<<b>>)
         /\ \A x : x \in ToSet(<<b>>) <=> x = b
<1>1. <<b>> \in Seq(S) /\ Len(<<b>>) = 1 /\ <<b>>[1] = b /\ DOMAIN <<b>> = 1..1
  OBVIOUS
<1>2. IsInjective(<<b>>) /\ \A x : x \in ToSet(<<b>>) <=> x = b
  BY <1>1 DEF IsInjective, ToSet
<1>3. Append(q, b) = q \o <<b>>
  <2>1. /\ Append(q, b) \in Seq(S) /\ Len(Append(q, b)) = Len(q) + 1 /\ Len(q) \in Nat
        /\ \A i \in 1..Len(q) : Append(q, b)[i] = q[i]
        /\ Append(q, b)[Len(q) + 1] = b
    BY AppendProperties, LenProperties
  <2>2. /\ q \o <<b>> \in Seq(S) /\ Len(q \o <<b>>) = Len(q) + 1
        /\ \A i \in 1..Len(q) + 1 : (q \o <<b>>)[i] = IF i <= Len(q) THEN q[i] ELSE <<b>>[i - Len(q)]
    BY <1>1, ConcatProperties
  <2>3. \A i \in 1..Len(q) + 1 : \/ i \in 1..Len(q) /\ i <= Len(q)
                                 \/ i = Len(q) + 1 /\ ~(i <= Len(q)) /\ i - Len(q) = 1
    BY <2>1
  <2>4. \A i \in 1..Len(q) + 1 : Append(q, b)[i] = (q \o <<b>>)[i]
    BY <1>1, <2>1, <2>2, <2>3
  <2> QED  BY <2>1, <2>2, <2>4, SeqEqual
<1> QED  BY <1>1, <1>2, <1>3

-----------------------------------------------------------------------------
(* A batch is added, of this epoch from the queue or at its beginning from *)
(* the hand of the local receiver.                                         *)

(* The number CHECK passes, and the batch is the next one.                 *)
LEMMA AddEffect ==
  ASSUME Reliable, EpochsInv, NEW s \in Servers, Dequeue(s) \/ AddLocal(s),
         NEW b, b = <<s, Added(s) + 1>>
  PROVE  /\ b \in Batches /\ Issued(b) /\ EpochOf(b) = epoch[s]
         /\ receiver[s][s] # "await" /\ Passed(s, s) = epoch[s] - 1
         /\ UNCHANGED <<numberingVars, epoch, channel, stopped>>
         /\ taken' = [taken EXCEPT ![s] = Added(s) + 1]
         /\ transactionSetMulti' = [transactionSetMulti EXCEPT ![s] = Append(@, b)]
         /\ broadcastTransactions' = [broadcastTransactions EXCEPT ![s] = Append(@, b)]
         /\ receiver' = [receiver EXCEPT ![s][s] = "receive"]
<1>1. /\ NumbersInOrder /\ ReceiverTypes /\ LocalOf(s) /\ NumbersOf(s)
      /\ taken[s] \in Nat /\ Len(numbered[s]) \in Nat /\ epoch[s] \in Nat \ {0}
      /\ taken \in [Servers -> Nat] /\ MaxPerServer \in Nat
      /\ taken[s] <= Len(numbered[s]) /\ Len(numbered[s]) <= MaxPerServer
      /\ \A i \in 1..Len(numbered[s]) : numbered[s][i] \in Nat \ {0}
  BY Types DEF EpochsInv, LocalInEpoch, NumbersInOrder, LocalOf, NumbersOf, ReceiverTypes
<1>2. /\ receiver[s][s] # "await" /\ Passed(s, s) = epoch[s] - 1
      /\ Added(s) \in Nat /\ Added(s) + 1 \in 1..Len(numbered[s])
      /\ numbered[s][Added(s) + 1] = epoch[s]
      /\ taken' = [taken EXCEPT ![s] = Added(s) + 1]
      /\ AddBatch(s, b)
      /\ UNCHANGED <<numberingVars, epoch, channel>>
  <2>1. CASE Dequeue(s)
    <3>1. /\ receiver[s][s] = "receive" /\ taken[s] < Len(numbered[s])
          /\ numbered[s][taken[s] + 1] <= epoch[s]
          /\ Added(s) = taken[s] /\ Passed(s, s) = epoch[s] - 1
      BY <2>1 DEF Dequeue, Added, Passed
    <3>2. taken[s] + 1 \in 1..Len(numbered[s]) /\ numbered[s][taken[s] + 1] \in Nat \ {0}
      BY <1>1, <3>1
    <3>3. epoch[s] <= numbered[s][taken[s] + 1]
      <4>1. CASE taken[s] = 0
        BY <1>1, <3>1, <3>2, <4>1 DEF LocalOf
      <4>2. CASE taken[s] > 0
        <5>1. taken[s] \in 1..Len(numbered[s]) /\ taken[s] < taken[s] + 1
          BY <1>1, <4>2
        <5>2. numbered[s][taken[s]] = epoch[s]
          BY <1>1, <3>1, <4>2 DEF LocalOf
        <5> QED  BY <1>1, <3>2, <5>1, <5>2 DEF NumbersOf
      <4> QED  BY <1>1, <4>1, <4>2
    <3>4. numbered[s][taken[s] + 1] = epoch[s]
      BY <1>1, <3>1, <3>2, <3>3
    <3> QED  BY <1>1, <2>1, <3>1, <3>2, <3>4 DEF Dequeue
  <2>2. CASE AddLocal(s)
    <3>1. /\ receiver[s][s] = "add" /\ Added(s) = taken[s] - 1 /\ Passed(s, s) = epoch[s] - 1
          /\ taken' = taken
      BY <2>2 DEF AddLocal, Added, Passed
    <3>2. taken[s] > 0 /\ taken[s] \in 1..Len(numbered[s])
      BY <1>1, <3>1 DEF LocalOf
    <3>3. numbered[s][taken[s]] = epoch[s] /\ Added(s) + 1 = taken[s] /\ Added(s) \in Nat
      BY <1>1, <3>1, <3>2 DEF LocalOf
    <3> QED  BY <1>1, <2>2, <3>1, <3>2, <3>3 DEF AddLocal
  <2> QED  BY <2>1, <2>2
<1>3. b \in Batches
  BY <1>1, <1>2 DEF Batches
<1>4. Issued(b) /\ EpochOf(b) = epoch[s]
  BY <1>2 DEF Issued, EpochOf
<1> QED  BY <1>2, <1>3, <1>4 DEF AddBatch

LEMMA AddKeeps ==
  ASSUME Reliable, EpochsInv, NEW s \in Servers, Dequeue(s) \/ AddLocal(s)
  PROVE  EpochsInv'
<1> DEFINE b == <<s, Added(s) + 1>>
<1>1. /\ b \in Batches /\ Issued(b) /\ EpochOf(b) = epoch[s] /\ b[1] = s /\ b[2] = Added(s) + 1
      /\ receiver[s][s] # "await" /\ Passed(s, s) = epoch[s] - 1
      /\ UNCHANGED <<numberingVars, epoch, channel, stopped>>
      /\ taken' = [taken EXCEPT ![s] = Added(s) + 1]
      /\ transactionSetMulti' = [transactionSetMulti EXCEPT ![s] = Append(@, b)]
      /\ broadcastTransactions' = [broadcastTransactions EXCEPT ![s] = Append(@, b)]
      /\ receiver' = [receiver EXCEPT ![s][s] = "receive"]
  BY AddEffect
<1>2. /\ NumbersInOrder /\ ReceiverTypes /\ LocalOf(s) /\ EnqueuedOf(s)
      /\ epoch[s] \in Nat \ {0} /\ Added(s) \in Nat
      /\ transactionSetMulti[s] \in Seq(Batches) /\ broadcastTransactions[s] \in Seq(Batches)
  BY Types, InStep DEF EpochsInv, LocalInEpoch, EnqueuedInOrder
<1>3. /\ numbered' = numbered /\ epochNum' = epochNum /\ epoch' = epoch /\ channel' = channel
      /\ stopped' = stopped
  BY <1>1 DEF numberingVars
<1>4. /\ \A x : Issued(x)' = Issued(x) /\ EpochOf(x)' = EpochOf(x)
      /\ NumbersInOrder'
  BY <1>2, <1>3 DEF Issued, EpochOf, NumbersInOrder, NumbersOf
<1>5. /\ receiver \in [Servers -> [Servers -> {"receive", "add", "await"}]]
      /\ taken \in [Servers -> Nat]
      /\ transactionSetMulti \in [Servers -> Seq(Batches)]
      /\ broadcastTransactions \in [Servers -> Seq(Batches)]
  BY <1>2 DEF ReceiverTypes
<1>6. \A t, u \in Servers : receiver'[t][u] = IF t = s /\ u = s THEN "receive" ELSE receiver[t][u]
  BY <1>1, <1>5
<1>7. /\ receiver' \in [Servers -> [Servers -> {"receive", "add", "await"}]]
      /\ taken'[s] = Added(s) + 1 /\ taken' \in [Servers -> Nat]
      /\ \A t \in Servers \ {s} : /\ taken'[t] = taken[t]
                                  /\ transactionSetMulti'[t] = transactionSetMulti[t]
                                  /\ broadcastTransactions'[t] = broadcastTransactions[t]
      /\ transactionSetMulti'[s] = Append(transactionSetMulti[s], b)
      /\ broadcastTransactions'[s] = Append(broadcastTransactions[s], b)
  BY <1>1, <1>2, <1>5
<1>8. /\ \A t, u \in Servers : Passed(t, u)' = Passed(t, u)
      /\ \A t \in Servers : Added(t)' = IF t = s THEN Added(t) + 1 ELSE Added(t)
  <2>1. ASSUME NEW t \in Servers, NEW u \in Servers PROVE Passed(t, u)' = Passed(t, u)
    BY <1>1, <1>3, <1>6 DEF Passed
  <2>2. ASSUME NEW t \in Servers PROVE Added(t)' = IF t = s THEN Added(t) + 1 ELSE Added(t)
    BY <1>6, <1>7 DEF Added
  <2> QED  BY <2>1, <2>2
<1> HIDE DEF b
<1>9. /\ Append(transactionSetMulti[s], b) \in Seq(Batches)
      /\ IsInjective(Append(transactionSetMulti[s], b))
      /\ \A x : x \in ToSet(Append(transactionSetMulti[s], b)) <=>
                  x \in ToSet(transactionSetMulti[s]) \/ x = b
  <2>1. IsInjective(transactionSetMulti[s])
    BY <1>2 DEF LocalOf
  <2>2. ~(b[2] <= Added(s))
    BY <1>1, <1>2
  <2>3. b \notin ToSet(transactionSetMulti[s])
    BY <1>1, <1>2, <2>2 DEF LocalOf
  <2> QED  BY <1>1, <1>2, <2>1, <2>3, AppendFresh
<1>10. /\ broadcastTransactions'[s] \in Seq(Batches) /\ IsInjective(broadcastTransactions'[s])
       /\ \A x \in Batches : x \in ToSet(broadcastTransactions'[s]) <=> Has(s, x) \/ x = b
       /\ \A i \in 1..Len(broadcastTransactions'[s]) : i > 1 =>
            EpochOf(broadcastTransactions'[s][i - 1]) <= EpochOf(broadcastTransactions'[s][i])
  <2>1. /\ Append(broadcastTransactions[s], b) = broadcastTransactions[s] \o <<b>>
        /\ <<b>> \in Seq(Batches) /\ IsInjective(<<b>>)
        /\ \A x : x \in ToSet(<<b>>) <=> x = b
    BY <1>1, <1>2, AppendOne
  <2>2. ~Has(s, b)
    <3>1. ~(b[2] <= Added(s))
      BY <1>1, <1>2
    <3> QED  BY <1>1, <3>1 DEF Has
  <2>3. broadcastTransactions'[s] = broadcastTransactions[s] \o <<b>>
    BY <1>7, <2>1
  <2>4. \A x \in Batches : x \in ToSet(<<b>>) => ~Has(s, x) /\ EpochOf(x) = epoch[s]
    BY <1>1, <2>1, <2>2
  <2>5. \A q : q = broadcastTransactions[s] \o <<b>> =>
          /\ q \in Seq(Batches) /\ IsInjective(q)
          /\ \A x \in Batches : x \in ToSet(q) <=> Has(s, x) \/ x \in ToSet(<<b>>)
          /\ \A i \in 1..Len(q) : i > 1 => EpochOf(q[i - 1]) <= EpochOf(q[i])
    BY <2>1, <2>4, Enqueue
  <2> QED  BY <2>1, <2>3, <2>5
<1>11. ReceiverTypes'
  <2>1. transactionSetMulti' \in [Servers -> Seq(Batches)]
    BY <1>1, <1>5, <1>9
  <2>2. broadcastTransactions' \in [Servers -> Seq(Batches)]
    BY <1>1, <1>5, <1>7, <1>10
  <2>3. \A t, u \in Servers : t # u => receiver'[t][u] # "add"
    BY <1>2, <1>6 DEF ReceiverTypes
  <2> QED  BY <1>2, <1>3, <1>7, <2>1, <2>2, <2>3 DEF ReceiverTypes
<1>12. ASSUME NEW t \in Servers PROVE LocalOf(t)'
  <2>1. CASE t = s
    <3>1. /\ Added(s) + 1 <= Len(numbered[s]) /\ numbered[s][Added(s) + 1] = epoch[s]
          /\ Added(s) + 1 > 0
      BY <1>1, <1>2 DEF Issued, EpochOf
    <3>2. epoch[s] = Passed(s, s) + 1
      BY <1>1, <1>2
    <3>3. \A x \in Batches : x \in ToSet(transactionSetMulti'[s]) <=>
            x[1] = s /\ x[2] <= Added(s) + 1 /\ EpochOf(x) = Passed(s, s) + 1
      <4> SUFFICES ASSUME NEW x \in Batches
                   PROVE  x \in ToSet(transactionSetMulti'[s]) <=>
                            x[1] = s /\ x[2] <= Added(s) + 1 /\ EpochOf(x) = Passed(s, s) + 1
        OBVIOUS
      <4>1. x \in ToSet(transactionSetMulti'[s]) <=> x \in ToSet(transactionSetMulti[s]) \/ x = b
        BY <1>7, <1>9
      <4>2. x \in ToSet(transactionSetMulti[s]) <=>
              x[1] = s /\ x[2] <= Added(s) /\ EpochOf(x) = Passed(s, s) + 1
        BY <1>2 DEF LocalOf
      <4>3. x = <<x[1], x[2]>> /\ x[2] \in Nat /\ b = <<b[1], b[2]>>
        BY <1>1, <1>2, Types
      <4>4. x[2] <= Added(s) + 1 <=> x[2] <= Added(s) \/ x[2] = Added(s) + 1
        BY <1>2, <4>3
      <4>5. x = b <=> x[1] = s /\ x[2] = Added(s) + 1
        BY <1>1, <4>3
      <4> QED  BY <1>1, <3>2, <4>1, <4>2, <4>4, <4>5
    <3>4. /\ receiver'[s][s] = "receive" /\ taken'[s] = Added(s) + 1 /\ Added(s)' = Added(s) + 1
          /\ Passed(s, s)' = Passed(s, s)
      BY <1>6, <1>7, <1>8
    <3>5. IsInjective(transactionSetMulti'[s])
      BY <1>7, <1>9
    <3> QED  BY <1>3, <1>4, <2>1, <3>1, <3>2, <3>3, <3>4, <3>5 DEF LocalOf
  <2>2. CASE t # s
    <3>1. LocalOf(t)
      BY DEF EpochsInv, LocalInEpoch
    <3> QED  BY <1>3, <1>4, <1>6, <1>7, <1>8, <2>2, <3>1 DEF LocalOf
  <2> QED  BY <2>1, <2>2
<1>13. ASSUME NEW t \in Servers, NEW u \in Servers PROVE ChannelOf(t, u)'
  <2>1. ChannelOf(t, u)
    BY DEF EpochsInv, ChannelsInStep
  <2> QED  BY <1>3, <1>4, <1>8, <2>1 DEF ChannelOf, IsBatchOf
<1>14. ASSUME NEW t \in Servers PROVE EnqueuedOf(t)'
  <2>1. CASE t = s
    <3>1. \A x \in Batches : Has(s, x)' <=> Has(s, x) \/ x = b
      <4> SUFFICES ASSUME NEW x \in Batches PROVE Has(s, x)' <=> Has(s, x) \/ x = b
        OBVIOUS
      <4>1. x = <<x[1], x[2]>> /\ x[2] \in Nat /\ b = <<b[1], b[2]>> /\ x[1] \in Servers
        BY <1>1, <1>2, Types
      <4>2. x[2] <= Added(s) + 1 <=> x[2] <= Added(s) \/ x[2] = Added(s) + 1
        BY <1>2, <4>1
      <4>3. x = b <=> x[1] = s /\ x[2] = Added(s) + 1
        BY <1>1, <4>1
      <4>4. Has(s, x)' <=> /\ Issued(x)
                           /\ x[1] = s => x[2] <= Added(s) + 1
                           /\ x[1] # s => EpochOf(x) <= Passed(s, x[1])
        BY <1>4, <1>8, <4>1 DEF Has
      <4> QED  BY <1>1, <4>2, <4>3, <4>4 DEF Has
    <3> QED  BY <1>4, <1>10, <2>1, <3>1 DEF EnqueuedOf
  <2>2. CASE t # s
    <3>1. EnqueuedOf(t)
      BY DEF EpochsInv, EnqueuedInOrder
    <3>2. \A x \in Batches : Has(t, x)' <=> Has(t, x)
      BY <1>2, <1>4, <1>8, <2>2, Types DEF Has
    <3> QED  BY <1>4, <1>7, <2>2, <3>1, <3>2 DEF EnqueuedOf
  <2> QED  BY <2>1, <2>2
<1> QED
  BY <1>4, <1>11, <1>12, <1>13, <1>14 DEF EpochsInv, LocalInEpoch, ChannelsInStep, EnqueuedInOrder

-----------------------------------------------------------------------------
(* A server closes its epoch: what it publishes are all its batches of it, *)
(* since the one it has in its hands is of the next.                       *)

(* The effect of CloseEpoch on what the invariant is about.                *)
LEMMA CloseEffect ==
  ASSUME Reliable, EpochsInv, NEW s \in Servers, CloseEpoch(s)
  PROVE  /\ receiver[s][s] = "receive" /\ Passed(s, s) = epoch[s] - 1 /\ Added(s) = taken[s]
         /\ taken[s] > 0 /\ taken[s] + 1 \in 1..Len(numbered[s])
         /\ numbered[s][taken[s] + 1] = epoch[s] + 1
         /\ \A i \in 1..taken[s] : numbered[s][i] <= epoch[s]
         /\ IsBatchOf(transactionSetMulti[s], s, epoch[s])
         /\ taken' = [taken EXCEPT ![s] = @ + 1]
         /\ transactionSetMulti' = [transactionSetMulti EXCEPT ![s] = <<>>]
         /\ channel' = [channel EXCEPT ![s] = [o \in Servers |->
              IF o # s THEN Append(@[o], transactionSetMulti[s]) ELSE @[o]]]
         /\ UNCHANGED <<numberingVars, broadcastTransactions, stopped>>
         /\ Arrive(s, s)
<1>1. /\ NumbersInOrder /\ ReceiverTypes /\ LocalOf(s) /\ NumbersOf(s)
      /\ taken[s] \in Nat /\ Len(numbered[s]) \in Nat /\ epoch[s] \in Nat \ {0}
      /\ \A i \in 1..Len(numbered[s]) : numbered[s][i] \in Nat \ {0}
  BY Types DEF EpochsInv, LocalInEpoch, NumbersInOrder
<1>2. /\ receiver[s][s] = "receive" /\ taken[s] < Len(numbered[s])
      /\ numbered[s][taken[s] + 1] > epoch[s]
      /\ Added(s) = taken[s] /\ Passed(s, s) = epoch[s] - 1
  BY DEF CloseEpoch, Added, Passed
<1>3. taken[s] + 1 \in 1..Len(numbered[s]) /\ taken[s] + 1 - 1 = taken[s]
  BY <1>1, <1>2
<1>4. taken[s] > 0
  <2> SUFFICES ASSUME taken[s] = 0 PROVE FALSE
    BY <1>1
  <2>1. epoch[s] = 1 /\ numbered[s][taken[s] + 1] = 1
    BY <1>1, <1>3 DEF LocalOf, NumbersOf
  <2> QED  BY <1>2, <2>1
<1>5. taken[s] \in 1..Len(numbered[s]) /\ numbered[s][taken[s]] = epoch[s]
  BY <1>1, <1>2, <1>4 DEF LocalOf
<1>6. numbered[s][taken[s] + 1] = epoch[s] + 1
  <2>1. numbered[s][taken[s] + 1] <= numbered[s][taken[s] + 1 - 1] + 1
    BY <1>1, <1>3, <1>4 DEF NumbersOf
  <2>2. numbered[s][taken[s] + 1] \in Nat
    BY <1>1, <1>3
  <2> QED  BY <1>1, <1>2, <1>3, <1>5, <2>1, <2>2
<1>7. ASSUME NEW i \in 1..taken[s] PROVE numbered[s][i] <= epoch[s]
  <2>1. i = taken[s] \/ i < taken[s]
    BY <1>1
  <2>2. i \in 1..Len(numbered[s])
    BY <1>1, <1>2
  <2> QED  BY <1>1, <1>5, <2>1, <2>2 DEF NumbersOf
<1>8. IsBatchOf(transactionSetMulti[s], s, epoch[s])
  <2>1. IsInjective(transactionSetMulti[s])
    BY <1>1 DEF LocalOf
  <2>2. ASSUME NEW b \in Batches, b[1] = s
        PROVE  b[2] <= taken[s] /\ EpochOf(b) = epoch[s] <=> Issued(b) /\ EpochOf(b) = epoch[s]
    <3>1. b[2] \in Nat \ {0} /\ EpochOf(b) = numbered[s][b[2]]
      BY <1>1, <2>2, Types DEF EpochOf
    <3>2. b[2] <= taken[s] => Issued(b)
      BY <1>1, <1>2, <2>2, <3>1 DEF Issued
    <3>3. Issued(b) /\ ~(b[2] <= taken[s]) => EpochOf(b) # epoch[s]
      <4> SUFFICES ASSUME Issued(b), ~(b[2] <= taken[s]) PROVE EpochOf(b) # epoch[s]
        OBVIOUS
      <4>1. b[2] \in 1..Len(numbered[s]) /\ (b[2] = taken[s] + 1 \/ taken[s] + 1 < b[2])
        BY <1>1, <2>2, <3>1 DEF Issued
      <4>2. numbered[s][taken[s] + 1] <= numbered[s][b[2]]
        BY <1>1, <1>3, <4>1 DEF NumbersOf
      <4> QED  BY <1>1, <1>6, <3>1, <4>1, <4>2
    <3> QED  BY <3>2, <3>3
  <2>3. Passed(s, s) + 1 = epoch[s]
    BY <1>1, <1>2
  <2>4. \A b \in Batches : b \in ToSet(transactionSetMulti[s]) <=>
          b[1] = s /\ b[2] <= taken[s] /\ EpochOf(b) = epoch[s]
    BY <1>1, <1>2, <2>3 DEF LocalOf
  <2> QED  BY <2>1, <2>2, <2>4 DEF IsBatchOf
<1>9. channel' = [channel EXCEPT ![s] = [o \in Servers |->
                    IF o # s THEN Append(@[o], transactionSetMulti[s]) ELSE @[o]]]
  <2>1. PICK R \in SUBSET (Servers \ {s}) :
          /\ R = Servers \ {s}
          /\ channel' = [channel EXCEPT ![s] = [o \in Servers |->
               IF o \in R THEN Append(@[o], transactionSetMulti[s]) ELSE @[o]]]
    BY DEF CloseEpoch, Publish, Reliable
  <2>2. \A o \in Servers : o \in R <=> o # s
    BY <2>1
  <2> QED  BY <2>1, <2>2
<1> QED  BY <1>2, <1>3, <1>4, <1>6, <1>7, <1>8, <1>9 DEF CloseEpoch

LEMMA CloseKeeps ==
  ASSUME Reliable, EpochsInv, NEW s \in Servers, CloseEpoch(s)
  PROVE  EpochsInv'
<1> DEFINE m == transactionSetMulti[s]
<1>1. /\ receiver[s][s] = "receive" /\ Passed(s, s) = epoch[s] - 1 /\ Added(s) = taken[s]
      /\ taken[s] > 0 /\ taken[s] + 1 \in 1..Len(numbered[s])
      /\ numbered[s][taken[s] + 1] = epoch[s] + 1
      /\ \A i \in 1..taken[s] : numbered[s][i] <= epoch[s]
      /\ IsBatchOf(m, s, epoch[s])
      /\ taken' = [taken EXCEPT ![s] = @ + 1]
      /\ transactionSetMulti' = [transactionSetMulti EXCEPT ![s] = <<>>]
      /\ channel' = [channel EXCEPT ![s] = [o \in Servers |->
           IF o # s THEN Append(@[o], m) ELSE @[o]]]
      /\ UNCHANGED <<numberingVars, broadcastTransactions, stopped>>
      /\ Arrive(s, s)
  BY CloseEffect
<1>2. /\ NumbersInOrder /\ ReceiverTypes
      /\ epoch[s] \in Nat \ {0} /\ taken[s] \in Nat /\ m \in Seq(Batches)
      /\ taken \in [Servers -> Nat]
      /\ transactionSetMulti \in [Servers -> Seq(Batches)]
      /\ channel \in [Servers -> [Servers -> Seq(Seq(Batches))]]
  BY Types DEF EpochsInv, ReceiverTypes
<1>3. /\ epoch' \in [Servers -> Nat \ {0}]
      /\ receiver' \in [Servers -> [Servers -> {"receive", "add", "await"}]]
      /\ \A t, u \in Servers : t # u => receiver'[t][u] # "add"
      /\ \A t \in Servers \ {s} : epoch'[t] = epoch[t] /\ receiver'[t] = receiver[t]
      /\ receiver'[s][s] # "receive"
      /\ \A t, u \in Servers :
           Passed(t, u)' = IF t = s /\ u = s THEN Passed(t, u) + 1 ELSE Passed(t, u)
  BY <1>1, <1>2, ArriveEffect
<1>4. /\ numbered' = numbered /\ epochNum' = epochNum /\ stopped' = stopped
      /\ broadcastTransactions' = broadcastTransactions
  BY <1>1 DEF numberingVars
<1>5. /\ \A x : Issued(x)' = Issued(x) /\ EpochOf(x)' = EpochOf(x)
      /\ NumbersInOrder'
  BY <1>2, <1>4 DEF Issued, EpochOf, NumbersInOrder, NumbersOf
<1> HIDE DEF m
<1>6. /\ taken'[s] = taken[s] + 1 /\ taken' \in [Servers -> Nat]
      /\ transactionSetMulti'[s] = <<>>
      /\ \A t \in Servers \ {s} : /\ taken'[t] = taken[t]
                                  /\ transactionSetMulti'[t] = transactionSetMulti[t]
                                  /\ channel'[t] = channel[t]
      /\ \A o \in Servers \ {s} : channel'[s][o] = Append(channel[s][o], m)
      /\ channel'[s][s] = channel[s][s]
  BY <1>1, <1>2
<1>7. Passed(s, s)' = epoch[s]
  BY <1>1, <1>2, <1>3
<1>8. \A t \in Servers : Added(t)' = Added(t)
  <2>1. Added(s)' = taken[s]
    BY <1>2, <1>3, <1>6 DEF Added
  <2>2. ASSUME NEW t \in Servers \ {s} PROVE Added(t)' = Added(t)
    BY <1>3, <1>6 DEF Added
  <2> QED  BY <1>1, <2>1, <2>2
<1>9. ReceiverTypes'
  <2>1. transactionSetMulti' \in [Servers -> Seq(Batches)]
    BY <1>1, <1>2
  <2>2. \A o \in Servers : Append(channel[s][o], m) \in Seq(Seq(Batches)) /\ channel[s][o] \in Seq(Seq(Batches))
    BY <1>2, AppendProperties
  <2>3. channel' \in [Servers -> [Servers -> Seq(Seq(Batches))]]
    BY <1>1, <1>2, <2>2
  <2> QED  BY <1>2, <1>3, <1>4, <1>6, <2>1, <2>3 DEF ReceiverTypes
<1>10. ASSUME NEW t \in Servers PROVE LocalOf(t)'
  <2>1. CASE t = s
    <3>1. \A x \in Batches : x \in ToSet(transactionSetMulti'[s]) <=>
            x[1] = s /\ x[2] <= taken[s] /\ EpochOf(x) = epoch[s] + 1
      <4>1. ToSet(<<>>) = {}
        BY DEF ToSet
      <4>2. ASSUME NEW x \in Batches, x[1] = s, x[2] <= taken[s] PROVE EpochOf(x) # epoch[s] + 1
        <5>1. x[2] \in 1..taken[s] /\ EpochOf(x) = numbered[s][x[2]]
          BY <1>2, <4>2, Types DEF EpochOf
        <5>2. numbered[s][x[2]] <= epoch[s]
          BY <1>1, <5>1
        <5> QED  BY <1>2, <5>1, <5>2
      <4> QED  BY <1>6, <4>1, <4>2
    <3>2. IsInjective(transactionSetMulti'[s])
      BY <1>6 DEF IsInjective
    <3>3. \A i \in 1..(taken'[s] - 1) : numbered[s][i] <= epoch[s]
      BY <1>1, <1>2, <1>6
    <3>4. taken'[s] <= Len(numbered[s]) /\ taken'[s] > 0
      BY <1>1, <1>2, <1>6
    <3>5. numbered[s][taken'[s]] = epoch[s] + 1 /\ Added(s)' = taken[s]
      BY <1>1, <1>6, <1>8
    <3> QED  BY <1>4, <1>5, <1>7, <2>1, <3>1, <3>2, <3>3, <3>4, <3>5 DEF LocalOf
  <2>2. CASE t # s
    <3>1. LocalOf(t)
      BY DEF EpochsInv, LocalInEpoch
    <3> QED  BY <1>3, <1>4, <1>5, <1>6, <1>8, <2>2, <3>1 DEF LocalOf
  <2> QED  BY <2>1, <2>2
<1>11. ASSUME NEW t \in Servers, NEW o \in Servers PROVE ChannelOf(t, o)'
  <2>1. ChannelOf(t, o)
    BY DEF EpochsInv, ChannelsInStep
  <2>2. CASE t # s
    <3>1. Passed(t, t)' = Passed(t, t) /\ Passed(o, t)' = Passed(o, t) /\ channel'[t] = channel[t]
      BY <1>3, <1>6, <2>2
    <3> QED  BY <1>5, <2>1, <3>1 DEF ChannelOf, IsBatchOf
  <2>3. CASE t = s /\ o = s
    BY <1>6, <2>1, <2>3 DEF ChannelOf
  <2>4. CASE t = s /\ o # s
    <3> DEFINE c == channel[s][o]
    <3>1. /\ c \in Seq(Seq(Batches)) /\ Len(c) \in Nat /\ channel'[s][o] = Append(c, m)
          /\ Passed(s, s) \in Nat /\ Passed(o, s) \in Nat
      BY <1>2, <1>6, <2>4, Types
    <3>2. Len(c) = Passed(s, s) - Passed(o, s)
          /\ \A i \in 1..Len(c) : IsBatchOf(c[i], s, Passed(o, s) + i)
      BY <2>1, <2>4 DEF ChannelOf
    <3>3. Passed(s, s)' = Passed(s, s) + 1 /\ Passed(o, s)' = Passed(o, s)
      BY <1>3, <2>4
    <3> HIDE DEF c
    <3>4. /\ Len(channel'[s][o]) = Len(c) + 1
          /\ \A i \in 1..Len(c) : channel'[s][o][i] = c[i]
          /\ channel'[s][o][Len(c) + 1] = m
      BY <1>2, <3>1, AppendProperties
    <3>5. Passed(o, s) + (Len(c) + 1) = epoch[s]
      <4>1. Passed(s, s) = epoch[s] - 1 /\ epoch[s] \in Nat
        BY <1>1, <1>2
      <4>2. Len(c) = Passed(s, s) - Passed(o, s)
        BY <3>2
      <4> QED  BY <3>1, <4>1, <4>2
    <3>6. \A i \in 1..(Len(c) + 1) : i \in 1..Len(c) \/ i = Len(c) + 1
      BY <3>1
    <3>7. \A i \in 1..(Len(c) + 1) : IsBatchOf(channel'[s][o][i], s, Passed(o, s) + i)
      BY <1>1, <3>2, <3>4, <3>5, <3>6
    <3>8. Len(c) + 1 = Passed(s, s)' - Passed(o, s)'
      BY <3>1, <3>2, <3>3
    <3> QED  BY <1>5, <2>4, <3>3, <3>4, <3>7, <3>8 DEF ChannelOf, IsBatchOf
  <2> QED  BY <2>2, <2>3, <2>4
<1>12. ASSUME NEW t \in Servers PROVE EnqueuedOf(t)'
  <2>1. EnqueuedOf(t)
    BY DEF EpochsInv, EnqueuedInOrder
  <2>2. \A x \in Batches : Has(t, x)' <=> Has(t, x)
    <3> SUFFICES ASSUME NEW x \in Batches PROVE Has(t, x)' <=> Has(t, x)
      OBVIOUS
    <3>1. x[1] \in Servers
      BY <1>2, Types
    <3>2. x[1] # t => Passed(t, x[1])' = Passed(t, x[1])
      BY <1>3, <3>1
    <3> QED  BY <1>5, <1>8, <3>2 DEF Has
  <2> QED  BY <1>4, <1>5, <2>1, <2>2 DEF EnqueuedOf
<1> QED
  BY <1>5, <1>9, <1>10, <1>11, <1>12 DEF EpochsInv, LocalInEpoch, ChannelsInStep, EnqueuedInOrder

-----------------------------------------------------------------------------
(* A server takes a publication: it is of its epoch, so the CHECK passes,  *)
(* and all that the other server got for it.                               *)

LEMMA ReceiveEffect ==
  ASSUME Reliable, EpochsInv, NEW s \in Servers, NEW o \in Servers \ {s}, Receive(s, o),
         NEW m, m = Head(channel[o][s])
  PROVE  /\ receiver[s][o] = "receive" /\ Passed(s, o) = epoch[s] - 1 /\ channel[o][s] # <<>>
         /\ m \in Seq(Batches) /\ IsBatchOf(m, o, epoch[s])
         /\ channel' = [channel EXCEPT ![o][s] = Tail(@)]
         /\ broadcastTransactions' = [broadcastTransactions EXCEPT ![s] = @ \o m]
         /\ Arrive(s, o)
         /\ UNCHANGED <<numberingVars, taken, transactionSetMulti, stopped>>
<1>1. /\ NumbersInOrder /\ ReceiverTypes /\ ChannelOf(o, s)
      /\ channel[o][s] \in Seq(Seq(Batches)) /\ Len(channel[o][s]) \in Nat
      /\ epoch[s] \in Nat \ {0}
  BY Types DEF EpochsInv, ChannelsInStep
<1>2. /\ receiver[s][o] = "receive" /\ channel[o][s] # <<>> /\ Passed(s, o) = epoch[s] - 1
      /\ channel' = [channel EXCEPT ![o][s] = Tail(@)]
      /\ UNCHANGED <<numberingVars, taken, transactionSetMulti>>
  BY DEF Receive, Passed
<1>3. m = channel[o][s][1] /\ 1 \in 1..Len(channel[o][s]) /\ Passed(s, o) + 1 = epoch[s]
  <2>1. Len(channel[o][s]) \in Nat \ {0}
    BY <1>1, <1>2, EmptySeq
  <2>2. Passed(s, o) = epoch[s] - 1 /\ epoch[s] \in Nat
    BY <1>1, <1>2
  <2>3. Passed(s, o) + 1 = epoch[s] /\ 1 \in 1..Len(channel[o][s])
    BY <2>1, <2>2
  <2> QED  BY <1>1, <1>2, <2>3
<1>4. m \in Seq(Batches) /\ IsBatchOf(m, o, epoch[s])
  <2>1. m \in Seq(Batches)
    BY <1>1, <1>3, ElementOfSeq
  <2>2. IsBatchOf(channel[o][s][1], o, Passed(s, o) + 1)
    BY <1>1, <1>3 DEF ChannelOf
  <2> QED  BY <1>3, <2>1, <2>2
<1>5. \A i \in DOMAIN m : EpochOf(m[i]) = epoch[s]
  <2>1. \A i \in DOMAIN m : m[i] \in Batches /\ m[i] \in ToSet(m)
    BY <1>4, ElementOfSeq, LenProperties DEF ToSet
  <2> QED  BY <1>4, <2>1 DEF IsBatchOf
<1> QED  BY <1>2, <1>4, <1>5 DEF Receive

LEMMA ReceiveKeeps ==
  ASSUME Reliable, EpochsInv, NEW s \in Servers, NEW o \in Servers \ {s}, Receive(s, o)
  PROVE  EpochsInv'
<1> DEFINE m == Head(channel[o][s])
<1>1. /\ receiver[s][o] = "receive" /\ Passed(s, o) = epoch[s] - 1 /\ channel[o][s] # <<>>
      /\ m \in Seq(Batches) /\ IsBatchOf(m, o, epoch[s])
      /\ channel' = [channel EXCEPT ![o][s] = Tail(@)]
      /\ broadcastTransactions' = [broadcastTransactions EXCEPT ![s] = @ \o m]
      /\ Arrive(s, o)
      /\ UNCHANGED <<numberingVars, taken, transactionSetMulti, stopped>>
  BY ReceiveEffect
<1> HIDE DEF m
<1>2. /\ NumbersInOrder /\ ReceiverTypes /\ EnqueuedOf(s)
      /\ epoch[s] \in Nat \ {0}
      /\ broadcastTransactions \in [Servers -> Seq(Batches)]
      /\ channel \in [Servers -> [Servers -> Seq(Seq(Batches))]]
      /\ channel[o][s] \in Seq(Seq(Batches))
  BY Types DEF EpochsInv, ReceiverTypes, EnqueuedInOrder
<1>3. /\ epoch' \in [Servers -> Nat \ {0}]
      /\ receiver' \in [Servers -> [Servers -> {"receive", "add", "await"}]]
      /\ \A t, u \in Servers : t # u => receiver'[t][u] # "add"
      /\ \A t \in Servers \ {s} : epoch'[t] = epoch[t] /\ receiver'[t] = receiver[t]
      /\ receiver'[s][s] = "receive" <=> receiver[s][s] = "receive"
      /\ \A t, u \in Servers :
           Passed(t, u)' = IF t = s /\ u = o THEN Passed(t, u) + 1 ELSE Passed(t, u)
  BY <1>1, <1>2, ArriveEffect
<1>4. /\ numbered' = numbered /\ epochNum' = epochNum /\ stopped' = stopped /\ taken' = taken
      /\ transactionSetMulti' = transactionSetMulti
  BY <1>1 DEF numberingVars
<1>5. /\ \A x : Issued(x)' = Issued(x) /\ EpochOf(x)' = EpochOf(x)
      /\ NumbersInOrder'
  BY <1>2, <1>4 DEF Issued, EpochOf, NumbersInOrder, NumbersOf
<1>6. /\ Tail(channel[o][s]) \in Seq(Seq(Batches))
      /\ Len(Tail(channel[o][s])) = Len(channel[o][s]) - 1
      /\ \A i \in 1..Len(Tail(channel[o][s])) : Tail(channel[o][s])[i] = channel[o][s][i + 1]
  BY <1>1, <1>2, HeadTailProperties
<1>7. /\ channel'[o][s] = Tail(channel[o][s])
      /\ \A t, u \in Servers : ~(t = o /\ u = s) => channel'[t][u] = channel[t][u]
      /\ broadcastTransactions'[s] = broadcastTransactions[s] \o m
      /\ \A t \in Servers \ {s} : broadcastTransactions'[t] = broadcastTransactions[t]
  BY <1>1, <1>2
<1>8. \A t \in Servers : /\ Added(t)' = Added(t) /\ Passed(t, t)' = Passed(t, t)
                         /\ receiver'[t][t] = "receive" <=> receiver[t][t] = "receive"
  BY <1>3, <1>4 DEF Added
<1>9. /\ broadcastTransactions'[s] \in Seq(Batches) /\ IsInjective(broadcastTransactions'[s])
      /\ \A x \in Batches : x \in ToSet(broadcastTransactions'[s]) <=> Has(s, x) \/ x \in ToSet(m)
      /\ \A i \in 1..Len(broadcastTransactions'[s]) : i > 1 =>
           EpochOf(broadcastTransactions'[s][i - 1]) <= EpochOf(broadcastTransactions'[s][i])
  <2>1. ASSUME NEW x \in Batches, x \in ToSet(m) PROVE ~Has(s, x) /\ EpochOf(x) = epoch[s]
    <3>1. x[1] = o /\ EpochOf(x) = epoch[s]
      BY <1>1, <2>1 DEF IsBatchOf
    <3>2. ~(epoch[s] <= epoch[s] - 1)
      BY <1>2
    <3> QED  BY <1>1, <3>1, <3>2 DEF Has
  <2>2. IsInjective(m)
    BY <1>1 DEF IsBatchOf
  <2>3. \A q : q = broadcastTransactions[s] \o m =>
          /\ q \in Seq(Batches) /\ IsInjective(q)
          /\ \A x \in Batches : x \in ToSet(q) <=> Has(s, x) \/ x \in ToSet(m)
          /\ \A i \in 1..Len(q) : i > 1 => EpochOf(q[i - 1]) <= EpochOf(q[i])
    BY <1>1, <2>1, <2>2, Enqueue
  <2> QED  BY <1>7, <2>3
<1>10. ReceiverTypes'
  <2>1. broadcastTransactions' \in [Servers -> Seq(Batches)]
    BY <1>1, <1>2, <1>7, <1>9
  <2>2. channel' \in [Servers -> [Servers -> Seq(Seq(Batches))]]
    BY <1>1, <1>2, <1>6
  <2> QED  BY <1>2, <1>3, <1>4, <2>1, <2>2 DEF ReceiverTypes
<1>11. ASSUME NEW t \in Servers PROVE LocalOf(t)'
  <2>1. LocalOf(t) /\ epoch[t] \in Nat /\ epoch'[t] \in Nat
    BY <1>2, <1>3, Types DEF EpochsInv, LocalInEpoch
  <2>2. receiver[t][t] = "receive" => epoch'[t] = epoch[t]
    <3> SUFFICES ASSUME receiver[t][t] = "receive" PROVE epoch'[t] = epoch[t]
      OBVIOUS
    <3>1. Passed(t, t) = epoch[t] - 1 /\ receiver'[t][t] = "receive"
      BY <1>8 DEF Passed
    <3>2. Passed(t, t)' = epoch'[t] - 1
      BY <3>1 DEF Passed
    <3> QED  BY <1>8, <2>1, <3>1, <3>2
  <2>3. taken[t] = 0 => epoch'[t] = 1 /\ receiver'[t][t] = "receive"
    BY <1>8, <2>1, <2>2 DEF LocalOf
  <2> QED  BY <1>4, <1>5, <1>8, <2>1, <2>3 DEF LocalOf
<1>12. ASSUME NEW t \in Servers, NEW u \in Servers PROVE ChannelOf(t, u)'
  <2>1. ChannelOf(t, u)
    BY DEF EpochsInv, ChannelsInStep
  <2>2. CASE ~(t = o /\ u = s)
    <3>1. Passed(t, t)' = Passed(t, t) /\ Passed(u, t)' = Passed(u, t)
          /\ channel'[t][u] = channel[t][u]
      BY <1>3, <1>7, <1>8, <2>2
    <3> QED  BY <1>5, <2>1, <3>1 DEF ChannelOf, IsBatchOf
  <2>3. CASE t = o /\ u = s
    <3> DEFINE c == channel[o][s]
    <3>1. /\ Len(c) \in Nat /\ Passed(o, o) \in Nat /\ Passed(s, o) \in Nat
          /\ Len(c) = Passed(o, o) - Passed(s, o)
          /\ \A i \in 1..Len(c) : IsBatchOf(c[i], o, Passed(s, o) + i)
      BY <1>2, <2>1, <2>3, Types DEF ChannelOf
    <3>2. Passed(o, o)' = Passed(o, o) /\ Passed(s, o)' = Passed(s, o) + 1
      BY <1>3, <1>8
    <3> HIDE DEF c
    <3>3. /\ Len(channel'[o][s]) = Len(c) - 1
          /\ \A i \in 1..Len(channel'[o][s]) : channel'[o][s][i] = c[i + 1]
      BY <1>6, <1>7 DEF c
    <3>4. \A i \in 1..Len(channel'[o][s]) : /\ i + 1 \in 1..Len(c)
                                            /\ Passed(s, o) + (i + 1) = Passed(s, o)' + i
      <4> SUFFICES ASSUME NEW i \in 1..Len(channel'[o][s])
                   PROVE  i + 1 \in 1..Len(c) /\ Passed(s, o) + (i + 1) = Passed(s, o)' + i
        OBVIOUS
      <4>1. Len(channel'[o][s]) = Len(c) - 1 /\ Len(c) \in Nat /\ Passed(s, o) \in Nat
            /\ Passed(s, o)' = Passed(s, o) + 1
        BY <3>1, <3>2, <3>3
      <4>2. i + 1 \in 1..Len(c)
        BY <4>1
      <4>3. i \in Nat
        OBVIOUS
      <4> QED  BY <4>1, <4>2, <4>3
    <3>5. \A i \in 1..Len(channel'[o][s]) : IsBatchOf(channel'[o][s][i], o, Passed(s, o)' + i)
      <4> SUFFICES ASSUME NEW i \in 1..Len(channel'[o][s])
                   PROVE  IsBatchOf(channel'[o][s][i], o, Passed(s, o)' + i)
        OBVIOUS
      <4>1. IsBatchOf(c[i + 1], o, Passed(s, o) + (i + 1))
        BY <3>1, <3>4
      <4> QED  BY <3>3, <3>4, <4>1
    <3>6. Len(channel'[o][s]) = Passed(o, o)' - Passed(s, o)'
      BY <3>1, <3>2, <3>3
    <3> QED  BY <1>5, <2>3, <3>5, <3>6 DEF ChannelOf, IsBatchOf
  <2> QED  BY <2>2, <2>3
<1>13. ASSUME NEW t \in Servers PROVE EnqueuedOf(t)'
  <2>1. CASE t = s
    <3>1. ASSUME NEW x \in Batches PROVE Has(s, x)' <=> Has(s, x) \/ x \in ToSet(m)
      <4>1. /\ x[1] \in Servers /\ (Issued(x) => EpochOf(x) \in Nat)
            /\ (x \in ToSet(m) <=> x[1] = o /\ Issued(x) /\ EpochOf(x) = epoch[s])
        BY <1>1, <1>2, Types DEF IsBatchOf
      <4>2. CASE x[1] # o
        <5>1. x[1] # s => Passed(s, x[1])' = Passed(s, x[1])
          BY <1>3, <4>1, <4>2
        <5> QED  BY <1>5, <1>8, <4>1, <4>2, <5>1 DEF Has
      <4>3. CASE x[1] = o
        <5>0. epoch[s] \in Nat /\ Passed(s, o) = epoch[s] - 1
          BY <1>1, <1>2
        <5>1. Passed(s, o)' = epoch[s]
          <6>1. Passed(s, o)' = Passed(s, o) + 1
            BY <1>3
          <6> QED  BY <5>0, <6>1
        <5>2. Issued(x) => (EpochOf(x) <= epoch[s] <=>
                              EpochOf(x) <= epoch[s] - 1 \/ EpochOf(x) = epoch[s])
          <6> SUFFICES ASSUME Issued(x)
                       PROVE  EpochOf(x) <= epoch[s] <=>
                                EpochOf(x) <= epoch[s] - 1 \/ EpochOf(x) = epoch[s]
            OBVIOUS
          <6>1. EpochOf(x) \in Nat
            BY <4>1
          <6> QED  BY <5>0, <6>1
        <5> QED  BY <1>1, <1>5, <4>1, <4>3, <5>1, <5>2 DEF Has
      <4> QED  BY <4>2, <4>3
    <3> QED  BY <1>5, <1>9, <2>1, <3>1 DEF EnqueuedOf
  <2>2. CASE t # s
    <3>1. EnqueuedOf(t)
      BY DEF EpochsInv, EnqueuedInOrder
    <3>2. ASSUME NEW x \in Batches PROVE Has(t, x)' <=> Has(t, x)
      <4>1. x[1] \in Servers
        BY <1>2, Types
      <4>2. Passed(t, x[1])' = Passed(t, x[1])
        BY <1>3, <2>2, <4>1
      <4> QED  BY <1>5, <1>8, <4>2 DEF Has
    <3> QED  BY <1>5, <1>7, <2>2, <3>1, <3>2 DEF EnqueuedOf
  <2> QED  BY <2>1, <2>2
<1> QED
  BY <1>5, <1>10, <1>11, <1>12, <1>13 DEF EpochsInv, LocalInEpoch, ChannelsInStep, EnqueuedInOrder

-----------------------------------------------------------------------------
(* The invariant holds, and with it the property.                          *)

LEMMA InitEpochs ==
  ASSUME Reliable, Init
  PROVE  EpochsInv
<1>1. /\ epochNum = 1 /\ numbered = [s \in Servers |-> <<>>]
      /\ epoch = [s \in Servers |-> 1] /\ taken = [s \in Servers |-> 0]
      /\ receiver = [s \in Servers |-> [r \in Servers |-> "receive"]]
      /\ transactionSetMulti = [s \in Servers |-> <<>>]
      /\ channel = [o \in Servers |-> [s \in Servers |-> <<>>]]
      /\ broadcastTransactions = [s \in Servers |-> <<>>] /\ stopped = {}
  BY DEF Init, NumberingInit
<1>2. /\ MaxEpochNum \in Nat \ {0} /\ MaxPerServer \in Nat
      /\ \A S : <<>> \in Seq(S) /\ Len(<<>>) = 0
      /\ ToSet(<<>>) = {} /\ IsInjective(<<>>)
  BY EmptySeq DEF Reliable, ToSet, IsInjective
<1>3. \A s, r \in Servers : Passed(s, r) = 0 /\ Added(s) = 0
  BY <1>1 DEF Passed, Added
<1>4. \A b \in Batches : b[1] \in Servers /\ b[2] \in Nat \ {0} /\ ~(b[2] <= 0) /\ ~Issued(b)
  <2>1. \A b \in Batches : b[1] \in Servers /\ b[2] \in Nat \ {0}
    BY <1>2 DEF Batches
  <2> QED  BY <1>1, <1>2, <2>1 DEF Issued
<1>5. NumbersInOrder
  <2>1. ASSUME NEW s \in Servers PROVE NumbersOf(s)
    BY <1>1, <1>2 DEF NumbersOf
  <2>2. numbered \in [Servers -> Seq(Nat)]
    BY <1>1, <1>2
  <2> QED  BY <1>1, <1>2, <2>1, <2>2 DEF NumbersInOrder
<1>6. ReceiverTypes
  BY <1>1, <1>2 DEF ReceiverTypes
<1>7. ASSUME NEW s \in Servers PROVE LocalOf(s)
  <2>1. /\ taken[s] = 0 /\ epoch[s] = 1 /\ receiver[s][s] = "receive" /\ numbered[s] = <<>>
        /\ transactionSetMulti[s] = <<>> /\ Added(s) = 0 /\ Len(numbered[s]) = 0
    BY <1>1, <1>2, <1>3
  <2>2. IsInjective(transactionSetMulti[s]) /\ ToSet(transactionSetMulti[s]) = {}
    BY <1>2, <2>1
  <2>3. \A b \in Batches : ~(b[2] <= Added(s))
    BY <1>4, <2>1
  <2> QED  BY <2>1, <2>2, <2>3 DEF LocalOf
<1>8. ASSUME NEW s \in Servers, NEW o \in Servers PROVE ChannelOf(s, o)
  <2>1. channel[s][o] = <<>> /\ Len(channel[s][o]) = 0 /\ Passed(s, s) = 0 /\ Passed(o, s) = 0
    BY <1>1, <1>2, <1>3
  <2> QED  BY <2>1 DEF ChannelOf
<1>9. ASSUME NEW s \in Servers PROVE EnqueuedOf(s)
  <2>1. broadcastTransactions[s] = <<>> /\ Len(broadcastTransactions[s]) = 0
    BY <1>1, <1>2
  <2>2. IsInjective(broadcastTransactions[s]) /\ ToSet(broadcastTransactions[s]) = {}
    BY <1>2, <2>1
  <2>3. \A b \in Batches : ~Has(s, b)
    BY <1>4 DEF Has
  <2> QED  BY <2>1, <2>2, <2>3 DEF EnqueuedOf
<1> QED  BY <1>5, <1>6, <1>7, <1>8, <1>9 DEF EpochsInv, LocalInEpoch, ChannelsInStep, EnqueuedInOrder

LEMMA NextEpochs ==
  ASSUME Reliable, EpochsInv, [Next]_controllerVars
  PROVE  EpochsInv'
<1>1. CASE Numbering
  BY <1>1, NumberingKeeps
<1>2. ASSUME NEW s \in Servers, LocalReceiver(s) PROVE EpochsInv'
  BY <1>2, AddKeeps, CloseKeeps DEF LocalReceiver
<1>3. ASSUME NEW s \in Servers, NEW o \in Servers \ {s}, RemoteReceiver(s, o) PROVE EpochsInv'
  BY <1>3, ReceiveKeeps DEF RemoteReceiver
<1>4. CASE UNCHANGED controllerVars
  <2>1. UNCHANGED <<epochNum, numbered, epoch, taken, receiver, transactionSetMulti, channel,
                    broadcastTransactions, stopped>>
    BY <1>4 DEF controllerVars, numberingVars, commVars
  <2>2. /\ \A b : Issued(b)' = Issued(b) /\ EpochOf(b)' = EpochOf(b)
        /\ \A s, r : Passed(s, r)' = Passed(s, r) /\ Added(s)' = Added(s)
    BY <2>1 DEF Issued, EpochOf, Passed, Added
  <2>3. NumbersInOrder' /\ ReceiverTypes'
    BY <2>1 DEF EpochsInv, NumbersInOrder, NumbersOf, ReceiverTypes
  <2>4. LocalInEpoch'
    BY <2>1, <2>2 DEF EpochsInv, LocalInEpoch, LocalOf
  <2>5. ChannelsInStep'
    BY <2>1, <2>2 DEF EpochsInv, ChannelsInStep, ChannelOf, IsBatchOf
  <2>6. EnqueuedInOrder'
    BY <2>1, <2>2 DEF EpochsInv, EnqueuedInOrder, EnqueuedOf, Has
  <2> QED  BY <2>3, <2>4, <2>5, <2>6 DEF EpochsInv
<1> QED  BY <1>1, <1>2, <1>3, <1>4 DEF Next

(* What the invariant says of the batches of an epoch a server has left.   *)
LEMMA LeftEpochHas ==
  ASSUME Reliable, EpochsInv, NEW s \in Servers, NEW b \in Batches, Issued(b),
         EpochOf(b) <= epoch[s] - 1
  PROVE  Has(s, b)
<1>1. /\ NumbersInOrder /\ ReceiverTypes /\ LocalOf(s) /\ NumbersOf(s)
      /\ b[1] \in Servers /\ b[2] \in 1..Len(numbered[b[1]]) /\ EpochOf(b) \in Nat
      /\ taken[s] \in Nat /\ Len(numbered[s]) \in Nat /\ epoch[s] \in Nat \ {0}
      /\ \A r \in Servers : Passed(s, r) = epoch[s] \/ Passed(s, r) = epoch[s] - 1
      /\ \A r \in Servers : Passed(s, r) \in Nat
      /\ \A i \in 1..Len(numbered[s]) : numbered[s][i] \in Nat
  BY Types DEF EpochsInv, LocalInEpoch, NumbersInOrder
<1>2. CASE b[1] # s
  <2>1. Passed(s, b[1]) = epoch[s] \/ Passed(s, b[1]) = epoch[s] - 1
    BY <1>1
  <2>2. epoch[s] \in Nat /\ EpochOf(b) \in Nat
    BY <1>1
  <2>3. EpochOf(b) <= Passed(s, b[1])
    BY <2>1, <2>2
  <2> QED  BY <1>2, <2>3 DEF Has
<1>3. CASE b[1] = s
  <2> SUFFICES ASSUME ~(b[2] <= Added(s)) PROVE FALSE
    BY <1>3 DEF Has
  <2>1. EpochOf(b) = numbered[s][b[2]] /\ b[2] \in 1..Len(numbered[s]) /\ Added(s) \in Nat
    BY <1>1, <1>3, InStep DEF EpochOf
  <2>2. taken[s] = 0 => epoch[s] = 1
    BY <1>1 DEF LocalOf
  <2>3. EpochOf(b) > 0
    BY <1>1, <2>1 DEF NumbersOf, NumbersInOrder
  <2>4. taken[s] > 0
    <3> SUFFICES ASSUME taken[s] = 0 PROVE FALSE
      BY <1>1
    <3> QED  BY <1>1, <2>2, <2>3
  <2>5. taken[s] <= b[2]
    <3>1. Added(s) = taken[s] \/ Added(s) = taken[s] - 1
      BY DEF Added
    <3> QED  BY <1>1, <2>1, <3>1
  <2>6. taken[s] \in 1..Len(numbered[s]) /\ numbered[s][taken[s]] = Passed(s, s) + 1
    BY <1>1, <2>4 DEF LocalOf
  <2>7. numbered[s][taken[s]] <= numbered[s][b[2]]
    <3>1. taken[s] = b[2] \/ taken[s] < b[2]
      BY <1>1, <2>1, <2>5
    <3>2. CASE taken[s] = b[2]
      BY <1>1, <2>1, <3>2
    <3>3. CASE taken[s] < b[2]
      BY <1>1, <2>1, <2>6, <3>3 DEF NumbersOf
    <3> QED  BY <3>1, <3>2, <3>3
  <2>8. Passed(s, s) + 1 <= EpochOf(b)
    BY <2>1, <2>6, <2>7
  <2>9. Passed(s, s) = epoch[s] \/ Passed(s, s) = epoch[s] - 1
    BY <1>1
  <2>10. epoch[s] \in Nat /\ EpochOf(b) \in Nat
    BY <1>1
  <2> QED  BY <2>8, <2>9, <2>10
<1> QED  BY <1>2, <1>3

LEMMA EpochsImplySame ==
  ASSUME Reliable, EpochsInv
  PROVE  SameEpochs
<1>1. /\ NumbersInOrder /\ ReceiverTypes /\ epochNum \in Nat \ {0}
      /\ MaxEpochNum \in Nat /\ epochNum <= MaxEpochNum
  BY Types DEF EpochsInv, NumbersInOrder
<1>2. ASSUME NEW s \in Servers
      PROVE  /\ epoch[s] \in Nat \ {0} /\ taken[s] \in Nat
             /\ taken[s] <= Len(numbered[s]) /\ Len(numbered[s]) \in Nat
             /\ Len(numbered[s]) <= MaxPerServer
             /\ broadcastTransactions[s] \in Seq(Batches)
             /\ \A r \in Servers :
                  /\ Passed(s, r) \in Nat
                  /\ Passed(s, r) = epoch[s] \/ Passed(s, r) = epoch[s] - 1
                  /\ Passed(s, r) <= Passed(r, r) /\ Passed(s, r) < epochNum
             /\ EnqueuedOf(s)
  BY <1>1, Types, InStep DEF EpochsInv, NumbersInOrder, NumbersOf, EnqueuedInOrder
<1>3. \A s \in Servers : epoch[s] <= epochNum
  <2> SUFFICES ASSUME NEW s \in Servers PROVE epoch[s] <= epochNum
    OBVIOUS
  <2>1. epoch[s] \in Nat /\ (Passed(s, s) = epoch[s] \/ Passed(s, s) = epoch[s] - 1)
        /\ Passed(s, s) < epochNum
    BY <1>2
  <2> QED  BY <1>1, <2>1
<1>4. TypeOK
  <2>1. epoch \in [Servers -> 1..MaxEpochNum]
    <3>1. ASSUME NEW s \in Servers PROVE epoch[s] \in 1..MaxEpochNum
      <4>1. epoch[s] \in Nat \ {0} /\ epoch[s] <= epochNum
        BY <1>2, <1>3
      <4> QED  BY <1>1, <4>1
    <3> QED  BY <1>1, <3>1 DEF ReceiverTypes
  <2>2. taken \in [Servers -> 0..MaxPerServer]
    <3>1. ASSUME NEW s \in Servers PROVE taken[s] \in 0..MaxPerServer
      <4>1. /\ taken[s] \in Nat /\ Len(numbered[s]) \in Nat /\ MaxPerServer \in Nat
            /\ taken[s] <= Len(numbered[s]) /\ Len(numbered[s]) <= MaxPerServer
        BY <1>2 DEF Reliable
      <4> QED  BY <4>1
    <3> QED  BY <1>1, <3>1 DEF ReceiverTypes
  <2> QED  BY <1>1, <1>2, <2>1, <2>2 DEF TypeOK, ReceiverTypes, NumbersInOrder
<1>5. ChecksHold
  BY <1>1 DEF ChecksHold, ReceiverTypes
<1>6. SameTransactions
  <2>1. \A s \in Servers : IsInjective(broadcastTransactions[s])
    BY <1>2 DEF EnqueuedOf
  <2>2. ASSUME NEW s \in Servers, NEW e \in 1..(epoch[s] - 1)
        PROVE  Of(s, e) = {b \in Batches : b[2] <= Len(numbered[b[1]]) /\ EpochOf(b) = e}
    <3>1. \A b \in ToSet(broadcastTransactions[s]) : b \in Batches
      BY <1>2, LenProperties DEF ToSet
    <3>2. \A b \in Batches : b \in ToSet(broadcastTransactions[s]) <=> Has(s, b)
      BY <1>2 DEF EnqueuedOf
    <3>3. \A b \in Batches : Has(s, b) => Issued(b)
      BY DEF Has
    <3>4. \A b \in Batches : Issued(b) /\ EpochOf(b) = e => Has(s, b)
      <4>1. e <= epoch[s] - 1
        BY <1>2
      <4> QED  BY <4>1, LeftEpochHas
    <3> QED  BY <3>1, <3>2, <3>3, <3>4 DEF Of, Issued
  <2> QED  BY <2>1, <2>2 DEF SameTransactions
<1>7. EpochOrder
  <2>1. ASSUME NEW s \in Servers, NEW i \in DOMAIN broadcastTransactions[s]
        PROVE  /\ EpochOf(broadcastTransactions[s][i]) <= epoch[s]
               /\ i > 1 => EpochOf(broadcastTransactions[s][i - 1])
                             <= EpochOf(broadcastTransactions[s][i])
    <3>1. i \in 1..Len(broadcastTransactions[s])
      BY <1>2, LenProperties
    <3>2. broadcastTransactions[s][i] \in Batches
          /\ broadcastTransactions[s][i] \in ToSet(broadcastTransactions[s])
      BY <1>2, <3>1, ElementOfSeq DEF ToSet
    <3>3. Has(s, broadcastTransactions[s][i])
      BY <1>2, <3>2 DEF EnqueuedOf
    <3>4. EpochOf(broadcastTransactions[s][i]) <= epoch[s]
      BY <3>2, <3>3, HasUpToEpoch
    <3> QED  BY <1>2, <3>1, <3>4 DEF EnqueuedOf
  <2> QED  BY <2>1 DEF EpochOrder
<1>8. Lockstep
  <2>1. ASSUME NEW s \in Servers, NEW o \in Servers
        PROVE  epoch[s] <= epoch[o] + 1 /\ Len(channel[o][s]) <= 2
    <3>1. /\ epoch[s] \in Nat /\ epoch[o] \in Nat /\ Passed(s, o) \in Nat /\ Passed(o, o) \in Nat
          /\ Passed(s, o) = epoch[s] \/ Passed(s, o) = epoch[s] - 1
          /\ Passed(o, o) = epoch[o] \/ Passed(o, o) = epoch[o] - 1
          /\ Passed(s, o) <= Passed(o, o)
      BY <1>2
    <3>2. epoch[s] <= epoch[o] + 1
      BY <3>1
    <3>3. /\ Passed(o, s) = epoch[o] \/ Passed(o, s) = epoch[o] - 1
          /\ Passed(s, s) = epoch[s] \/ Passed(s, s) = epoch[s] - 1
          /\ Passed(o, s) <= Passed(s, s)
      BY <1>2
    <3>4. ChannelOf(o, s)
      BY DEF EpochsInv, ChannelsInStep
    <3>5. CASE o = s
      <4>1. Len(channel[o][s]) = 0
        BY <3>4, <3>5, EmptySeq DEF ChannelOf
      <4> QED  BY <3>2, <4>1
    <3>6. CASE o # s
      <4>1. Len(channel[o][s]) = Passed(o, o) - Passed(s, o)
        BY <3>4, <3>6 DEF ChannelOf
      <4>2. Passed(o, o) - Passed(s, o) <= 2
        BY <3>1, <3>3
      <4> QED  BY <3>2, <4>1, <4>2
    <3> QED  BY <3>5, <3>6
  <2> QED  BY <2>1 DEF Lockstep
<1> QED  BY <1>4, <1>5, <1>6, <1>7, <1>8 DEF SameEpochs

(* All servers go through the same epochs with the same batches: the       *)
(* CHECKs of the epoch hold, a server that has left an epoch has enqueued  *)
(* every batch any server got for it, each once and in the order of the    *)
(* epochs, and no server is ahead of another by more than one epoch.       *)
THEOREM EpochsSame ==
  ASSUME Reliable
  PROVE  Spec => []SameEpochs
<1>1. Init => EpochsInv
  BY InitEpochs
<1>2. EpochsInv /\ [Next]_controllerVars => EpochsInv'
  BY NextEpochs
<1>3. EpochsInv => SameEpochs
  BY EpochsImplySame
<1> QED  BY <1>1, <1>2, <1>3, PTL DEF Spec

=============================================================================
