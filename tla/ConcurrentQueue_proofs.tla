----------------------- MODULE ConcurrentQueue_proofs -----------------------
(***************************************************************************)
(* Proofs about the parts of the concurrent queue, for any number of       *)
(* threads: the semaphore that consumers wait for, the pool of free        *)
(* blocks, and the table and the list of the producers' sub-queues.        *)
(***************************************************************************)
EXTENDS LightweightSemaphore, FreeList, ProducerHash,
        FiniteSetTheorems, WellFoundedInduction, TLAPS

-----------------------------------------------------------------------------
(***************************************************************************)
(* Lists of pointers.                                                      *)
(***************************************************************************)

(* A list of pointers as a stack: its nodes L[k], ..., L[1] from the head  *)
(* on, and null below them.                                                *)
IsStack(L, k, head, link, null) ==
  /\ head = L[k] /\ L[0] = null
  /\ \A i \in 1..k : L[i] # null /\ link[L[i]] = L[i - 1]
  /\ \A i, j \in 1..k : L[i] = L[j] => i = j

Members(L, k) == {L[i] : i \in 1..k}

LEMMA Smallest ==
  ASSUME NEW S \in SUBSET Nat, S # {}
  PROVE  \E x \in S : \A y \in S : x <= y
<1>1. PICK x \in S : \A y \in S : <<y, x>> \notin OpToRel(<, Nat)
  BY NatLessThanWellFounded, WFMin
<1>2. \A y \in S : ~(y < x)
  BY <1>1 DEF OpToRel
<1> QED  BY <1>2

(* What Linked computes is what the stack has.                             *)
LEMMA LinkedIsStack ==
  ASSUME NEW head, NEW link, NEW null, NEW L, NEW k \in Nat, NEW N \in Nat, k <= N,
         IsStack(L, k, head, link, null)
  PROVE  Linked(head, link, null, N) = Members(L, k)
<1> DEFINE E(f, j) == IF j = 0 THEN {head} \ {null}
                      ELSE f[j - 1] \cup ({link[n] : n \in f[j - 1]} \ {null})
           g == [j \in 0..N |-> {L[i] : i \in {i \in 1..k : k <= i + j}}]
<1>1. \A j \in 0..N : g[j] = E(g, j)
  <2> SUFFICES ASSUME NEW j \in 0..N PROVE g[j] = E(g, j)
    OBVIOUS
  <2>1. CASE j = 0
    <3>1. CASE k = 0
      BY <2>1, <3>1 DEF IsStack
    <3>2. CASE k # 0
      <4>1. {i \in 1..k : k <= i + j} = {k}
        BY <2>1, <3>2
      <4> QED  BY <2>1, <3>2, <4>1 DEF IsStack
    <3> QED  BY <3>1, <3>2
  <2>2. CASE j # 0
    <3> DEFINE A == g[j - 1]
    <3>1. A = {L[i] : i \in {i \in 1..k : k < i + j}}
      BY <2>2
    <3> HIDE DEF A
    <3>2. ASSUME NEW x \in g[j] PROVE x \in A \/ (x \in {link[n] : n \in A} /\ x # null)
      <4>1. PICK i \in 1..k : k <= i + j /\ x = L[i]
        BY <3>2
      <4>2. CASE k < i + j
        BY <3>1, <4>1, <4>2
      <4>3. CASE k = i + j
        <5>1. i + 1 \in 1..k /\ k < (i + 1) + j /\ (i + 1) - 1 = i
          BY <2>2, <4>3
        <5>2. L[i + 1] \in A
          BY <3>1, <5>1
        <5>3. link[L[i + 1]] = x /\ x # null
          BY <4>1, <5>1 DEF IsStack
        <5> QED  BY <5>2, <5>3
      <4> QED  BY <4>1, <4>2, <4>3
    <3>3. ASSUME NEW x \in A PROVE x \in g[j]
      BY <3>1, <3>3
    <3>4. ASSUME NEW n \in A, link[n] # null PROVE link[n] \in g[j]
      <4>1. PICK i \in 1..k : k < i + j /\ n = L[i]
        BY <3>1
      <4>2. link[n] = L[i - 1] /\ i - 1 # 0
        BY <3>4, <4>1 DEF IsStack
      <4>3. i - 1 \in 1..k /\ k <= (i - 1) + j
        BY <4>1, <4>2
      <4> QED  BY <4>2, <4>3
    <3>5. g[j] = A \cup ({link[n] : n \in A} \ {null})
      BY <3>2, <3>3, <3>4
    <3> QED  BY <2>2, <3>5 DEF A
  <2> QED  BY <2>1, <2>2
<1> HIDE DEF g
<1>2. g = [j \in 0..N |-> E(g, j)]
  <2>1. g = [j \in 0..N |-> g[j]]
    BY DEF g
  <2> QED  BY <1>1, <2>1
<1> DEFINE f == CHOOSE f : f = [j \in 0..N |-> E(f, j)]
<1>3. f = [j \in 0..N |-> E(f, j)]
  BY <1>2
<1>4. Linked(head, link, null, N) = f[N]
  BY DEF Linked
<1> HIDE DEF f
<1>5. \A j \in 0..N : f[j] = g[j]
  <2> SUFFICES ASSUME NEW i \in 0..N, f[i] # g[i] PROVE FALSE
    OBVIOUS
  <2> DEFINE Wrong == {j \in 0..N : f[j] # g[j]}
  <2>1. PICK j \in Wrong : \A l \in Wrong : j <= l
    <3>1. Wrong \in SUBSET Nat /\ Wrong # {}
      OBVIOUS
    <3> HIDE DEF Wrong
    <3> QED  BY <3>1, Smallest
  <2>2. f[j] = E(f, j) /\ g[j] = E(g, j)
    BY <1>1, <1>3
  <2>3. j # 0
    BY <2>2
  <2>4. j - 1 \in 0..N /\ f[j - 1] = g[j - 1]
    BY <2>1, <2>3
  <2> QED  BY <2>2, <2>3, <2>4
<1>6. g[N] = Members(L, k)
  <2>1. {i \in 1..k : k <= i + N} = 1..k
    OBVIOUS
  <2> QED  BY <2>1 DEF g, Members
<1> QED  BY <1>4, <1>5, <1>6

(* Pushing a node that is not on the list, and popping its head.           *)
LEMMA StackPushed ==
  ASSUME NEW head, NEW link, NEW null, NEW L, NEW k \in Nat, IsStack(L, k, head, link, null),
         NEW n, n \notin Members(L, k), n # null, link[n] = head
  PROVE  \E M : IsStack(M, k + 1, n, link, null) /\ Members(M, k + 1) = Members(L, k) \cup {n}
<1> DEFINE M == [i \in 0..(k + 1) |-> IF i <= k THEN L[i] ELSE n]
<1>1. M[k + 1] = n /\ \A i \in 0..k : M[i] = L[i]
  OBVIOUS
<1> HIDE DEF M
<1>2. \A i \in 1..(k + 1) : M[i] # null /\ link[M[i]] = M[i - 1]
  BY <1>1 DEF IsStack
<1>3. \A i, j \in 1..(k + 1) : M[i] = M[j] => i = j
  BY <1>1 DEF IsStack, Members
<1>4. M[0] = null
  BY <1>1 DEF IsStack
<1>5. Members(M, k + 1) = Members(L, k) \cup {n}
  <2>1. \A i \in 1..(k + 1) : i \in 1..k \/ i = k + 1
    OBVIOUS
  <2>2. 1..k \subseteq 1..(k + 1) /\ k + 1 \in 1..(k + 1)
    OBVIOUS
  <2> QED  BY <1>1, <2>1, <2>2 DEF Members
<1> QED  BY <1>1, <1>2, <1>3, <1>4, <1>5 DEF IsStack

LEMMA StackPopped ==
  ASSUME NEW head, NEW link, NEW null, NEW L, NEW k \in Nat, IsStack(L, k, head, link, null),
         head # null
  PROVE  /\ k - 1 \in Nat /\ IsStack(L, k - 1, link[head], link, null)
         /\ head \in Members(L, k) /\ Members(L, k - 1) = Members(L, k) \ {head}
<1>1. k # 0
  BY DEF IsStack
<1>2. 1..(k - 1) \subseteq 1..k /\ k \in 1..k /\ \A i \in 1..k : i # k => i \in 1..(k - 1)
  BY <1>1
<1>3. IsStack(L, k - 1, link[head], link, null)
  BY <1>1, <1>2 DEF IsStack
<1>4. \A i \in 1..(k - 1) : L[i] # L[k]
  BY <1>1, <1>2 DEF IsStack
<1> QED  BY <1>1, <1>2, <1>3, <1>4 DEF Members, IsStack

(* A stack of members of S is no longer than S is big.                     *)
LEMMA StackLength ==
  ASSUME NEW head, NEW link, NEW null, NEW L, NEW k \in Nat, IsStack(L, k, head, link, null),
         NEW S, IsFiniteSet(S), Members(L, k) \subseteq S
  PROVE  k <= Cardinality(S)
<1> DEFINE f == [i \in 1..k |-> L[i]]
<1>1. f \in Injection(1..k, S)
  BY DEF IsStack, Members, Injection, IsInjective
<1>2. Cardinality(1..k) = k
  BY FS_Interval
<1>3. Cardinality(1..k) <= Cardinality(S)
  BY <1>1, FS_Injection
<1> QED  BY <1>2, <1>3

-----------------------------------------------------------------------------
(***************************************************************************)
(* LightweightSemaphore: no token is lost, and a wait takes no more than   *)
(* there are.                                                              *)
(***************************************************************************)

(* The inductive invariant behind SemaphoreKept.                           *)

SemaphoreTyped ==
  /\ m_count \in Int /\ m_sema \in Nat /\ signalled \in 0..MaxTokens
  /\ pc \in [Threads -> {"idle", "try", "tryExchange", "spin", "spinExchange",
                         "kernel", "asleep", "adjust", "tryKernel", "restore",
                         "post"}]
  /\ max \in [Waiters -> 0..MaxMany] /\ timeout \in [Waiters -> {"none", "zero", "some"}]
  /\ oldCount \in [Waiters -> Int] /\ spin \in [Waiters -> 0..MaxSpins]
  /\ result \in [Waiters -> Nat] /\ toRelease \in [Signallers -> 0..MaxTokens]

CountedOut == {"kernel", "asleep", "adjust", "tryKernel", "restore"}

(* What a location says of the locals: a wait has got less than it asks    *)
(* for, nothing at all before and after it has counted itself out; an      *)
(* exchange is tried with a positive count, a restore with a negative one. *)
LocalsOfPc ==
  /\ \A t \in Waiters :
       /\ result[t] <= max[t]
       /\ pc[t] \notin {"idle", "post"} => max[t] > 0
       /\ pc[t] \in {"try", "tryExchange"} => result[t] < max[t]
       /\ pc[t] \in {"spin", "spinExchange"} \cup CountedOut => result[t] = 0
       /\ pc[t] \in {"tryExchange", "spinExchange"} => oldCount[t] > 0
       /\ pc[t] = "restore" => oldCount[t] < 0
  /\ \A t \in Signallers : toRelease[t] > 0 <=> pc[t] = "post"

(* There are no more tokens than were signalled.                           *)
TokensSignalled == m_count + Cardinality(Pending) <= signalled

(* The tokens as a user of the semaphore counts them, and what a step may  *)
(* do to them.                                                             *)
Tokens == m_count + Cardinality(Pending)

TokensStep ==
  \/ Tokens' = Tokens
  \/ \E k \in 1..Tokens : Tokens' = Tokens - k
  \/ \E k \in Nat \ {0} : Tokens' = Tokens + k

SemaphoreInv == SemaphoreTyped /\ LocalsOfPc /\ PostsMatchWaiters /\ TokensSignalled

-----------------------------------------------------------------------------
(* Finite sets and their sizes.                                            *)

LEMMA ConstantNumbers ==
  /\ MaxTokens \in Nat /\ MaxMany \in Nat \ {0} /\ MaxSpins \in Nat
  /\ Timeouts \subseteq {"none", "zero", "some"}
BY SemaphoreAssumption

LEMMA Sizes ==
  /\ IsFiniteSet(Pending) /\ Cardinality(Pending) \in Nat
  /\ Cardinality(Pending) <= Cardinality(Waiters) /\ Cardinality(Waiters) \in Nat
  /\ IsFiniteSet(Owing) /\ Cardinality(Owing) \in Nat
<1>1. IsFiniteSet(Waiters) /\ IsFiniteSet(Signallers) /\ IsFiniteSet(1..MaxTokens)
  BY SemaphoreAssumption, FS_Interval
<1>2. IsFiniteSet(Signallers \X (1..MaxTokens))
  BY <1>1, FS_Product
<1>3. Pending \in SUBSET Waiters /\ Owing \in SUBSET (Signallers \X (1..MaxTokens))
  BY DEF Pending, Owing
<1> QED  BY <1>1, <1>2, <1>3, FS_Subset, FS_CardinalityType

LEMMA SizesPrimed ==
  /\ IsFiniteSet(Pending') /\ Cardinality(Pending') \in Nat
  /\ IsFiniteSet(Owing') /\ Cardinality(Owing') \in Nat
<1>1. IsFiniteSet(Waiters) /\ IsFiniteSet(Signallers) /\ IsFiniteSet(1..MaxTokens)
  BY SemaphoreAssumption, FS_Interval
<1>2. IsFiniteSet(Signallers \X (1..MaxTokens))
  BY <1>1, FS_Product
<1>3. Pending' \in SUBSET Waiters /\ Owing' \in SUBSET (Signallers \X (1..MaxTokens))
  BY DEF Pending, Owing
<1> QED  BY <1>1, <1>2, <1>3, FS_Subset, FS_CardinalityType

(* Who goes somewhere joins the threads that are counted out, or leaves    *)
(* them.                                                                   *)
LEMMA PendingMoves ==
  ASSUME SemaphoreTyped, NEW t \in Threads, NEW p, Goto(t, p), p \in CountedOut => t \in Waiters
  PROVE  Cardinality(Pending') =
           Cardinality(Pending) + (IF p \in CountedOut THEN 1 ELSE 0)
                                - (IF t \in Waiters /\ pc[t] \in CountedOut THEN 1 ELSE 0)
<1>1. pc' = [pc EXCEPT ![t] = p] /\ t \in DOMAIN pc /\ Waiters \subseteq DOMAIN pc
  BY DEF SemaphoreTyped, Goto, Threads
<1>2. t \in Pending <=> t \in Waiters /\ pc[t] \in CountedOut
  BY DEF Pending, CountedOut
<1>3. CASE p \in CountedOut
  <2>1. Pending' = Pending \cup {t}
    BY <1>1, <1>3 DEF Pending, CountedOut
  <2>2. Cardinality(Pending \cup {t})
          = IF t \in Pending THEN Cardinality(Pending) ELSE Cardinality(Pending) + 1
    BY Sizes, FS_AddElement
  <2> QED  BY <1>2, <1>3, <2>1, <2>2, Sizes
<1>4. CASE p \notin CountedOut
  <2>1. Pending' = Pending \ {t}
    BY <1>1, <1>4 DEF Pending, CountedOut
  <2>2. Cardinality(Pending \ {t})
          = IF t \in Pending THEN Cardinality(Pending) - 1 ELSE Cardinality(Pending)
    BY Sizes, FS_RemoveElement
  <2> QED  BY <1>2, <1>4, <2>1, <2>2, Sizes
<1> QED  BY <1>3, <1>4

(* A signaller that owes nothing comes to owe k posts.                     *)
LEMMA OwingStarts ==
  ASSUME SemaphoreTyped, NEW t \in Signallers, toRelease[t] = 0,
         NEW k \in 0..MaxTokens, toRelease' = [toRelease EXCEPT ![t] = k]
  PROVE  Cardinality(Owing') = Cardinality(Owing) + k
<1> USE ConstantNumbers
<1> DEFINE D == {t} \X (1..k)
<1>1. Owing' = Owing \cup D /\ Owing \cap D = {}
  <2>1. \A u \in Signallers : toRelease'[u] = IF u = t THEN k ELSE toRelease[u]
    BY DEF SemaphoreTyped
  <2>2. \A u \in Signallers, i \in 1..MaxTokens :
          <<u, i>> \in Owing' <=> (u = t /\ i <= k) \/ (u # t /\ i <= toRelease[u])
    BY <2>1 DEF Owing
  <2>3. \A u \in Signallers, i \in 1..MaxTokens : <<u, i>> \in Owing <=> i <= toRelease[u]
    BY DEF Owing
  <2>4. \A u \in Signallers, i \in 1..MaxTokens : <<u, i>> \in D <=> u = t /\ i <= k
    OBVIOUS
  <2>5. /\ Owing \subseteq Signallers \X (1..MaxTokens) /\ Owing' \subseteq Signallers \X (1..MaxTokens)
        /\ D \subseteq Signallers \X (1..MaxTokens)
    BY DEF Owing
  <2>6. \A u \in Signallers, i \in 1..MaxTokens :
          /\ <<u, i>> \in Owing' <=> <<u, i>> \in Owing \/ <<u, i>> \in D
          /\ ~(<<u, i>> \in Owing /\ <<u, i>> \in D)
    <3> SUFFICES ASSUME NEW u \in Signallers, NEW i \in 1..MaxTokens
                 PROVE  /\ <<u, i>> \in Owing' <=> <<u, i>> \in Owing \/ <<u, i>> \in D
                        /\ ~(<<u, i>> \in Owing /\ <<u, i>> \in D)
      OBVIOUS
    <3>1. u = t => <<u, i>> \notin Owing
      BY <2>3
    <3> HIDE DEF D
    <3> QED  BY <2>2, <2>3, <2>4, <3>1
  <2> HIDE DEF D
  <2>7. \A x \in Signallers \X (1..MaxTokens) :
          (x \in Owing' <=> x \in Owing \/ x \in D) /\ ~(x \in Owing /\ x \in D)
    BY <2>6
  <2> QED  BY <2>5, <2>7
<1>2. IsFiniteSet(D) /\ Cardinality(D) = k
  <2>1. IsFiniteSet({t}) /\ Cardinality({t}) = 1
    BY FS_Singleton
  <2>2. IsFiniteSet(1..k) /\ Cardinality(1..k) = k
    BY FS_Interval
  <2>3. IsFiniteSet(D) /\ Cardinality(D) = Cardinality({t}) * Cardinality(1..k)
    BY <2>1, <2>2, FS_Product
  <2> QED  BY <2>1, <2>2, <2>3
<1> HIDE DEF D
<1>3. Cardinality(Owing \cap D) = 0
  BY <1>1, FS_EmptySet
<1>4. Cardinality(Owing \cup D)
        = Cardinality(Owing) + Cardinality(D) - Cardinality(Owing \cap D)
  BY <1>2, Sizes, FS_Union
<1> QED  BY <1>1, <1>2, <1>3, <1>4, Sizes

(* A signaller posts once.                                                 *)
LEMMA OwingPosted ==
  ASSUME SemaphoreTyped, NEW t \in Signallers, toRelease[t] > 0,
         toRelease' = [toRelease EXCEPT ![t] = @ - 1]
  PROVE  Cardinality(Owing') = Cardinality(Owing) - 1
<1> USE ConstantNumbers
<1>1. toRelease[t] \in 1..MaxTokens
  BY DEF SemaphoreTyped
<1>2. \A u \in Signallers : toRelease'[u] = IF u = t THEN toRelease[t] - 1 ELSE toRelease[u]
  BY DEF SemaphoreTyped
<1>3. \A u \in Signallers, i \in 1..MaxTokens :
        <<u, i>> \in Owing' <=> <<u, i>> \in Owing /\ <<u, i>> # <<t, toRelease[t]>>
  <2> SUFFICES ASSUME NEW u \in Signallers, NEW i \in 1..MaxTokens
               PROVE  <<u, i>> \in Owing' <=> <<u, i>> \in Owing /\ <<u, i>> # <<t, toRelease[t]>>
    OBVIOUS
  <2>1. (<<u, i>> \in Owing' <=> i <= toRelease'[u]) /\ (<<u, i>> \in Owing <=> i <= toRelease[u])
    BY DEF Owing
  <2>2. <<u, i>> # <<t, toRelease[t]>> <=> u # t \/ i # toRelease[t]
    OBVIOUS
  <2>3. toRelease[u] \in Int /\ toRelease'[u] \in Int
    BY <1>1, <1>2 DEF SemaphoreTyped
  <2> QED  BY <1>1, <1>2, <2>1, <2>2, <2>3
<1>4. Owing' \subseteq Signallers \X (1..MaxTokens) /\ Owing \subseteq Signallers \X (1..MaxTokens)
  BY DEF Owing
<1>5. Owing' = Owing \ {<<t, toRelease[t]>>}
  BY <1>3, <1>4
<1>6. <<t, toRelease[t]>> \in Owing
  BY <1>1 DEF Owing
<1> QED  BY <1>5, <1>6, Sizes, FS_RemoveElement

-----------------------------------------------------------------------------
(* The steps of a wait.  Each keeps the invariant and takes tokens that    *)
(* are there, or none.                                                     *)

(* What the invariant says of the sizes, and what it takes to keep it.     *)
LEMMA Balance ==
  ASSUME SemaphoreInv
  PROVE  /\ m_count \in Int /\ m_sema \in Nat /\ signalled \in 0..MaxTokens
         /\ Cardinality(Pending) \in Nat /\ Cardinality(Owing) \in Nat
         /\ m_count < 0 => m_sema + Cardinality(Owing) = Cardinality(Pending) + m_count
         /\ m_count >= 0 => m_sema + Cardinality(Owing) = Cardinality(Pending)
         /\ Tokens = m_count + Cardinality(Pending) /\ Tokens \in Nat /\ Tokens <= signalled
BY Sizes, ConstantNumbers DEF SemaphoreInv, SemaphoreTyped, PostsMatchWaiters, TokensSignalled, Tokens

LEMMA OwingSame ==
  ASSUME UNCHANGED toRelease
  PROVE  Cardinality(Owing') = Cardinality(Owing)
<1>1. Owing' = Owing
  BY DEF Owing
<1> QED  BY <1>1

(* An exchange takes at least one token, and no more than it asks for.     *)
LEMMA ExchangeTakes ==
  ASSUME m_count \in Int, m_count > 0, NEW t \in Waiters, NEW n \in Int, n > 0, Exchange(t, n)
  PROVE  \E k \in 1..m_count : /\ k <= n /\ m_count' = m_count - k
                              /\ result' = [result EXCEPT ![t] = @ + k]
<1>1. Lower(m_count, n) \in 1..m_count /\ Lower(m_count, n) <= n
  BY DEF Lower
<1> QED  BY <1>1 DEF Exchange

LEMMA WaitStep ==
  ASSUME SemaphoreInv, NEW t \in Waiters, Wait(t)
  PROVE  SemaphoreInv' /\ TokensStep
<1> USE ConstantNumbers
<1>1. SemaphoreTyped'
  BY DEF SemaphoreInv, SemaphoreTyped, Wait, Goto, Threads, Lower
<1>2. LocalsOfPc'
  BY DEF SemaphoreInv, SemaphoreTyped, LocalsOfPc, CountedOut, Wait, Goto, Threads, Lower
<1>3. Cardinality(Owing') = Cardinality(Owing)
  BY OwingSame DEF Wait, Goto
<1>4. Goto(t, "try")
  BY DEF SemaphoreInv, SemaphoreTyped, LocalsOfPc, Wait, Goto
<1>5. /\ Cardinality(Pending') = Cardinality(Pending) + (IF "try" \in CountedOut THEN 1 ELSE 0)
        - (IF pc[t] \in CountedOut THEN 1 ELSE 0)
      /\ m_count' \in Int /\ m_sema' \in Nat
  BY <1>1, <1>4, PendingMoves DEF SemaphoreInv, SemaphoreTyped, Threads
<1>6. PostsMatchWaiters' /\ TokensSignalled' /\ TokensStep
  BY <1>3, <1>4, <1>5, Balance DEF SemaphoreInv, LocalsOfPc, CountedOut, Wait, Goto, Lower,
     PostsMatchWaiters, TokensSignalled, Tokens, TokensStep
<1> QED  BY <1>1, <1>2, <1>6 DEF SemaphoreInv

LEMMA TryStep ==
  ASSUME SemaphoreInv, NEW t \in Waiters, Try(t)
  PROVE  SemaphoreInv' /\ TokensStep
<1> USE ConstantNumbers
<1>1. SemaphoreTyped'
  BY DEF SemaphoreInv, SemaphoreTyped, Try, Goto, Read, GiveUp, Threads, Lower
<1>2. LocalsOfPc'
  BY DEF SemaphoreInv, SemaphoreTyped, LocalsOfPc, CountedOut, Try, Goto, Read, GiveUp, Threads, Lower
<1>3. Cardinality(Owing') = Cardinality(Owing)
  BY OwingSame DEF Try, Goto, Read, GiveUp
<1>4. CASE m_count > 0
  <2>1. Goto(t, "tryExchange")
    BY <1>4 DEF SemaphoreInv, SemaphoreTyped, LocalsOfPc, Try, Goto, Read, GiveUp
  <2>2. /\ Cardinality(Pending') = Cardinality(Pending) + (IF "tryExchange" \in CountedOut THEN 1 ELSE 0)
            - (IF pc[t] \in CountedOut THEN 1 ELSE 0)
        /\ m_count' \in Int /\ m_sema' \in Nat
    BY <1>1, <2>1, PendingMoves DEF SemaphoreInv, SemaphoreTyped, Threads
  <2>3. PostsMatchWaiters' /\ TokensSignalled' /\ TokensStep
    BY <1>3, <1>4, <2>2, Balance DEF SemaphoreInv, LocalsOfPc, CountedOut, Try, Goto, Read,
       GiveUp, Lower, PostsMatchWaiters, TokensSignalled, Tokens, TokensStep
  <2> QED  BY <1>1, <1>2, <2>3 DEF SemaphoreInv
<1>5. CASE ~(m_count > 0) /\ result[t] = 0
  <2>1. Goto(t, "spin")
    BY <1>5 DEF SemaphoreInv, SemaphoreTyped, LocalsOfPc, Try, Goto, Read, GiveUp
  <2>2. /\ Cardinality(Pending') = Cardinality(Pending) + (IF "spin" \in CountedOut THEN 1 ELSE 0)
            - (IF pc[t] \in CountedOut THEN 1 ELSE 0)
        /\ m_count' \in Int /\ m_sema' \in Nat
    BY <1>1, <2>1, PendingMoves DEF SemaphoreInv, SemaphoreTyped, Threads
  <2>3. PostsMatchWaiters' /\ TokensSignalled' /\ TokensStep
    BY <1>3, <1>5, <2>2, Balance DEF SemaphoreInv, LocalsOfPc, CountedOut, Try, Goto, Read,
       GiveUp, Lower, PostsMatchWaiters, TokensSignalled, Tokens, TokensStep
  <2> QED  BY <1>1, <1>2, <2>3 DEF SemaphoreInv
<1>6. CASE ~(m_count > 0) /\ result[t] # 0
  <2>1. Goto(t, "idle")
    BY <1>6 DEF SemaphoreInv, SemaphoreTyped, LocalsOfPc, Try, Goto, Read, GiveUp
  <2>2. /\ Cardinality(Pending') = Cardinality(Pending) + (IF "idle" \in CountedOut THEN 1 ELSE 0)
            - (IF pc[t] \in CountedOut THEN 1 ELSE 0)
        /\ m_count' \in Int /\ m_sema' \in Nat
    BY <1>1, <2>1, PendingMoves DEF SemaphoreInv, SemaphoreTyped, Threads
  <2>3. PostsMatchWaiters' /\ TokensSignalled' /\ TokensStep
    BY <1>3, <1>6, <2>2, Balance DEF SemaphoreInv, LocalsOfPc, CountedOut, Try, Goto, Read,
       GiveUp, Lower, PostsMatchWaiters, TokensSignalled, Tokens, TokensStep
  <2> QED  BY <1>1, <1>2, <2>3 DEF SemaphoreInv
<1> QED  BY <1>4, <1>5, <1>6 DEF Try, Goto, Read, GiveUp

LEMMA TryExchangeStep ==
  ASSUME SemaphoreInv, NEW t \in Waiters, TryExchange(t)
  PROVE  SemaphoreInv' /\ TokensStep
<1> USE ConstantNumbers
<1>1. SemaphoreTyped'
  <2>1. CASE Exchange(t, max[t] - result[t])
    <3>1. m_count \in Int /\ m_count > 0 /\ max[t] - result[t] \in Int /\ max[t] - result[t] > 0
      BY <2>1 DEF SemaphoreInv, SemaphoreTyped, LocalsOfPc, TryExchange, Exchange
    <3>2. PICK k \in 1..m_count : m_count' = m_count - k /\ result' = [result EXCEPT ![t] = @ + k]
      BY <2>1, <3>1, ExchangeTakes
    <3> QED  BY <2>1, <3>1, <3>2 DEF SemaphoreInv, SemaphoreTyped, TryExchange, Exchange, Goto, Threads
  <2>2. CASE ~Exchange(t, max[t] - result[t])
    BY <2>2 DEF SemaphoreInv, SemaphoreTyped, TryExchange, Goto, Read, GiveUp, Threads
  <2> QED  BY <2>1, <2>2
<1>2. LocalsOfPc'
  BY DEF SemaphoreInv, SemaphoreTyped, LocalsOfPc, CountedOut, TryExchange, Goto, Read, GiveUp,
     Exchange, Threads, Lower
<1>3. Cardinality(Owing') = Cardinality(Owing)
  BY OwingSame DEF TryExchange, Goto, Read, GiveUp, Exchange
<1>4. CASE Exchange(t, max[t] - result[t])
  <2>1. Goto(t, "idle")
    BY <1>4 DEF SemaphoreInv, SemaphoreTyped, LocalsOfPc, TryExchange, Goto, Read, GiveUp, Exchange
  <2>2. /\ Cardinality(Pending') = Cardinality(Pending) + (IF "idle" \in CountedOut THEN 1 ELSE 0)
            - (IF pc[t] \in CountedOut THEN 1 ELSE 0)
        /\ m_count' \in Int /\ m_sema' \in Nat
    BY <1>1, <2>1, PendingMoves DEF SemaphoreInv, SemaphoreTyped, Threads
  <2>3. PICK k \in 1..m_count : k <= max[t] - result[t] /\ m_count' = m_count - k
    BY <1>4, ExchangeTakes DEF SemaphoreInv, LocalsOfPc, CountedOut, TryExchange, Goto,
       Read, GiveUp, Exchange, Lower, SemaphoreTyped
  <2>4. PostsMatchWaiters'
    BY <1>3, <1>4, <2>2, <2>3, Balance DEF SemaphoreInv, LocalsOfPc, CountedOut,
       TryExchange, PostsMatchWaiters
  <2>5. Tokens' = Tokens - k /\ k \in 1..Tokens /\ TokensSignalled'
    BY <1>1, <2>2, <2>3, Balance, SizesPrimed DEF Tokens, TokensSignalled, SemaphoreTyped,
       CountedOut, TryExchange
  <2> QED  BY <1>1, <1>2, <2>4, <2>5 DEF SemaphoreInv, TokensStep
<1>5. CASE ~Exchange(t, max[t] - result[t]) /\ m_count > 0
  <2>1. Goto(t, "tryExchange")
    BY <1>5 DEF SemaphoreInv, SemaphoreTyped, LocalsOfPc, TryExchange, Goto, Read, GiveUp, Exchange
  <2>2. /\ Cardinality(Pending') = Cardinality(Pending) + (IF "tryExchange" \in CountedOut THEN 1 ELSE 0)
            - (IF pc[t] \in CountedOut THEN 1 ELSE 0)
        /\ m_count' \in Int /\ m_sema' \in Nat
    BY <1>1, <2>1, PendingMoves DEF SemaphoreInv, SemaphoreTyped, Threads
  <2>3. PostsMatchWaiters' /\ TokensSignalled' /\ TokensStep
    BY <1>3, <1>5, <2>2, Balance DEF SemaphoreInv, LocalsOfPc, CountedOut, TryExchange,
       Goto, Read, GiveUp, Exchange, Lower, PostsMatchWaiters, TokensSignalled, Tokens,
       TokensStep
  <2> QED  BY <1>1, <1>2, <2>3 DEF SemaphoreInv
<1>6. CASE ~Exchange(t, max[t] - result[t]) /\ ~(m_count > 0) /\ result[t] = 0
  <2>1. Goto(t, "spin")
    BY <1>6 DEF SemaphoreInv, SemaphoreTyped, LocalsOfPc, TryExchange, Goto, Read, GiveUp, Exchange
  <2>2. /\ Cardinality(Pending') = Cardinality(Pending) + (IF "spin" \in CountedOut THEN 1 ELSE 0)
            - (IF pc[t] \in CountedOut THEN 1 ELSE 0)
        /\ m_count' \in Int /\ m_sema' \in Nat
    BY <1>1, <2>1, PendingMoves DEF SemaphoreInv, SemaphoreTyped, Threads
  <2>3. PostsMatchWaiters' /\ TokensSignalled' /\ TokensStep
    BY <1>3, <1>6, <2>2, Balance DEF SemaphoreInv, LocalsOfPc, CountedOut, TryExchange,
       Goto, Read, GiveUp, Exchange, Lower, PostsMatchWaiters, TokensSignalled, Tokens,
       TokensStep
  <2> QED  BY <1>1, <1>2, <2>3 DEF SemaphoreInv
<1>7. CASE ~Exchange(t, max[t] - result[t]) /\ ~(m_count > 0) /\ result[t] # 0
  <2>1. Goto(t, "idle")
    BY <1>7 DEF SemaphoreInv, SemaphoreTyped, LocalsOfPc, TryExchange, Goto, Read, GiveUp, Exchange
  <2>2. /\ Cardinality(Pending') = Cardinality(Pending) + (IF "idle" \in CountedOut THEN 1 ELSE 0)
            - (IF pc[t] \in CountedOut THEN 1 ELSE 0)
        /\ m_count' \in Int /\ m_sema' \in Nat
    BY <1>1, <2>1, PendingMoves DEF SemaphoreInv, SemaphoreTyped, Threads
  <2>3. PostsMatchWaiters' /\ TokensSignalled' /\ TokensStep
    BY <1>3, <1>7, <2>2, Balance DEF SemaphoreInv, LocalsOfPc, CountedOut, TryExchange,
       Goto, Read, GiveUp, Exchange, Lower, PostsMatchWaiters, TokensSignalled, Tokens,
       TokensStep
  <2> QED  BY <1>1, <1>2, <2>3 DEF SemaphoreInv
<1> QED  BY <1>4, <1>5, <1>6, <1>7 DEF TryExchange, Goto, Read, GiveUp, Exchange

LEMMA SpinStep ==
  ASSUME SemaphoreInv, NEW t \in Waiters, Spin(t)
  PROVE  SemaphoreInv' /\ TokensStep
<1> USE ConstantNumbers
<1>1. SemaphoreTyped'
  BY DEF SemaphoreInv, SemaphoreTyped, Spin, Goto, Read, Threads, Lower
<1>2. LocalsOfPc'
  BY DEF SemaphoreInv, SemaphoreTyped, LocalsOfPc, CountedOut, Spin, Goto, Read, Threads, Lower
<1>3. Cardinality(Owing') = Cardinality(Owing)
  BY OwingSame DEF Spin, Goto, Read
<1>4. CASE m_count > 0
  <2>1. Goto(t, "spinExchange")
    BY <1>4 DEF SemaphoreInv, SemaphoreTyped, LocalsOfPc, Spin, Goto, Read
  <2>2. /\ Cardinality(Pending') = Cardinality(Pending) + (IF "spinExchange" \in CountedOut THEN 1 ELSE 0)
            - (IF pc[t] \in CountedOut THEN 1 ELSE 0)
        /\ m_count' \in Int /\ m_sema' \in Nat
    BY <1>1, <2>1, PendingMoves DEF SemaphoreInv, SemaphoreTyped, Threads
  <2>3. PostsMatchWaiters' /\ TokensSignalled' /\ TokensStep
    BY <1>3, <1>4, <2>2, Balance DEF SemaphoreInv, LocalsOfPc, CountedOut, Spin, Goto, Read,
       Lower, PostsMatchWaiters, TokensSignalled, Tokens, TokensStep
  <2> QED  BY <1>1, <1>2, <2>3 DEF SemaphoreInv
<1>5. CASE ~(m_count > 0)
  <2>1. Goto(t, "spin")
    BY <1>5 DEF SemaphoreInv, SemaphoreTyped, LocalsOfPc, Spin, Goto, Read
  <2>2. /\ Cardinality(Pending') = Cardinality(Pending) + (IF "spin" \in CountedOut THEN 1 ELSE 0)
            - (IF pc[t] \in CountedOut THEN 1 ELSE 0)
        /\ m_count' \in Int /\ m_sema' \in Nat
    BY <1>1, <2>1, PendingMoves DEF SemaphoreInv, SemaphoreTyped, Threads
  <2>3. PostsMatchWaiters' /\ TokensSignalled' /\ TokensStep
    BY <1>3, <1>5, <2>2, Balance DEF SemaphoreInv, LocalsOfPc, CountedOut, Spin, Goto, Read,
       Lower, PostsMatchWaiters, TokensSignalled, Tokens, TokensStep
  <2> QED  BY <1>1, <1>2, <2>3 DEF SemaphoreInv
<1> QED  BY <1>4, <1>5 DEF Spin, Goto, Read

LEMMA SpinExchangeStep ==
  ASSUME SemaphoreInv, NEW t \in Waiters, SpinExchange(t)
  PROVE  SemaphoreInv' /\ TokensStep
<1> USE ConstantNumbers
<1>1. SemaphoreTyped'
  <2>1. CASE Exchange(t, max[t])
    <3>1. m_count \in Int /\ m_count > 0 /\ max[t] \in Int /\ max[t] > 0
      BY <2>1 DEF SemaphoreInv, SemaphoreTyped, LocalsOfPc, SpinExchange, Exchange
    <3>2. PICK k \in 1..m_count : m_count' = m_count - k /\ result' = [result EXCEPT ![t] = @ + k]
      BY <2>1, <3>1, ExchangeTakes
    <3> QED  BY <2>1, <3>1, <3>2 DEF SemaphoreInv, SemaphoreTyped, SpinExchange, Exchange, Goto, Threads
  <2>2. CASE ~Exchange(t, max[t])
    BY <2>2 DEF SemaphoreInv, SemaphoreTyped, SpinExchange, Goto, Threads
  <2> QED  BY <2>1, <2>2
<1>2. LocalsOfPc'
  BY DEF SemaphoreInv, SemaphoreTyped, LocalsOfPc, CountedOut, SpinExchange, Goto, Exchange, Threads, Lower
<1>3. Cardinality(Owing') = Cardinality(Owing)
  BY OwingSame DEF SpinExchange, Goto, Exchange
<1>4. CASE m_count = oldCount[t]
  <2>1. Goto(t, "idle")
    BY <1>4 DEF SemaphoreInv, SemaphoreTyped, LocalsOfPc, SpinExchange, Goto, Exchange
  <2>2. /\ Cardinality(Pending') = Cardinality(Pending) + (IF "idle" \in CountedOut THEN 1 ELSE 0)
            - (IF pc[t] \in CountedOut THEN 1 ELSE 0)
        /\ m_count' \in Int /\ m_sema' \in Nat
    BY <1>1, <2>1, PendingMoves DEF SemaphoreInv, SemaphoreTyped, Threads
  <2>3. PICK k \in 1..m_count : k <= max[t] /\ m_count' = m_count - k
    BY <1>4, ExchangeTakes DEF SemaphoreInv, LocalsOfPc, CountedOut, SpinExchange, Goto,
       Exchange, Lower, SemaphoreTyped
  <2>4. PostsMatchWaiters'
    BY <1>3, <1>4, <2>2, <2>3, Balance DEF SemaphoreInv, LocalsOfPc, CountedOut,
       SpinExchange, PostsMatchWaiters
  <2>5. Tokens' = Tokens - k /\ k \in 1..Tokens /\ TokensSignalled'
    BY <1>1, <2>2, <2>3, Balance, SizesPrimed DEF Tokens, TokensSignalled, SemaphoreTyped,
       CountedOut, SpinExchange
  <2> QED  BY <1>1, <1>2, <2>4, <2>5 DEF SemaphoreInv, TokensStep
<1>5. CASE m_count # oldCount[t]
  <2>1. Goto(t, "spin")
    BY <1>5 DEF SemaphoreInv, SemaphoreTyped, LocalsOfPc, SpinExchange, Goto, Exchange
  <2>2. /\ Cardinality(Pending') = Cardinality(Pending) + (IF "spin" \in CountedOut THEN 1 ELSE 0)
            - (IF pc[t] \in CountedOut THEN 1 ELSE 0)
        /\ m_count' \in Int /\ m_sema' \in Nat
    BY <1>1, <2>1, PendingMoves DEF SemaphoreInv, SemaphoreTyped, Threads
  <2>3. PostsMatchWaiters' /\ TokensSignalled' /\ TokensStep
    BY <1>3, <1>5, <2>2, Balance DEF SemaphoreInv, LocalsOfPc, CountedOut, SpinExchange,
       Goto, Exchange, Lower, PostsMatchWaiters, TokensSignalled, Tokens, TokensStep
  <2> QED  BY <1>1, <1>2, <2>3 DEF SemaphoreInv
<1> QED  BY <1>4, <1>5 DEF SpinExchange, Goto, Exchange

LEMMA FetchSubStep ==
  ASSUME SemaphoreInv, NEW t \in Waiters, FetchSub(t)
  PROVE  SemaphoreInv' /\ TokensStep
<1> USE ConstantNumbers
<1>1. SemaphoreTyped'
  BY DEF SemaphoreInv, SemaphoreTyped, FetchSub, Goto, Read, First, Threads, Lower
<1>2. LocalsOfPc'
  BY DEF SemaphoreInv, SemaphoreTyped, LocalsOfPc, CountedOut, FetchSub, Goto, Read, First, Threads, Lower
<1>3. Cardinality(Owing') = Cardinality(Owing)
  BY OwingSame DEF FetchSub, Goto, Read, First
<1>4. CASE m_count > 0 /\ max[t] > 1
  <2>1. Goto(t, "try")
    BY <1>4 DEF SemaphoreInv, SemaphoreTyped, LocalsOfPc, FetchSub, Goto, Read, First
  <2>2. /\ Cardinality(Pending') = Cardinality(Pending) + (IF "try" \in CountedOut THEN 1 ELSE 0)
            - (IF pc[t] \in CountedOut THEN 1 ELSE 0)
        /\ m_count' \in Int /\ m_sema' \in Nat
    BY <1>1, <2>1, PendingMoves DEF SemaphoreInv, SemaphoreTyped, Threads
  <2>3. /\ Cardinality(Pending') + m_count' = Cardinality(Pending) + m_count - 1
        /\ Cardinality(Pending) + m_count > 0 /\ UNCHANGED signalled
    BY <1>4, <2>2, Balance DEF SemaphoreInv, LocalsOfPc, CountedOut, FetchSub, Goto, Read,
       First, Lower
  <2>4. PostsMatchWaiters'
    BY <1>3, <1>4, <2>2, Balance DEF SemaphoreInv, LocalsOfPc, CountedOut, FetchSub, Goto,
       Read, First, Lower, PostsMatchWaiters
  <2>5. Tokens' = Tokens - 1 /\ 1 \in 1..Tokens /\ TokensSignalled'
    BY <1>1, <2>2, <2>3, Balance, SizesPrimed DEF Tokens, TokensSignalled, SemaphoreTyped
  <2> QED  BY <1>1, <1>2, <2>4, <2>5 DEF SemaphoreInv, TokensStep
<1>5. CASE m_count > 0 /\ ~(max[t] > 1)
  <2>1. Goto(t, "idle")
    BY <1>5 DEF SemaphoreInv, SemaphoreTyped, LocalsOfPc, FetchSub, Goto, Read, First
  <2>2. /\ Cardinality(Pending') = Cardinality(Pending) + (IF "idle" \in CountedOut THEN 1 ELSE 0)
            - (IF pc[t] \in CountedOut THEN 1 ELSE 0)
        /\ m_count' \in Int /\ m_sema' \in Nat
    BY <1>1, <2>1, PendingMoves DEF SemaphoreInv, SemaphoreTyped, Threads
  <2>3. /\ Cardinality(Pending') + m_count' = Cardinality(Pending) + m_count - 1
        /\ Cardinality(Pending) + m_count > 0 /\ UNCHANGED signalled
    BY <1>5, <2>2, Balance DEF SemaphoreInv, LocalsOfPc, CountedOut, FetchSub, Goto, Read,
       First, Lower
  <2>4. PostsMatchWaiters'
    BY <1>3, <1>5, <2>2, Balance DEF SemaphoreInv, LocalsOfPc, CountedOut, FetchSub, Goto,
       Read, First, Lower, PostsMatchWaiters
  <2>5. Tokens' = Tokens - 1 /\ 1 \in 1..Tokens /\ TokensSignalled'
    BY <1>1, <2>2, <2>3, Balance, SizesPrimed DEF Tokens, TokensSignalled, SemaphoreTyped
  <2> QED  BY <1>1, <1>2, <2>4, <2>5 DEF SemaphoreInv, TokensStep
<1>6. CASE ~(m_count > 0) /\ timeout[t] = "zero"
  <2>1. Goto(t, "adjust")
    BY <1>6 DEF SemaphoreInv, SemaphoreTyped, LocalsOfPc, FetchSub, Goto, Read, First
  <2>2. /\ Cardinality(Pending') = Cardinality(Pending) + (IF "adjust" \in CountedOut THEN 1 ELSE 0)
            - (IF pc[t] \in CountedOut THEN 1 ELSE 0)
        /\ m_count' \in Int /\ m_sema' \in Nat
    BY <1>1, <2>1, PendingMoves DEF SemaphoreInv, SemaphoreTyped, Threads
  <2>3. PostsMatchWaiters' /\ TokensSignalled' /\ TokensStep
    BY <1>3, <1>6, <2>2, Balance DEF SemaphoreInv, LocalsOfPc, CountedOut, FetchSub, Goto,
       Read, First, Lower, PostsMatchWaiters, TokensSignalled, Tokens, TokensStep
  <2> QED  BY <1>1, <1>2, <2>3 DEF SemaphoreInv
<1>7. CASE ~(m_count > 0) /\ timeout[t] # "zero"
  <2>1. Goto(t, "kernel")
    BY <1>7 DEF SemaphoreInv, SemaphoreTyped, LocalsOfPc, FetchSub, Goto, Read, First
  <2>2. /\ Cardinality(Pending') = Cardinality(Pending) + (IF "kernel" \in CountedOut THEN 1 ELSE 0)
            - (IF pc[t] \in CountedOut THEN 1 ELSE 0)
        /\ m_count' \in Int /\ m_sema' \in Nat
    BY <1>1, <2>1, PendingMoves DEF SemaphoreInv, SemaphoreTyped, Threads
  <2>3. PostsMatchWaiters' /\ TokensSignalled' /\ TokensStep
    BY <1>3, <1>7, <2>2, Balance DEF SemaphoreInv, LocalsOfPc, CountedOut, FetchSub, Goto,
       Read, First, Lower, PostsMatchWaiters, TokensSignalled, Tokens, TokensStep
  <2> QED  BY <1>1, <1>2, <2>3 DEF SemaphoreInv
<1> QED  BY <1>4, <1>5, <1>6, <1>7 DEF FetchSub, Goto, Read, First

LEMMA KernelWaitStep ==
  ASSUME SemaphoreInv, NEW t \in Waiters, KernelWait(t)
  PROVE  SemaphoreInv' /\ TokensStep
<1> USE ConstantNumbers
<1>1. SemaphoreTyped'
  BY DEF SemaphoreInv, SemaphoreTyped, KernelWait, Goto, First, Threads, Lower
<1>2. LocalsOfPc'
  BY DEF SemaphoreInv, SemaphoreTyped, LocalsOfPc, CountedOut, KernelWait, Goto, First, Threads, Lower
<1>3. Cardinality(Owing') = Cardinality(Owing)
  BY OwingSame DEF KernelWait, Goto, First
<1>4. CASE m_sema > 0 /\ max[t] > 1
  <2>1. Goto(t, "try")
    BY <1>4 DEF SemaphoreInv, SemaphoreTyped, LocalsOfPc, KernelWait, Goto, First
  <2>2. /\ Cardinality(Pending') = Cardinality(Pending) + (IF "try" \in CountedOut THEN 1 ELSE 0)
            - (IF pc[t] \in CountedOut THEN 1 ELSE 0)
        /\ m_count' \in Int /\ m_sema' \in Nat
    BY <1>1, <2>1, PendingMoves DEF SemaphoreInv, SemaphoreTyped, Threads
  <2>3. /\ Cardinality(Pending') + m_count' = Cardinality(Pending) + m_count - 1
        /\ Cardinality(Pending) + m_count > 0 /\ UNCHANGED signalled
    BY <1>4, <2>2, Balance DEF SemaphoreInv, LocalsOfPc, CountedOut, KernelWait, Goto, First, Lower
  <2>4. PostsMatchWaiters'
    BY <1>3, <1>4, <2>2, Balance DEF SemaphoreInv, LocalsOfPc, CountedOut, KernelWait, Goto,
       First, Lower, PostsMatchWaiters
  <2>5. Tokens' = Tokens - 1 /\ 1 \in 1..Tokens /\ TokensSignalled'
    BY <1>1, <2>2, <2>3, Balance, SizesPrimed DEF Tokens, TokensSignalled, SemaphoreTyped
  <2> QED  BY <1>1, <1>2, <2>4, <2>5 DEF SemaphoreInv, TokensStep
<1>5. CASE m_sema > 0 /\ ~(max[t] > 1)
  <2>1. Goto(t, "idle")
    BY <1>5 DEF SemaphoreInv, SemaphoreTyped, LocalsOfPc, KernelWait, Goto, First
  <2>2. /\ Cardinality(Pending') = Cardinality(Pending) + (IF "idle" \in CountedOut THEN 1 ELSE 0)
            - (IF pc[t] \in CountedOut THEN 1 ELSE 0)
        /\ m_count' \in Int /\ m_sema' \in Nat
    BY <1>1, <2>1, PendingMoves DEF SemaphoreInv, SemaphoreTyped, Threads
  <2>3. /\ Cardinality(Pending') + m_count' = Cardinality(Pending) + m_count - 1
        /\ Cardinality(Pending) + m_count > 0 /\ UNCHANGED signalled
    BY <1>5, <2>2, Balance DEF SemaphoreInv, LocalsOfPc, CountedOut, KernelWait, Goto, First, Lower
  <2>4. PostsMatchWaiters'
    BY <1>3, <1>5, <2>2, Balance DEF SemaphoreInv, LocalsOfPc, CountedOut, KernelWait, Goto,
       First, Lower, PostsMatchWaiters
  <2>5. Tokens' = Tokens - 1 /\ 1 \in 1..Tokens /\ TokensSignalled'
    BY <1>1, <2>2, <2>3, Balance, SizesPrimed DEF Tokens, TokensSignalled, SemaphoreTyped
  <2> QED  BY <1>1, <1>2, <2>4, <2>5 DEF SemaphoreInv, TokensStep
<1>6. CASE ~(m_sema > 0)
  <2>1. Goto(t, "asleep")
    BY <1>6 DEF SemaphoreInv, SemaphoreTyped, LocalsOfPc, KernelWait, Goto, First
  <2>2. /\ Cardinality(Pending') = Cardinality(Pending) + (IF "asleep" \in CountedOut THEN 1 ELSE 0)
            - (IF pc[t] \in CountedOut THEN 1 ELSE 0)
        /\ m_count' \in Int /\ m_sema' \in Nat
    BY <1>1, <2>1, PendingMoves DEF SemaphoreInv, SemaphoreTyped, Threads
  <2>3. PostsMatchWaiters' /\ TokensSignalled' /\ TokensStep
    BY <1>3, <1>6, <2>2, Balance DEF SemaphoreInv, LocalsOfPc, CountedOut, KernelWait, Goto,
       First, Lower, PostsMatchWaiters, TokensSignalled, Tokens, TokensStep
  <2> QED  BY <1>1, <1>2, <2>3 DEF SemaphoreInv
<1> QED  BY <1>4, <1>5, <1>6 DEF KernelWait, Goto, First

LEMMA WakeStep ==
  ASSUME SemaphoreInv, NEW t \in Waiters, Wake(t)
  PROVE  SemaphoreInv' /\ TokensStep
<1> USE ConstantNumbers
<1>1. SemaphoreTyped'
  BY DEF SemaphoreInv, SemaphoreTyped, Wake, Goto, First, Threads, Lower
<1>2. LocalsOfPc'
  BY DEF SemaphoreInv, SemaphoreTyped, LocalsOfPc, CountedOut, Wake, Goto, First, Threads, Lower
<1>3. Cardinality(Owing') = Cardinality(Owing)
  BY OwingSame DEF Wake, Goto, First
<1>4. CASE max[t] > 1
  <2>1. Goto(t, "try")
    BY <1>4 DEF SemaphoreInv, SemaphoreTyped, LocalsOfPc, Wake, Goto, First
  <2>2. /\ Cardinality(Pending') = Cardinality(Pending) + (IF "try" \in CountedOut THEN 1 ELSE 0)
            - (IF pc[t] \in CountedOut THEN 1 ELSE 0)
        /\ m_count' \in Int /\ m_sema' \in Nat
    BY <1>1, <2>1, PendingMoves DEF SemaphoreInv, SemaphoreTyped, Threads
  <2>3. /\ Cardinality(Pending') + m_count' = Cardinality(Pending) + m_count - 1
        /\ Cardinality(Pending) + m_count > 0 /\ UNCHANGED signalled
    BY <1>4, <2>2, Balance DEF SemaphoreInv, LocalsOfPc, CountedOut, Wake, Goto, First, Lower
  <2>4. PostsMatchWaiters'
    BY <1>3, <1>4, <2>2, Balance DEF SemaphoreInv, LocalsOfPc, CountedOut, Wake, Goto,
       First, Lower, PostsMatchWaiters
  <2>5. Tokens' = Tokens - 1 /\ 1 \in 1..Tokens /\ TokensSignalled'
    BY <1>1, <2>2, <2>3, Balance, SizesPrimed DEF Tokens, TokensSignalled, SemaphoreTyped
  <2> QED  BY <1>1, <1>2, <2>4, <2>5 DEF SemaphoreInv, TokensStep
<1>5. CASE ~(max[t] > 1)
  <2>1. Goto(t, "idle")
    BY <1>5 DEF SemaphoreInv, SemaphoreTyped, LocalsOfPc, Wake, Goto, First
  <2>2. /\ Cardinality(Pending') = Cardinality(Pending) + (IF "idle" \in CountedOut THEN 1 ELSE 0)
            - (IF pc[t] \in CountedOut THEN 1 ELSE 0)
        /\ m_count' \in Int /\ m_sema' \in Nat
    BY <1>1, <2>1, PendingMoves DEF SemaphoreInv, SemaphoreTyped, Threads
  <2>3. /\ Cardinality(Pending') + m_count' = Cardinality(Pending) + m_count - 1
        /\ Cardinality(Pending) + m_count > 0 /\ UNCHANGED signalled
    BY <1>5, <2>2, Balance DEF SemaphoreInv, LocalsOfPc, CountedOut, Wake, Goto, First, Lower
  <2>4. PostsMatchWaiters'
    BY <1>3, <1>5, <2>2, Balance DEF SemaphoreInv, LocalsOfPc, CountedOut, Wake, Goto,
       First, Lower, PostsMatchWaiters
  <2>5. Tokens' = Tokens - 1 /\ 1 \in 1..Tokens /\ TokensSignalled'
    BY <1>1, <2>2, <2>3, Balance, SizesPrimed DEF Tokens, TokensSignalled, SemaphoreTyped
  <2> QED  BY <1>1, <1>2, <2>4, <2>5 DEF SemaphoreInv, TokensStep
<1> QED  BY <1>4, <1>5 DEF Wake, Goto, First

LEMMA TimeOutStep ==
  ASSUME SemaphoreInv, NEW t \in Waiters, TimeOut(t)
  PROVE  SemaphoreInv' /\ TokensStep
<1> USE ConstantNumbers
<1>1. SemaphoreTyped'
  BY DEF SemaphoreInv, SemaphoreTyped, TimeOut, Goto, Threads, Lower
<1>2. LocalsOfPc'
  BY DEF SemaphoreInv, SemaphoreTyped, LocalsOfPc, CountedOut, TimeOut, Goto, Threads, Lower
<1>3. Cardinality(Owing') = Cardinality(Owing)
  BY OwingSame DEF TimeOut, Goto
<1>4. Goto(t, "adjust")
  BY DEF SemaphoreInv, SemaphoreTyped, LocalsOfPc, TimeOut, Goto
<1>5. /\ Cardinality(Pending') = Cardinality(Pending) + (IF "adjust" \in CountedOut THEN 1 ELSE 0)
        - (IF pc[t] \in CountedOut THEN 1 ELSE 0)
      /\ m_count' \in Int /\ m_sema' \in Nat
  BY <1>1, <1>4, PendingMoves DEF SemaphoreInv, SemaphoreTyped, Threads
<1>6. PostsMatchWaiters' /\ TokensSignalled' /\ TokensStep
  BY <1>3, <1>4, <1>5, Balance DEF SemaphoreInv, LocalsOfPc, CountedOut, TimeOut, Goto,
     Lower, PostsMatchWaiters, TokensSignalled, Tokens, TokensStep
<1> QED  BY <1>1, <1>2, <1>6 DEF SemaphoreInv

LEMMA AdjustStep ==
  ASSUME SemaphoreInv, NEW t \in Waiters, Adjust(t)
  PROVE  SemaphoreInv' /\ TokensStep
<1> USE ConstantNumbers
<1>1. SemaphoreTyped'
  BY DEF SemaphoreInv, SemaphoreTyped, Adjust, Goto, Read, Threads, Lower
<1>2. LocalsOfPc'
  BY DEF SemaphoreInv, SemaphoreTyped, LocalsOfPc, CountedOut, Adjust, Goto, Read, Threads, Lower
<1>3. Cardinality(Owing') = Cardinality(Owing)
  BY OwingSame DEF Adjust, Goto, Read
<1>4. CASE m_count >= 0
  <2>1. Goto(t, "tryKernel")
    BY <1>4 DEF SemaphoreInv, SemaphoreTyped, LocalsOfPc, Adjust, Goto, Read
  <2>2. /\ Cardinality(Pending') = Cardinality(Pending) + (IF "tryKernel" \in CountedOut THEN 1 ELSE 0)
            - (IF pc[t] \in CountedOut THEN 1 ELSE 0)
        /\ m_count' \in Int /\ m_sema' \in Nat
    BY <1>1, <2>1, PendingMoves DEF SemaphoreInv, SemaphoreTyped, Threads
  <2>3. PostsMatchWaiters' /\ TokensSignalled' /\ TokensStep
    BY <1>3, <1>4, <2>2, Balance DEF SemaphoreInv, LocalsOfPc, CountedOut, Adjust, Goto,
       Read, Lower, PostsMatchWaiters, TokensSignalled, Tokens, TokensStep
  <2> QED  BY <1>1, <1>2, <2>3 DEF SemaphoreInv
<1>5. CASE ~(m_count >= 0)
  <2>1. Goto(t, "restore")
    BY <1>5 DEF SemaphoreInv, SemaphoreTyped, LocalsOfPc, Adjust, Goto, Read
  <2>2. /\ Cardinality(Pending') = Cardinality(Pending) + (IF "restore" \in CountedOut THEN 1 ELSE 0)
            - (IF pc[t] \in CountedOut THEN 1 ELSE 0)
        /\ m_count' \in Int /\ m_sema' \in Nat
    BY <1>1, <2>1, PendingMoves DEF SemaphoreInv, SemaphoreTyped, Threads
  <2>3. PostsMatchWaiters' /\ TokensSignalled' /\ TokensStep
    BY <1>3, <1>5, <2>2, Balance DEF SemaphoreInv, LocalsOfPc, CountedOut, Adjust, Goto,
       Read, Lower, PostsMatchWaiters, TokensSignalled, Tokens, TokensStep
  <2> QED  BY <1>1, <1>2, <2>3 DEF SemaphoreInv
<1> QED  BY <1>4, <1>5 DEF Adjust, Goto, Read

LEMMA TryKernelStep ==
  ASSUME SemaphoreInv, NEW t \in Waiters, TryKernel(t)
  PROVE  SemaphoreInv' /\ TokensStep
<1> USE ConstantNumbers
<1>1. SemaphoreTyped'
  BY DEF SemaphoreInv, SemaphoreTyped, TryKernel, Goto, First, Threads, Lower
<1>2. LocalsOfPc'
  BY DEF SemaphoreInv, SemaphoreTyped, LocalsOfPc, CountedOut, TryKernel, Goto, First, Threads, Lower
<1>3. Cardinality(Owing') = Cardinality(Owing)
  BY OwingSame DEF TryKernel, Goto, First
<1>4. CASE m_sema > 0 /\ max[t] > 1
  <2>1. Goto(t, "try")
    BY <1>4 DEF SemaphoreInv, SemaphoreTyped, LocalsOfPc, TryKernel, Goto, First
  <2>2. /\ Cardinality(Pending') = Cardinality(Pending) + (IF "try" \in CountedOut THEN 1 ELSE 0)
            - (IF pc[t] \in CountedOut THEN 1 ELSE 0)
        /\ m_count' \in Int /\ m_sema' \in Nat
    BY <1>1, <2>1, PendingMoves DEF SemaphoreInv, SemaphoreTyped, Threads
  <2>3. /\ Cardinality(Pending') + m_count' = Cardinality(Pending) + m_count - 1
        /\ Cardinality(Pending) + m_count > 0 /\ UNCHANGED signalled
    BY <1>4, <2>2, Balance DEF SemaphoreInv, LocalsOfPc, CountedOut, TryKernel, Goto, First, Lower
  <2>4. PostsMatchWaiters'
    BY <1>3, <1>4, <2>2, Balance DEF SemaphoreInv, LocalsOfPc, CountedOut, TryKernel, Goto,
       First, Lower, PostsMatchWaiters
  <2>5. Tokens' = Tokens - 1 /\ 1 \in 1..Tokens /\ TokensSignalled'
    BY <1>1, <2>2, <2>3, Balance, SizesPrimed DEF Tokens, TokensSignalled, SemaphoreTyped
  <2> QED  BY <1>1, <1>2, <2>4, <2>5 DEF SemaphoreInv, TokensStep
<1>5. CASE m_sema > 0 /\ ~(max[t] > 1)
  <2>1. Goto(t, "idle")
    BY <1>5 DEF SemaphoreInv, SemaphoreTyped, LocalsOfPc, TryKernel, Goto, First
  <2>2. /\ Cardinality(Pending') = Cardinality(Pending) + (IF "idle" \in CountedOut THEN 1 ELSE 0)
            - (IF pc[t] \in CountedOut THEN 1 ELSE 0)
        /\ m_count' \in Int /\ m_sema' \in Nat
    BY <1>1, <2>1, PendingMoves DEF SemaphoreInv, SemaphoreTyped, Threads
  <2>3. /\ Cardinality(Pending') + m_count' = Cardinality(Pending) + m_count - 1
        /\ Cardinality(Pending) + m_count > 0 /\ UNCHANGED signalled
    BY <1>5, <2>2, Balance DEF SemaphoreInv, LocalsOfPc, CountedOut, TryKernel, Goto, First, Lower
  <2>4. PostsMatchWaiters'
    BY <1>3, <1>5, <2>2, Balance DEF SemaphoreInv, LocalsOfPc, CountedOut, TryKernel, Goto,
       First, Lower, PostsMatchWaiters
  <2>5. Tokens' = Tokens - 1 /\ 1 \in 1..Tokens /\ TokensSignalled'
    BY <1>1, <2>2, <2>3, Balance, SizesPrimed DEF Tokens, TokensSignalled, SemaphoreTyped
  <2> QED  BY <1>1, <1>2, <2>4, <2>5 DEF SemaphoreInv, TokensStep
<1>6. CASE ~(m_sema > 0)
  <2>1. Goto(t, "adjust")
    BY <1>6 DEF SemaphoreInv, SemaphoreTyped, LocalsOfPc, TryKernel, Goto, First
  <2>2. /\ Cardinality(Pending') = Cardinality(Pending) + (IF "adjust" \in CountedOut THEN 1 ELSE 0)
            - (IF pc[t] \in CountedOut THEN 1 ELSE 0)
        /\ m_count' \in Int /\ m_sema' \in Nat
    BY <1>1, <2>1, PendingMoves DEF SemaphoreInv, SemaphoreTyped, Threads
  <2>3. PostsMatchWaiters' /\ TokensSignalled' /\ TokensStep
    BY <1>3, <1>6, <2>2, Balance DEF SemaphoreInv, LocalsOfPc, CountedOut, TryKernel, Goto,
       First, Lower, PostsMatchWaiters, TokensSignalled, Tokens, TokensStep
  <2> QED  BY <1>1, <1>2, <2>3 DEF SemaphoreInv
<1> QED  BY <1>4, <1>5, <1>6 DEF TryKernel, Goto, First

LEMMA RestoreStep ==
  ASSUME SemaphoreInv, NEW t \in Waiters, Restore(t)
  PROVE  SemaphoreInv' /\ TokensStep
<1> USE ConstantNumbers
<1>1. SemaphoreTyped'
  BY DEF SemaphoreInv, SemaphoreTyped, Restore, Goto, Threads, Lower
<1>2. LocalsOfPc'
  BY DEF SemaphoreInv, SemaphoreTyped, LocalsOfPc, CountedOut, Restore, Goto, Threads, Lower
<1>3. Cardinality(Owing') = Cardinality(Owing)
  BY OwingSame DEF Restore, Goto
<1>4. CASE m_count = oldCount[t]
  <2>1. Goto(t, "idle")
    BY <1>4 DEF SemaphoreInv, SemaphoreTyped, LocalsOfPc, Restore, Goto
  <2>2. /\ Cardinality(Pending') = Cardinality(Pending) + (IF "idle" \in CountedOut THEN 1 ELSE 0)
            - (IF pc[t] \in CountedOut THEN 1 ELSE 0)
        /\ m_count' \in Int /\ m_sema' \in Nat
    BY <1>1, <2>1, PendingMoves DEF SemaphoreInv, SemaphoreTyped, Threads
  <2>3. PostsMatchWaiters' /\ TokensSignalled' /\ TokensStep
    BY <1>3, <1>4, <2>2, Balance DEF SemaphoreInv, LocalsOfPc, CountedOut, Restore, Goto,
       Lower, PostsMatchWaiters, TokensSignalled, Tokens, TokensStep
  <2> QED  BY <1>1, <1>2, <2>3 DEF SemaphoreInv
<1>5. CASE m_count # oldCount[t]
  <2>1. Goto(t, "adjust")
    BY <1>5 DEF SemaphoreInv, SemaphoreTyped, LocalsOfPc, Restore, Goto
  <2>2. /\ Cardinality(Pending') = Cardinality(Pending) + (IF "adjust" \in CountedOut THEN 1 ELSE 0)
            - (IF pc[t] \in CountedOut THEN 1 ELSE 0)
        /\ m_count' \in Int /\ m_sema' \in Nat
    BY <1>1, <2>1, PendingMoves DEF SemaphoreInv, SemaphoreTyped, Threads
  <2>3. PostsMatchWaiters' /\ TokensSignalled' /\ TokensStep
    BY <1>3, <1>5, <2>2, Balance DEF SemaphoreInv, LocalsOfPc, CountedOut, Restore, Goto,
       Lower, PostsMatchWaiters, TokensSignalled, Tokens, TokensStep
  <2> QED  BY <1>1, <1>2, <2>3 DEF SemaphoreInv
<1> QED  BY <1>4, <1>5 DEF Restore, Goto

-----------------------------------------------------------------------------
(* The steps of a signal.                                                  *)

LEMMA SignalStep ==
  ASSUME SemaphoreInv, NEW t \in Signallers, Signal(t)
  PROVE  SemaphoreInv' /\ TokensStep
<1> USE ConstantNumbers
<1>1. PICK n \in 1..(MaxTokens - signalled) :
        /\ m_count' = m_count + n
        /\ toRelease' = [toRelease EXCEPT ![t] = Owed(n)]
        /\ signalled' = signalled + n
        /\ Goto(t, IF Owed(n) > 0 THEN "post" ELSE "idle")
  BY DEF Signal
<1>2. /\ n \in Nat \ {0} /\ Owed(n) \in 0..MaxTokens /\ signalled + n <= MaxTokens
      /\ m_count >= 0 => Owed(n) = 0
      /\ m_count < 0 => Owed(n) = (IF -m_count < n THEN -m_count ELSE n)
  BY <1>1, Balance DEF Owed, Lower
<1>3. toRelease[t] = 0 /\ pc[t] = "idle"
  BY DEF SemaphoreInv, SemaphoreTyped, LocalsOfPc, Signal
<1>4. Cardinality(Owing') = Cardinality(Owing) + Owed(n)
  BY <1>1, <1>2, <1>3, OwingStarts DEF SemaphoreInv
<1>5. Cardinality(Pending') = Cardinality(Pending)
  <2>1. CASE Owed(n) > 0
    BY <1>1, <1>3, <2>1, PendingMoves, Balance DEF SemaphoreInv, CountedOut, Threads
  <2>2. CASE ~(Owed(n) > 0)
    BY <1>1, <1>3, <2>2, PendingMoves, Balance DEF SemaphoreInv, CountedOut, Threads
  <2> QED  BY <2>1, <2>2
<1>6. SemaphoreTyped'
  BY <1>1, <1>2 DEF SemaphoreInv, SemaphoreTyped, Signal, Goto, Threads
<1>7. LocalsOfPc'
  BY <1>1, <1>2, <1>3 DEF SemaphoreInv, SemaphoreTyped, LocalsOfPc, CountedOut, Signal, Goto, Threads
<1>8. PostsMatchWaiters'
  BY <1>1, <1>2, <1>4, <1>5, Balance DEF PostsMatchWaiters, Signal
<1>9. TokensSignalled' /\ Tokens' = Tokens + n
  BY <1>1, <1>2, <1>5, Balance DEF TokensSignalled, Tokens
<1> QED  BY <1>2, <1>6, <1>7, <1>8, <1>9 DEF SemaphoreInv, TokensStep

LEMMA PostStep ==
  ASSUME SemaphoreInv, NEW t \in Signallers, Post(t)
  PROVE  SemaphoreInv' /\ TokensStep
<1> USE ConstantNumbers
<1>1. toRelease[t] \in 1..MaxTokens
  BY DEF SemaphoreInv, SemaphoreTyped, LocalsOfPc, Post
<1>2. Cardinality(Owing') = Cardinality(Owing) - 1
  <2>1. SemaphoreTyped /\ toRelease[t] > 0 /\ toRelease' = [toRelease EXCEPT ![t] = @ - 1]
    BY <1>1 DEF SemaphoreInv, Post
  <2> QED  BY <2>1, OwingPosted
<1>3. Cardinality(Pending') = Cardinality(Pending)
  <2>1. CASE toRelease[t] > 1
    BY <2>1, PendingMoves, Balance DEF SemaphoreInv, CountedOut, Threads, Post
  <2>2. CASE ~(toRelease[t] > 1)
    BY <2>2, PendingMoves, Balance DEF SemaphoreInv, CountedOut, Threads, Post
  <2> QED  BY <2>1, <2>2
<1>4. SemaphoreTyped'
  BY <1>1 DEF SemaphoreInv, SemaphoreTyped, Post, Goto, Threads
<1>5. LocalsOfPc'
  BY <1>1 DEF SemaphoreInv, SemaphoreTyped, LocalsOfPc, CountedOut, Post, Goto, Threads
<1>6. PostsMatchWaiters' /\ TokensSignalled' /\ Tokens' = Tokens
  BY <1>2, <1>3, Balance DEF PostsMatchWaiters, TokensSignalled, Tokens, Post
<1> QED  BY <1>4, <1>5, <1>6 DEF SemaphoreInv, TokensStep

-----------------------------------------------------------------------------
(* The invariant, and what follows from it.                                *)

LEMMA StartInv == Init => SemaphoreInv /\ Tokens = 0
<1> SUFFICES ASSUME Init PROVE SemaphoreInv /\ Tokens = 0
  OBVIOUS
<1> USE ConstantNumbers
<1>1. SemaphoreTyped
  BY DEF Init, SemaphoreTyped, Threads
<1>2. LocalsOfPc
  BY DEF Init, LocalsOfPc, CountedOut, Threads
<1>3. Pending = {} /\ Owing = {}
  BY DEF Init, Pending, Owing, Threads
<1>4. Cardinality(Pending) = 0 /\ Cardinality(Owing) = 0
  BY <1>3, FS_EmptySet
<1> QED
  BY <1>1, <1>2, <1>4 DEF Init, SemaphoreInv, PostsMatchWaiters, TokensSignalled, Tokens

LEMMA EveryStep ==
  ASSUME SemaphoreInv, [Next]_semaphoreVars
  PROVE  SemaphoreInv' /\ TokensStep
<1>1. ASSUME NEW t \in Waiters, Wait(t) \/ Waiting(t) \/ TimeOut(t)
      PROVE  SemaphoreInv' /\ TokensStep
  BY <1>1, WaitStep, TryStep, TryExchangeStep, SpinStep, SpinExchangeStep,
     FetchSubStep, KernelWaitStep, WakeStep, TimeOutStep, AdjustStep,
     TryKernelStep, RestoreStep DEF Waiting
<1>2. ASSUME NEW t \in Signallers, Signal(t) \/ Post(t)
      PROVE  SemaphoreInv' /\ TokensStep
  BY <1>2, SignalStep, PostStep
<1>3. CASE UNCHANGED semaphoreVars
  <2>1. Pending' = Pending /\ Owing' = Owing
    BY <1>3 DEF semaphoreVars, Pending, Owing
  <2>2. SemaphoreTyped' /\ LocalsOfPc'
    BY <1>3 DEF SemaphoreInv, SemaphoreTyped, LocalsOfPc, semaphoreVars
  <2>3. PostsMatchWaiters' /\ TokensSignalled' /\ Tokens' = Tokens
    BY <1>3, <2>1 DEF SemaphoreInv, PostsMatchWaiters, TokensSignalled, Tokens, semaphoreVars
  <2> QED  BY <2>2, <2>3 DEF SemaphoreInv, TokensStep
<1> QED  BY <1>1, <1>2, <1>3 DEF Next

LEMMA SemaphoreInvariance == Spec => []SemaphoreInv
<1>1. Init => SemaphoreInv
  BY StartInv
<1>2. SemaphoreInv /\ [Next]_semaphoreVars => SemaphoreInv'
  BY EveryStep
<1> QED  BY <1>1, <1>2, PTL DEF Spec

LEMMA InvKept == SemaphoreInv => SemaphoreKept
<1> SUFFICES ASSUME SemaphoreInv PROVE SemaphoreKept
  OBVIOUS
<1> USE ConstantNumbers
<1>1. m_count \in (-Cardinality(Waiters))..MaxTokens /\ m_sema \in Nat
  BY Balance, Sizes
<1>2. \A t \in Waiters : result[t] \in 0..max[t] /\ spin[t] \in 0..MaxSpins
  BY DEF SemaphoreInv, SemaphoreTyped, LocalsOfPc
<1> QED  BY <1>1, <1>2 DEF SemaphoreInv, SemaphoreKept, TypeOK, SemaphoreTyped, LocalsOfPc

(* The kernel semaphore has, or will have from a signal on its way, just   *)
(* one post for each thread that waits at it and that the counter does not *)
(* show any more, also when threads time out and take their wait back.     *)
THEOREM PostsNeitherLostNorLeft == Spec => []SemaphoreKept
BY SemaphoreInvariance, InvKept, PTL

(* waitMany and signal are those of a semaphore: a wait takes only tokens  *)
(* that are there, whether from the counter, from the kernel semaphore or  *)
(* after its timeout, and taking a wait back changes nothing.              *)
THEOREM SemaphoreImplemented == Spec => ImplementsSemaphore
<1>1. Init => Abstract!Init
  BY StartInv DEF Abstract!Init, Tokens
<1>2. SemaphoreInv /\ [Next]_semaphoreVars =>
        [Abstract!Next]_(m_count + Cardinality(Pending))
  <2> SUFFICES ASSUME SemaphoreInv, [Next]_semaphoreVars, Tokens' # Tokens
               PROVE  Abstract!Next
    BY DEF Tokens
  <2>1. Tokens \in Nat /\ TokensStep
    BY Balance, EveryStep
  <2>2. CASE \E k \in 1..Tokens : Tokens' = Tokens - k
    <3>1. PICK k \in 1..Tokens : Tokens' = Tokens - k
      BY <2>2
    <3>2. k \in 1..(Tokens + Tokens') /\ k <= Tokens
      BY <2>1, <3>1
    <3> QED  BY <3>1, <3>2 DEF Abstract!Next, Abstract!Acquire, Tokens
  <2>3. CASE \E k \in Nat \ {0} : Tokens' = Tokens + k
    <3>1. PICK k \in Nat \ {0} : Tokens' = Tokens + k
      BY <2>3
    <3>2. k \in 1..(Tokens + Tokens')
      BY <2>1, <3>1
    <3> QED  BY <3>1, <3>2 DEF Abstract!Next, Abstract!Signal, Tokens
  <2> QED  BY <2>1, <2>2, <2>3 DEF TokensStep
<1> QED  BY <1>1, <1>2, SemaphoreInvariance, PTL DEF Spec, ImplementsSemaphore, Abstract!Spec

-----------------------------------------------------------------------------
(***************************************************************************)
(* FreeList: no block is lost, and none is on the list while it is in use. *)
(***************************************************************************)

(* The inductive invariant behind PoolKept.                                *)

NodeOrNull == Nodes \cup {Null}
PutPcs == {"putLoad", "putNext", "putRefs", "putHead", "putAgain"}
PoolPcs == {"idle", "head", "refs", "reference", "next", "take", "drop", "release"} \cup PutPcs
Locals ==
  [pc : PoolPcs, head : NodeOrNull, prevHead : NodeOrNull, refs : Nat, next : NodeOrNull,
   node : NodeOrNull, top : NodeOrNull, getting : BOOLEAN]

PoolTyped ==
  /\ freeListHead \in NodeOrNull
  /\ freeListRefs \in [Nodes -> Nat] /\ freeListNext \in [Nodes -> NodeOrNull]
  /\ inPool \in [PoolThreads -> Locals] /\ owned \in [PoolThreads -> SUBSET Nodes]

(* What a location says of the locals: which of them name a node, and that *)
(* a next pointer that was read or written is what it was.                 *)
LocalOk(r) ==
  /\ r.pc \in PutPcs <=> r.node # Null
  /\ r.pc \in {"refs", "reference", "next", "take", "drop"} => r.head # Null
  /\ r.pc = "release" => r.prevHead # Null
  /\ r.pc = "reference" => r.refs % SHOULD_BE_ON_FREELIST # 0
  /\ r.pc = "take" => r.next = freeListNext[r.head]
  /\ r.pc \in {"putRefs", "putHead"} => freeListNext[r.node] = r.top

(* A thread with the locals r refers to the node m: it holds a reference,  *)
(* is putting it on the list, with the bit set or with the list's          *)
(* reference, or has it taken off and not dropped the references yet.      *)
Holds(r, m) ==
  \/ r.pc \in {"next", "take", "drop"} /\ r.head = m
  \/ r.pc = "release" /\ r.prevHead = m
PutsMarked(r, m) == r.pc \in {"putLoad", "putNext", "putRefs"} /\ r.node = m
PutsCounted(r, m) == r.pc \in {"putHead", "putAgain"} /\ r.node = m
Drops(r, m) == r.pc = "drop" /\ r.head = m

IsOwned(m) == \E t \in PoolThreads : m \in owned[t]

(* A node that is nobody's, is not on the list and is not being put there  *)
(* by a thread that has given it the list's reference.                     *)
Awaited(m) ==
  ~IsOwned(m) /\ m \notin OnList /\ \A t \in PoolThreads : ~PutsCounted(inPool[t], m)

(* Each node is in one place, and its count is right: the references, and  *)
(* the bit just when the node is still to be put on the list.              *)
NodeKept(m) ==
  /\ \A t, u \in PoolThreads : m \in owned[t] /\ m \in owned[u] => t = u
  /\ IsOwned(m) => m \notin OnList
  /\ \A t \in PoolThreads :
       /\ PutsMarked(inPool[t], m) \/ PutsCounted(inPool[t], m) =>
            ~IsOwned(m) /\ m \notin OnList
       /\ PutsMarked(inPool[t], m) => HeldBy(m) = {}
       /\ Drops(inPool[t], m) => m \in owned[t]
  /\ \A t, u \in PoolThreads : inPool[t].node = m /\ inPool[u].node = m => t = u
  /\ Awaited(m) /\ (\A t \in PoolThreads : ~PutsMarked(inPool[t], m)) => HeldBy(m) # {}
  /\ freeListRefs[m] = Cardinality(HeldBy(m)) + (IF HeldByList(m) THEN 1 ELSE 0)
                         + (IF Awaited(m) THEN SHOULD_BE_ON_FREELIST ELSE 0)

(* The list is one: its pointers do not run in a circle.                   *)
ListKept ==
  \E L : \E k \in Nat :
    /\ IsStack(L, k, freeListHead, freeListNext, Null)
    /\ Members(L, k) \subseteq Nodes

PoolInv ==
  /\ PoolTyped /\ ListKept
  /\ \A t \in PoolThreads : LocalOk(inPool[t])
  /\ \A m \in Nodes : NodeKept(m)

-----------------------------------------------------------------------------
(* Lemmas.                                                                 *)

LEMMA PoolNumbers ==
  /\ IsFiniteSet(PoolThreads) /\ IsFiniteSet(Nodes) /\ Null \notin Nodes
  /\ Cardinality(PoolThreads) \in Nat /\ Cardinality(Nodes) \in Nat
  /\ SHOULD_BE_ON_FREELIST \in Nat /\ SHOULD_BE_ON_FREELIST > Cardinality(PoolThreads) + 1
BY PoolAssumption, FS_CardinalityType

LEMMA HoldersCounted ==
  ASSUME NEW m
  PROVE  /\ IsFiniteSet(HeldBy(m)) /\ Cardinality(HeldBy(m)) \in Nat
         /\ Cardinality(HeldBy(m)) <= Cardinality(PoolThreads)
         /\ Cardinality(HeldBy(m)) = 0 <=> HeldBy(m) = {}
         /\ HeldBy(m) = {t \in PoolThreads : Holds(inPool[t], m)}
<1>1. HeldBy(m) \in SUBSET PoolThreads
  BY DEF HeldBy
<1>2. IsFiniteSet(HeldBy(m)) /\ Cardinality(HeldBy(m)) <= Cardinality(PoolThreads)
  BY <1>1, PoolNumbers, FS_Subset
<1>3. HeldBy(m) = {t \in PoolThreads : Holds(inPool[t], m)}
  BY DEF HeldBy, Holds, PoolAt
<1> QED  BY <1>2, <1>3, FS_CardinalityType, FS_EmptySet

LEMMA ListedBy ==
  ASSUME NEW m
  PROVE  /\ HeldByList(m) <=>
              \/ m \in OnList
              \/ \E t \in PoolThreads : PutsCounted(inPool[t], m) \/ Drops(inPool[t], m)
         /\ HeldByList(m)' <=>
              \/ m \in OnList'
              \/ \E t \in PoolThreads : PutsCounted(inPool'[t], m) \/ Drops(inPool'[t], m)
BY DEF HeldByList, PutsCounted, Drops, PoolAt

(* The nodes on the list are those of its stack.                           *)
LEMMA StackOnList ==
  ASSUME NEW L, NEW k \in Nat, IsStack(L, k, freeListHead, freeListNext, Null),
         Members(L, k) \subseteq Nodes
  PROVE  OnList = Members(L, k)
BY PoolNumbers, StackLength, LinkedIsStack DEF OnList

LEMMA StackOnListPrimed ==
  ASSUME NEW L, NEW k \in Nat, IsStack(L, k, freeListHead', freeListNext', Null),
         Members(L, k) \subseteq Nodes
  PROVE  OnList' = Members(L, k)
<1>1. k <= Cardinality(Nodes)
  BY PoolNumbers, StackLength
<1> QED  BY <1>1, PoolNumbers, LinkedIsStack DEF OnList

(* How a thread's references to a node change with its locals.             *)
LEMMA HoldersChange ==
  ASSUME PoolTyped, NEW t \in PoolThreads, NEW r, inPool' = [inPool EXCEPT ![t] = r], NEW m
  PROVE  /\ Holds(r, m) => HeldBy(m)' = HeldBy(m) \cup {t}
         /\ ~Holds(r, m) => HeldBy(m)' = HeldBy(m) \ {t}
         /\ Cardinality(HeldBy(m)') = Cardinality(HeldBy(m)) + (IF Holds(r, m) THEN 1 ELSE 0)
                                        - (IF Holds(inPool[t], m) THEN 1 ELSE 0)
<1>1. \A u \in PoolThreads : inPool'[u] = IF u = t THEN r ELSE inPool[u]
  BY DEF PoolTyped
<1>2. HeldBy(m)' = {u \in PoolThreads : Holds(inPool'[u], m)}
  BY DEF HeldBy, Holds, PoolAt
<1>3. t \in HeldBy(m) <=> Holds(inPool[t], m)
  BY HoldersCounted
<1>4. CASE Holds(r, m)
  <2>1. HeldBy(m)' = HeldBy(m) \cup {t}
    BY <1>1, <1>2, <1>4, HoldersCounted
  <2>2. Cardinality(HeldBy(m) \cup {t})
          = IF t \in HeldBy(m) THEN Cardinality(HeldBy(m)) ELSE Cardinality(HeldBy(m)) + 1
    BY HoldersCounted, FS_AddElement
  <2> QED  BY <1>3, <1>4, <2>1, <2>2, HoldersCounted
<1>5. CASE ~Holds(r, m)
  <2>1. HeldBy(m)' = HeldBy(m) \ {t}
    BY <1>1, <1>2, <1>5, HoldersCounted
  <2>2. Cardinality(HeldBy(m) \ {t})
          = IF t \in HeldBy(m) THEN Cardinality(HeldBy(m)) - 1 ELSE Cardinality(HeldBy(m))
    BY HoldersCounted, FS_RemoveElement
  <2> QED  BY <1>3, <1>5, <2>1, <2>2, HoldersCounted
<1> QED  BY <1>4, <1>5

LEMMA HoldersSame ==
  ASSUME PoolTyped, NEW t \in PoolThreads, NEW r, inPool' = [inPool EXCEPT ![t] = r], NEW m,
         Holds(r, m) <=> Holds(inPool[t], m)
  PROVE  HeldBy(m)' = HeldBy(m)
<1>1. t \in HeldBy(m) <=> Holds(inPool[t], m)
  BY HoldersCounted
<1>2. HeldBy(m)' = IF Holds(r, m) THEN HeldBy(m) \cup {t} ELSE HeldBy(m) \ {t}
  BY HoldersChange
<1> QED  BY <1>1, <1>2

(* A step of a thread keeps a node whose place and count it leaves alone.  *)
LEMMA NodeUntouched ==
  ASSUME PoolTyped, NEW t \in PoolThreads, NEW r, inPool' = [inPool EXCEPT ![t] = r],
         NEW m \in Nodes, NodeKept(m),
         Holds(r, m) <=> Holds(inPool[t], m), PutsMarked(r, m) <=> PutsMarked(inPool[t], m),
         PutsCounted(r, m) <=> PutsCounted(inPool[t], m), Drops(r, m) <=> Drops(inPool[t], m),
         r.node = m <=> inPool[t].node = m,
         \A u \in PoolThreads : m \in owned[u] <=> m \in owned'[u],
         m \in OnList <=> m \in OnList', freeListRefs'[m] = freeListRefs[m]
  PROVE  NodeKept(m)'
<1>1. \A u \in PoolThreads : inPool'[u] = IF u = t THEN r ELSE inPool[u]
  BY DEF PoolTyped
<1>2. \A u \in PoolThreads :
        /\ Holds(inPool'[u], m) <=> Holds(inPool[u], m)
        /\ PutsMarked(inPool'[u], m) <=> PutsMarked(inPool[u], m)
        /\ PutsCounted(inPool'[u], m) <=> PutsCounted(inPool[u], m)
        /\ Drops(inPool'[u], m) <=> Drops(inPool[u], m)
        /\ inPool'[u].node = m <=> inPool[u].node = m
  BY <1>1
<1>3. HeldBy(m)' = HeldBy(m)
  BY <1>2, HoldersCounted DEF HeldBy, Holds, PoolAt
<1>4. (HeldByList(m)' <=> HeldByList(m)) /\ (Awaited(m)' <=> Awaited(m)) /\ (IsOwned(m)' <=> IsOwned(m))
  BY <1>2, ListedBy DEF Awaited, IsOwned
<1>5. /\ \A u, v \in PoolThreads : m \in owned'[u] /\ m \in owned'[v] => u = v
      /\ IsOwned(m)' => m \notin OnList'
      /\ \A u, v \in PoolThreads : inPool'[u].node = m /\ inPool'[v].node = m => u = v
  BY <1>2, <1>4 DEF NodeKept
<1>6. \A u \in PoolThreads :
        /\ PutsMarked(inPool'[u], m) \/ PutsCounted(inPool'[u], m) =>
             ~IsOwned(m)' /\ m \notin OnList'
        /\ PutsMarked(inPool'[u], m) => HeldBy(m)' = {}
        /\ Drops(inPool'[u], m) => m \in owned'[u]
  BY <1>2, <1>3, <1>4 DEF NodeKept
<1>7. Awaited(m)' /\ (\A u \in PoolThreads : ~PutsMarked(inPool'[u], m)) => HeldBy(m)' # {}
  BY <1>2, <1>3, <1>4 DEF NodeKept
<1>8. freeListRefs'[m] = Cardinality(HeldBy(m)') + (IF HeldByList(m)' THEN 1 ELSE 0)
                         + (IF Awaited(m)' THEN SHOULD_BE_ON_FREELIST ELSE 0)
  BY <1>3, <1>4 DEF NodeKept
<1> QED  BY <1>5, <1>6, <1>7, <1>8 DEF NodeKept, PutsMarked, PutsCounted, Drops

(* A node that is awaited has not got the list's reference; it is awaited  *)
(* while a thread puts it on the list with the bit set.                    *)
LEMMA AwaitedUnlisted ==
  ASSUME NEW m, NodeKept(m), Awaited(m)
  PROVE  ~HeldByList(m)
BY ListedBy DEF NodeKept, Awaited, IsOwned

LEMMA MarkedAwaited ==
  ASSUME NEW m \in Nodes, NodeKept(m), NEW t \in PoolThreads, PutsMarked(inPool[t], m), PoolTyped
  PROVE  /\ Awaited(m) /\ HeldBy(m) = {} /\ freeListRefs[m] = SHOULD_BE_ON_FREELIST
         /\ ~IsOwned(m) /\ m \notin OnList
<1>1. \A u \in PoolThreads : ~PutsCounted(inPool[u], m)
  BY DEF NodeKept, PutsMarked, PutsCounted
<1>2. Awaited(m)
  BY <1>1 DEF NodeKept, Awaited
<1>3. HeldBy(m) = {} /\ Cardinality(HeldBy(m)) = 0
  BY HoldersCounted DEF NodeKept
<1>4. freeListRefs[m] = 0 + 0 + SHOULD_BE_ON_FREELIST
  BY <1>2, <1>3, AwaitedUnlisted DEF NodeKept
<1> QED  BY <1>1, <1>2, <1>3, <1>4, PoolNumbers DEF NodeKept

LEMMA SameList ==
  ASSUME UNCHANGED <<freeListHead, freeListNext>>
  PROVE  OnList' = OnList /\ (ListKept => ListKept')
BY DEF OnList, ListKept

LEMMA LocalsKept ==
  ASSUME PoolTyped, NEW t \in PoolThreads, NEW r, inPool' = [inPool EXCEPT ![t] = r],
         \A u \in PoolThreads : LocalOk(inPool[u]), LocalOk(r), UNCHANGED freeListNext
  PROVE  (\A u \in PoolThreads : LocalOk(inPool[u]))'
<1>1. \A u \in PoolThreads : inPool'[u] = IF u = t THEN r ELSE inPool[u]
  BY DEF PoolTyped
<1>2. \A u \in PoolThreads : LocalOk(inPool[u])' <=> LocalOk(inPool'[u])
  BY DEF LocalOk
<1> QED  BY <1>1, <1>2

(* Who puts a node on the list names it, and the other way round.          *)
LEMMA Putting ==
  ASSUME NEW r, LocalOk(r), NEW m \in Nodes
  PROVE  r.node = m <=> PutsMarked(r, m) \/ PutsCounted(r, m)
BY PoolNumbers DEF LocalOk, PutsMarked, PutsCounted, PutPcs

-----------------------------------------------------------------------------
(* The steps.                                                              *)

(* A step that changes nothing but locals that do not matter to any node.  *)
LEMMA QuietStep ==
  ASSUME PoolInv, NEW t \in PoolThreads, NEW r \in Locals, inPool' = [inPool EXCEPT ![t] = r],
         LocalOk(r), UNCHANGED <<nodeVars, owned>>,
         \A m \in Nodes :
           /\ Holds(r, m) <=> Holds(inPool[t], m)
           /\ PutsMarked(r, m) <=> PutsMarked(inPool[t], m)
           /\ PutsCounted(r, m) <=> PutsCounted(inPool[t], m)
           /\ Drops(r, m) <=> Drops(inPool[t], m)
  PROVE  PoolInv'
<1>1. PoolTyped /\ ListKept /\ UNCHANGED <<freeListHead, freeListRefs, freeListNext, owned>>
  BY DEF PoolInv, nodeVars
<1>2. PoolTyped'
  BY <1>1 DEF PoolTyped
<1>3. ListKept' /\ OnList' = OnList
  BY <1>1, SameList
<1>4. (\A u \in PoolThreads : LocalOk(inPool[u]))'
  BY <1>1, LocalsKept DEF PoolInv
<1>5. ASSUME NEW m \in Nodes PROVE NodeKept(m)'
  <2>1. r.node = m <=> inPool[t].node = m
    BY Putting DEF PoolInv
  <2> QED  BY <1>1, <1>3, <2>1, NodeUntouched DEF PoolInv
<1> QED  BY <1>2, <1>3, <1>4, <1>5 DEF PoolInv

LEMMA IdleOk == PoolIdle \in Locals /\ LocalOk(PoolIdle)
BY PoolNumbers DEF PoolIdle, Locals, LocalOk, PoolPcs, PutPcs, NodeOrNull

LEMMA PutLoadStep ==
  ASSUME PoolInv, NEW t \in PoolThreads, PutLoad(t)
  PROVE  PoolInv'
<1> DEFINE r == [inPool[t] EXCEPT !.pc = "putNext", !.top = freeListHead]
<1>1. /\ inPool[t] \in Locals /\ LocalOk(inPool[t]) /\ inPool[t].pc = "putLoad"
      /\ freeListHead \in NodeOrNull
      /\ inPool' = [inPool EXCEPT ![t] = r] /\ UNCHANGED <<nodeVars, owned>>
  BY DEF PoolInv, PoolTyped, PutLoad, PoolAt, PoolSet
<1>2. r \in Locals /\ LocalOk(r)
  BY <1>1 DEF Locals, LocalOk, PoolPcs, PutPcs
<1>3. \A m \in Nodes :
           /\ Holds(r, m) <=> Holds(inPool[t], m)
           /\ PutsMarked(r, m) <=> PutsMarked(inPool[t], m)
           /\ PutsCounted(r, m) <=> PutsCounted(inPool[t], m)
           /\ Drops(r, m) <=> Drops(inPool[t], m)
  BY <1>1 DEF Locals, Holds, PutsMarked, PutsCounted, Drops
<1> QED  BY <1>1, <1>2, <1>3, QuietStep

LEMMA LoopStep ==
  ASSUME PoolInv, NEW t \in PoolThreads, TryGet(t) \/ GetHead(t)
  PROVE  PoolInv'
<1>1. /\ inPool[t] \in Locals /\ LocalOk(inPool[t]) /\ inPool[t].pc \in {"idle", "head"}
      /\ freeListHead \in NodeOrNull /\ Loop(t) /\ UNCHANGED <<nodeVars, owned>>
  BY DEF PoolInv, PoolTyped, TryGet, GetHead, PoolAt
<1>2. CASE freeListHead = Null
  <2>1. inPool' = [inPool EXCEPT ![t] = PoolIdle]
    BY <1>1, <1>2 DEF Loop, PoolReturn
  <2>2. \A m \in Nodes :
           /\ Holds(PoolIdle, m) <=> Holds(inPool[t], m)
           /\ PutsMarked(PoolIdle, m) <=> PutsMarked(inPool[t], m)
           /\ PutsCounted(PoolIdle, m) <=> PutsCounted(inPool[t], m)
           /\ Drops(PoolIdle, m) <=> Drops(inPool[t], m)
    BY <1>1 DEF Holds, PutsMarked, PutsCounted, Drops, PoolIdle
  <2> QED  BY <1>1, <2>1, <2>2, IdleOk, QuietStep
<1>3. CASE freeListHead # Null
  <2> DEFINE r == [inPool[t] EXCEPT !.pc = "refs", !.head = freeListHead, !.getting = TRUE]
  <2>1. inPool' = [inPool EXCEPT ![t] = r]
    BY <1>1, <1>3 DEF Loop, PoolSet
  <2>2. r \in Locals /\ LocalOk(r)
    BY <1>1, <1>3 DEF Locals, LocalOk, PoolPcs, PutPcs
  <2>3. \A m \in Nodes :
           /\ Holds(r, m) <=> Holds(inPool[t], m)
           /\ PutsMarked(r, m) <=> PutsMarked(inPool[t], m)
           /\ PutsCounted(r, m) <=> PutsCounted(inPool[t], m)
           /\ Drops(r, m) <=> Drops(inPool[t], m)
    BY <1>1 DEF Locals, Holds, PutsMarked, PutsCounted, Drops
  <2> QED  BY <1>1, <2>1, <2>2, <2>3, QuietStep
<1> QED  BY <1>2, <1>3

LEMMA LoadRefsStep ==
  ASSUME PoolInv, NEW t \in PoolThreads, LoadRefs(t)
  PROVE  PoolInv'
<1> DEFINE n == inPool[t].head
           r == [inPool[t] EXCEPT !.pc = IF References(n) = 0 THEN "head" ELSE "reference",
                                  !.refs = freeListRefs[n]]
<1>1. /\ inPool[t] \in Locals /\ LocalOk(inPool[t]) /\ inPool[t].pc = "refs"
      /\ inPool' = [inPool EXCEPT ![t] = r] /\ UNCHANGED <<nodeVars, owned>>
  BY DEF PoolInv, PoolTyped, LoadRefs, PoolAt, PoolSet
<1>2. n \in Nodes /\ freeListRefs[n] \in Nat
  BY <1>1 DEF PoolInv, PoolTyped, Locals, LocalOk, NodeOrNull
<1>3. r \in Locals /\ LocalOk(r)
  BY <1>1, <1>2 DEF Locals, LocalOk, PoolPcs, PutPcs, References
<1>4. \A m \in Nodes :
           /\ Holds(r, m) <=> Holds(inPool[t], m)
           /\ PutsMarked(r, m) <=> PutsMarked(inPool[t], m)
           /\ PutsCounted(r, m) <=> PutsCounted(inPool[t], m)
           /\ Drops(r, m) <=> Drops(inPool[t], m)
  BY <1>1 DEF Locals, Holds, PutsMarked, PutsCounted, Drops
<1> QED  BY <1>1, <1>3, <1>4, QuietStep

LEMMA ReadNextStep ==
  ASSUME PoolInv, NEW t \in PoolThreads, ReadNext(t)
  PROVE  PoolInv'
<1> DEFINE n == inPool[t].head
           r == [inPool[t] EXCEPT !.pc = "take", !.next = freeListNext[n]]
<1>1. /\ inPool[t] \in Locals /\ LocalOk(inPool[t]) /\ inPool[t].pc = "next"
      /\ inPool' = [inPool EXCEPT ![t] = r] /\ UNCHANGED <<nodeVars, owned>>
  BY DEF PoolInv, PoolTyped, ReadNext, PoolAt, PoolSet
<1>2. n \in Nodes /\ freeListNext[n] \in NodeOrNull
  BY <1>1 DEF PoolInv, PoolTyped, Locals, LocalOk, NodeOrNull
<1>3. r \in Locals /\ LocalOk(r)
  BY <1>1, <1>2 DEF Locals, LocalOk, PoolPcs, PutPcs
<1>4. \A m \in Nodes :
           /\ Holds(r, m) <=> Holds(inPool[t], m)
           /\ PutsMarked(r, m) <=> PutsMarked(inPool[t], m)
           /\ PutsCounted(r, m) <=> PutsCounted(inPool[t], m)
           /\ Drops(r, m) <=> Drops(inPool[t], m)
  BY <1>1 DEF Locals, Holds, PutsMarked, PutsCounted, Drops
<1> QED  BY <1>1, <1>3, <1>4, QuietStep

(* The exchanges that fail.                                                *)
LEMMA PutHeadFails ==
  ASSUME PoolInv, NEW t \in PoolThreads, PutHead(t), freeListHead # inPool[t].top
  PROVE  PoolInv'
<1> DEFINE r == [inPool[t] EXCEPT !.pc = "putAgain", !.top = freeListHead]
<1>1. /\ inPool[t] \in Locals /\ LocalOk(inPool[t]) /\ inPool[t].pc = "putHead"
      /\ freeListHead \in NodeOrNull
      /\ inPool' = [inPool EXCEPT ![t] = r] /\ UNCHANGED <<nodeVars, owned>>
  BY DEF PoolInv, PoolTyped, PutHead, PoolAt, PoolSet, nodeVars
<1>2. r \in Locals /\ LocalOk(r)
  BY <1>1 DEF Locals, LocalOk, PoolPcs, PutPcs
<1>3. \A m \in Nodes :
           /\ Holds(r, m) <=> Holds(inPool[t], m)
           /\ PutsMarked(r, m) <=> PutsMarked(inPool[t], m)
           /\ PutsCounted(r, m) <=> PutsCounted(inPool[t], m)
           /\ Drops(r, m) <=> Drops(inPool[t], m)
  BY <1>1 DEF Locals, Holds, PutsMarked, PutsCounted, Drops
<1> QED  BY <1>1, <1>2, <1>3, QuietStep

LEMMA ReferenceFails ==
  ASSUME PoolInv, NEW t \in PoolThreads, Reference(t),
         freeListRefs[inPool[t].head] # inPool[t].refs
  PROVE  PoolInv'
<1> DEFINE r == [inPool[t] EXCEPT !.pc = "head", !.refs = 0]
<1>1. /\ inPool[t] \in Locals /\ LocalOk(inPool[t]) /\ inPool[t].pc = "reference"
      /\ inPool' = [inPool EXCEPT ![t] = r] /\ UNCHANGED <<nodeVars, owned>>
  BY DEF PoolInv, PoolTyped, Reference, PoolAt, PoolSet, nodeVars
<1>2. r \in Locals /\ LocalOk(r)
  BY <1>1 DEF Locals, LocalOk, PoolPcs, PutPcs
<1>3. \A m \in Nodes :
           /\ Holds(r, m) <=> Holds(inPool[t], m)
           /\ PutsMarked(r, m) <=> PutsMarked(inPool[t], m)
           /\ PutsCounted(r, m) <=> PutsCounted(inPool[t], m)
           /\ Drops(r, m) <=> Drops(inPool[t], m)
  BY <1>1 DEF Locals, Holds, PutsMarked, PutsCounted, Drops
<1> QED  BY <1>1, <1>2, <1>3, QuietStep

LEMMA TakeFails ==
  ASSUME PoolInv, NEW t \in PoolThreads, Take(t), freeListHead # inPool[t].head
  PROVE  PoolInv'
<1> DEFINE n == inPool[t].head
           r == [inPool[t] EXCEPT !.pc = "release", !.next = Null, !.head = freeListHead,
                                  !.prevHead = n]
<1>1. /\ inPool[t] \in Locals /\ LocalOk(inPool[t]) /\ inPool[t].pc = "take"
      /\ freeListHead \in NodeOrNull
      /\ inPool' = [inPool EXCEPT ![t] = r] /\ UNCHANGED <<nodeVars, owned>>
  BY DEF PoolInv, PoolTyped, Take, PoolAt, PoolSet, nodeVars
<1>2. n \in Nodes
  BY <1>1 DEF Locals, LocalOk, NodeOrNull
<1>3. r \in Locals /\ LocalOk(r)
  BY <1>1, <1>2, PoolNumbers DEF Locals, LocalOk, PoolPcs, PutPcs, NodeOrNull
<1>4. \A m \in Nodes :
           /\ Holds(r, m) <=> Holds(inPool[t], m)
           /\ PutsMarked(r, m) <=> PutsMarked(inPool[t], m)
           /\ PutsCounted(r, m) <=> PutsCounted(inPool[t], m)
           /\ Drops(r, m) <=> Drops(inPool[t], m)
  BY <1>1 DEF Locals, Holds, PutsMarked, PutsCounted, Drops
<1> QED  BY <1>1, <1>3, <1>4, QuietStep

(* The next pointer of a node that this thread alone can read is set.      *)
LEMMA PutNextStep ==
  ASSUME PoolInv, NEW t \in PoolThreads, PutNext(t)
  PROVE  PoolInv'
<1> DEFINE n == inPool[t].node
           r == [inPool[t] EXCEPT !.pc = "putRefs"]
<1>1. /\ inPool[t] \in Locals /\ LocalOk(inPool[t]) /\ inPool[t].pc = "putNext"
      /\ inPool' = [inPool EXCEPT ![t] = r] /\ UNCHANGED <<freeListHead, freeListRefs, owned>>
      /\ freeListNext' = [freeListNext EXCEPT ![n] = inPool[t].top]
      /\ PoolTyped
  BY DEF PoolInv, PoolTyped, PutNext, PoolAt, PoolSet, nodeVars
<1>2. n \in Nodes /\ PutsMarked(inPool[t], n) /\ n \notin {Null}
  BY <1>1, PoolNumbers DEF Locals, LocalOk, NodeOrNull, PutPcs, PutsMarked
<1>3. n \notin OnList /\ HeldBy(n) = {} /\ ~IsOwned(n)
  BY <1>1, <1>2, MarkedAwaited DEF PoolInv
<1>4. /\ freeListNext'[n] = inPool[t].top
      /\ \A m \in Nodes \ {n} : freeListNext'[m] = freeListNext[m]
  BY <1>1, <1>2 DEF PoolTyped
<1>5. PoolTyped'
  <2>1. r \in Locals
    BY <1>1 DEF Locals, PoolPcs, PutPcs
  <2> QED  BY <1>1, <1>2, <2>1 DEF PoolTyped, Locals
<1>6. ListKept' /\ OnList' = OnList
  <2>1. PICK L : \E k \in Nat : /\ IsStack(L, k, freeListHead, freeListNext, Null)
                                /\ Members(L, k) \subseteq Nodes
    BY DEF PoolInv, ListKept
  <2>2. PICK k \in Nat : /\ IsStack(L, k, freeListHead, freeListNext, Null)
                         /\ Members(L, k) \subseteq Nodes
    BY <2>1
  <2>3. OnList = Members(L, k)
    BY <2>2, StackOnList
  <2>4. \A i \in 1..k : L[i] \in Nodes \ {n}
    BY <1>3, <2>2, <2>3 DEF Members
  <2>5. IsStack(L, k, freeListHead', freeListNext', Null)
    BY <1>1, <1>4, <2>2, <2>4 DEF IsStack
  <2> QED  BY <2>2, <2>3, <2>5, StackOnListPrimed DEF ListKept
<1>7. ASSUME NEW u \in PoolThreads PROVE LocalOk(inPool[u])'
  <2>1. inPool'[u] = IF u = t THEN r ELSE inPool[u]
    BY <1>1 DEF PoolTyped
  <2>2. CASE u = t
    BY <1>1, <1>4, <2>1, <2>2 DEF LocalOk, Locals, PutPcs
  <2>3. CASE u # t
    <3>1. inPool[u] \in Locals /\ LocalOk(inPool[u]) /\ inPool'[u] = inPool[u]
      BY <1>1, <2>1, <2>3 DEF PoolInv, PoolTyped
    <3>2. inPool[u].pc = "take" => inPool[u].head \in Nodes \ {n}
      BY <1>3, <3>1, HoldersCounted DEF LocalOk, Holds, Locals, NodeOrNull
    <3>3. inPool[u].pc \in {"putRefs", "putHead"} => inPool[u].node \in Nodes \ {n}
      BY <1>2, <2>3, <3>1 DEF PoolInv, NodeKept, LocalOk, Locals, NodeOrNull, PutPcs
    <3> QED  BY <1>4, <3>1, <3>2, <3>3 DEF LocalOk
  <2> QED  BY <2>2, <2>3
<1>8. ASSUME NEW m \in Nodes PROVE NodeKept(m)'
  <2>1. /\ Holds(r, m) <=> Holds(inPool[t], m)
        /\ PutsMarked(r, m) <=> PutsMarked(inPool[t], m)
        /\ PutsCounted(r, m) <=> PutsCounted(inPool[t], m)
        /\ Drops(r, m) <=> Drops(inPool[t], m)
        /\ r.node = m <=> inPool[t].node = m
    BY <1>1 DEF Locals, Holds, PutsMarked, PutsCounted, Drops
  <2> QED  BY <1>1, <1>6, <2>1, NodeUntouched DEF PoolInv
<1> QED  BY <1>5, <1>6, <1>7, <1>8 DEF PoolInv

(* A step that concerns one node.                                          *)
LEMMA NodeStep ==
  ASSUME PoolInv, NEW t \in PoolThreads, NEW r \in Locals, inPool' = [inPool EXCEPT ![t] = r],
         LocalOk(r), NEW n \in Nodes, NodeKept(n)', UNCHANGED freeListNext,
         freeListHead' \in NodeOrNull, ListKept', owned' \in [PoolThreads -> SUBSET Nodes],
         freeListRefs' \in [Nodes -> Nat],
         \A m \in Nodes \ {n} :
           /\ Holds(r, m) <=> Holds(inPool[t], m)
           /\ PutsMarked(r, m) <=> PutsMarked(inPool[t], m)
           /\ PutsCounted(r, m) <=> PutsCounted(inPool[t], m)
           /\ Drops(r, m) <=> Drops(inPool[t], m)
           /\ m \in OnList <=> m \in OnList'
           /\ \A u \in PoolThreads : m \in owned[u] <=> m \in owned'[u]
           /\ freeListRefs'[m] = freeListRefs[m]
  PROVE  PoolInv'
<1>1. PoolTyped /\ PoolTyped'
  BY DEF PoolInv, PoolTyped
<1>2. (\A u \in PoolThreads : LocalOk(inPool[u]))'
  BY <1>1, LocalsKept DEF PoolInv
<1>3. ASSUME NEW m \in Nodes, m # n PROVE NodeKept(m)'
  <2>1. r.node = m <=> inPool[t].node = m
    BY <1>3, Putting DEF PoolInv
  <2> QED  BY <1>1, <1>3, <2>1, NodeUntouched DEF PoolInv
<1> QED  BY <1>1, <1>2, <1>3 DEF PoolInv

(* The bit goes, and the list's reference comes.                           *)
LEMMA PutRefsStep ==
  ASSUME PoolInv, NEW t \in PoolThreads, PutRefs(t)
  PROVE  PoolInv'
<1> DEFINE r == [inPool[t] EXCEPT !.pc = "putHead"]
<1>n. PICK n \in Nodes : n = inPool[t].node
  BY DEF PoolInv, PoolTyped, PutRefs, PoolAt, Locals, LocalOk, PutPcs, NodeOrNull
<1>1. /\ inPool[t] \in Locals /\ LocalOk(inPool[t]) /\ inPool[t].pc = "putRefs"
      /\ inPool' = [inPool EXCEPT ![t] = r] /\ UNCHANGED <<freeListHead, freeListNext, owned>>
      /\ freeListRefs' = [freeListRefs EXCEPT ![n] = 1]
      /\ PoolTyped
  BY <1>n DEF PoolInv, PoolTyped, PutRefs, PoolAt, PoolSet, SetRefs
<1>2. n \in Nodes /\ PutsMarked(inPool[t], n) /\ NodeKept(n)
  BY <1>1, <1>n DEF PoolInv, PutsMarked
<1>3. n \notin OnList /\ HeldBy(n) = {} /\ ~IsOwned(n)
  BY <1>1, <1>2, MarkedAwaited
<1>4. r \in Locals /\ LocalOk(r) /\ r.node = n /\ r.pc = "putHead"
  BY <1>1, <1>n DEF Locals, LocalOk, PoolPcs, PutPcs
<1>5. freeListRefs' \in [Nodes -> Nat] /\ \A m \in Nodes \ {n} : freeListRefs'[m] = freeListRefs[m]
  BY <1>1 DEF PoolTyped
<1>6. ListKept' /\ OnList' = OnList
  BY <1>1, SameList DEF PoolInv
<1>7. \A m \in Nodes \ {n} :
           /\ Holds(r, m) <=> Holds(inPool[t], m)
           /\ PutsMarked(r, m) <=> PutsMarked(inPool[t], m)
           /\ PutsCounted(r, m) <=> PutsCounted(inPool[t], m)
           /\ Drops(r, m) <=> Drops(inPool[t], m)
  BY <1>1, <1>n DEF Locals, Holds, PutsMarked, PutsCounted, Drops
<1>8. NodeKept(n)'
  <2>1. \A u \in PoolThreads : inPool'[u] = IF u = t THEN r ELSE inPool[u]
    BY <1>1 DEF PoolTyped
  <2>2. ~Holds(r, n) /\ PutsCounted(r, n) /\ ~PutsMarked(r, n) /\ ~Drops(r, n)
    BY <1>4 DEF Holds, PutsCounted, PutsMarked, Drops
  <2>3. HeldBy(n)' = {} /\ Cardinality(HeldBy(n)') = 0
    BY <1>1, <1>3, <2>2, HoldersChange, FS_EmptySet
  <2>4. ~IsOwned(n)' /\ ~Awaited(n)' /\ HeldByList(n)'
    BY <1>1, <1>3, <2>1, <2>2, ListedBy DEF IsOwned, Awaited
  <2>5. freeListRefs'[n] = 1
    BY <1>1, <1>2 DEF PoolTyped
  <2>6. \A u, v \in PoolThreads : inPool'[u].node = n /\ inPool'[v].node = n => u = v
    BY <1>2, <1>4, <2>1 DEF NodeKept
  <2>7. \A u \in PoolThreads : ~Drops(inPool'[u], n)
    BY <1>2, <1>3, <2>1, <2>2 DEF NodeKept, IsOwned
  <2> QED
    BY <1>3, <1>6, <2>3, <2>4, <2>5, <2>6, <2>7
       DEF NodeKept, IsOwned, PutsMarked, PutsCounted, Drops
<1> HIDE DEF r
<1>9. freeListHead' \in NodeOrNull /\ owned' \in [PoolThreads -> SUBSET Nodes]
  BY <1>1 DEF PoolTyped
<1> QED  BY <1>1, <1>4, <1>5, <1>6, <1>7, <1>8, <1>9, NodeStep

(* The end of add, or of putting back a node inside try_get.               *)
LEMMA FinishOk ==
  ASSUME PoolInv, NEW t \in PoolThreads, Finish(t)
  PROVE  \E r \in Locals :
           /\ inPool' = [inPool EXCEPT ![t] = r] /\ LocalOk(r)
           /\ r.node = Null /\ r.pc \in {"refs", "idle"}
<1>1. inPool[t] \in Locals
  BY DEF PoolInv, PoolTyped
<1>2. CASE inPool[t].getting /\ inPool[t].head # Null
  <2> DEFINE r == [inPool[t] EXCEPT !.pc = "refs", !.node = Null, !.top = Null]
  <2>1. inPool' = [inPool EXCEPT ![t] = r]
    BY <1>2 DEF Finish, PoolSet
  <2>2. r \in Locals /\ LocalOk(r) /\ r.node = Null /\ r.pc = "refs"
    BY <1>1, <1>2 DEF Locals, LocalOk, PoolPcs, PutPcs, NodeOrNull
  <2> QED  BY <2>1, <2>2
<1>3. CASE ~(inPool[t].getting /\ inPool[t].head # Null)
  <2>1. inPool' = [inPool EXCEPT ![t] = PoolIdle]
    BY <1>3 DEF Finish, PoolReturn
  <2> QED  BY <2>1, IdleOk DEF PoolIdle
<1> QED  BY <1>2, <1>3

(* The node becomes the head: the pointer that was written is the rest.    *)
LEMMA PutHeadDone ==
  ASSUME PoolInv, NEW t \in PoolThreads, PutHead(t), freeListHead = inPool[t].top
  PROVE  PoolInv'
<1>n. PICK n \in Nodes : n = inPool[t].node
  BY DEF PoolInv, PoolTyped, PutHead, PoolAt, Locals, LocalOk, PutPcs, NodeOrNull
<1>1. /\ inPool[t] \in Locals /\ LocalOk(inPool[t]) /\ inPool[t].pc = "putHead"
      /\ freeListHead' = n /\ UNCHANGED <<freeListRefs, freeListNext, owned>>
      /\ PoolTyped /\ NodeKept(n)
  BY <1>n DEF PoolInv, PoolTyped, PutHead, PoolAt
<1>2. PICK r \in Locals : /\ inPool' = [inPool EXCEPT ![t] = r] /\ LocalOk(r)
                          /\ r.node = Null /\ r.pc \in {"refs", "idle"}
  BY FinishOk DEF PutHead
<1>3. PutsCounted(inPool[t], n) /\ n \notin OnList /\ ~IsOwned(n) /\ freeListNext[n] = freeListHead
  BY <1>n, <1>1 DEF NodeKept, PutsCounted, LocalOk
<1>4. ListKept' /\ OnList' = OnList \cup {n}
  <2>1. PICK L : \E k \in Nat : /\ IsStack(L, k, freeListHead, freeListNext, Null)
                                /\ Members(L, k) \subseteq Nodes
    BY DEF PoolInv, ListKept
  <2>2. PICK k \in Nat : /\ IsStack(L, k, freeListHead, freeListNext, Null)
                         /\ Members(L, k) \subseteq Nodes
    BY <2>1
  <2>3. OnList = Members(L, k)
    BY <2>2, StackOnList
  <2>4. PICK M : /\ IsStack(M, k + 1, n, freeListNext, Null)
                 /\ Members(M, k + 1) = Members(L, k) \cup {n}
    BY <1>3, <2>2, <2>3, StackPushed, PoolNumbers
  <2>5. IsStack(M, k + 1, freeListHead', freeListNext', Null) /\ Members(M, k + 1) \subseteq Nodes
    BY <1>1, <2>2, <2>4
  <2> QED  BY <2>3, <2>4, <2>5, StackOnListPrimed DEF ListKept
<1>5. \A m \in Nodes :
           /\ Holds(r, m) <=> Holds(inPool[t], m)
           /\ PutsMarked(r, m) <=> PutsMarked(inPool[t], m)
           /\ m # n => (PutsCounted(r, m) <=> PutsCounted(inPool[t], m))
           /\ Drops(r, m) <=> Drops(inPool[t], m)
  BY <1>n, <1>1, <1>2 DEF Holds, PutsMarked, PutsCounted, Drops
<1>6. NodeKept(n)'
  <2>1. \A u \in PoolThreads : inPool'[u] = IF u = t THEN r ELSE inPool[u]
    BY <1>1, <1>2 DEF PoolTyped
  <2>2. \A u \in PoolThreads : inPool'[u].node # n
    BY <1>n, <1>1, <1>2, <2>1, PoolNumbers DEF NodeKept
  <2>3. HeldBy(n)' = HeldBy(n)
    BY <1>1, <1>2, <1>5, HoldersSame
  <2>4. ~IsOwned(n)' /\ ~Awaited(n)' /\ HeldByList(n)' /\ ~Awaited(n) /\ HeldByList(n)
    BY <1>1, <1>3, <1>4, ListedBy DEF IsOwned, Awaited
  <2>5. \A u \in PoolThreads : ~Drops(inPool'[u], n)
    BY <1>1, <1>3, <1>5, <2>1 DEF NodeKept, IsOwned
  <2> QED
    BY <1>1, <2>2, <2>3, <2>4, <2>5 DEF NodeKept, IsOwned, PutsMarked, PutsCounted, Drops
<1>7. freeListHead' \in NodeOrNull /\ owned' \in [PoolThreads -> SUBSET Nodes]
      /\ freeListRefs' \in [Nodes -> Nat]
  BY <1>1 DEF PoolTyped, NodeOrNull
<1> QED  BY <1>1, <1>2, <1>4, <1>5, <1>6, <1>7, NodeStep

(* The exchange has failed: the list's reference goes, and the bit comes.  *)
LEMMA PutAgainStep ==
  ASSUME PoolInv, NEW t \in PoolThreads, PutAgain(t)
  PROVE  PoolInv'
<1> USE PoolNumbers
<1>n. PICK n \in Nodes : n = inPool[t].node
  BY DEF PoolInv, PoolTyped, PutAgain, PoolAt, Locals, LocalOk, PutPcs, NodeOrNull
<1>1. /\ inPool[t] \in Locals /\ LocalOk(inPool[t]) /\ inPool[t].pc = "putAgain"
      /\ UNCHANGED <<freeListHead, freeListNext, owned>> /\ PoolTyped /\ NodeKept(n)
      /\ freeListRefs' = [freeListRefs EXCEPT ![n] = freeListRefs[n] + SHOULD_BE_ON_FREELIST - 1]
  BY <1>n DEF PoolInv, PoolTyped, PutAgain, PoolAt, SetRefs
<1>2. PutsCounted(inPool[t], n) /\ n \notin OnList /\ ~IsOwned(n)
  BY <1>n, <1>1 DEF NodeKept, PutsCounted
<1>3. freeListRefs[n] = Cardinality(HeldBy(n)) + 1 /\ Cardinality(HeldBy(n)) \in Nat
  <2>1. HeldByList(n) /\ ~Awaited(n)
    BY <1>2, ListedBy DEF Awaited
  <2> QED  BY <1>1, <2>1, HoldersCounted DEF NodeKept
<1>4. PICK r \in Locals :
        /\ inPool' = [inPool EXCEPT ![t] = r] /\ LocalOk(r)
        /\ \/ freeListRefs[n] = 1 /\ r.pc = "putNext" /\ r.node = n
           \/ freeListRefs[n] # 1 /\ r.pc \in {"refs", "idle"} /\ r.node = Null
  <2>1. CASE freeListRefs[n] = 1
    <3> DEFINE r == [inPool[t] EXCEPT !.pc = "putNext"]
    <3>1. inPool' = [inPool EXCEPT ![t] = r]
      BY <1>n, <2>1 DEF PutAgain, PoolSet
    <3>2. r \in Locals /\ LocalOk(r) /\ r.pc = "putNext" /\ r.node = n
      BY <1>n, <1>1 DEF Locals, LocalOk, PoolPcs, PutPcs
    <3> QED  BY <2>1, <3>1, <3>2
  <2>2. CASE freeListRefs[n] # 1
    BY <1>n, <2>2, FinishOk DEF PutAgain
  <2> QED  BY <2>1, <2>2
<1>5. ListKept' /\ OnList' = OnList
  BY <1>1, SameList DEF PoolInv
<1>6. \A m \in Nodes :
           /\ Holds(r, m) <=> Holds(inPool[t], m)
           /\ m # n => (PutsMarked(r, m) <=> PutsMarked(inPool[t], m))
           /\ m # n => (PutsCounted(r, m) <=> PutsCounted(inPool[t], m))
           /\ Drops(r, m) <=> Drops(inPool[t], m)
  BY <1>n, <1>1, <1>4 DEF Holds, PutsMarked, PutsCounted, Drops
<1>7. NodeKept(n)'
  <2>1. \A u \in PoolThreads : inPool'[u] = IF u = t THEN r ELSE inPool[u]
    BY <1>1, <1>4 DEF PoolTyped
  <2>2. \A u \in PoolThreads : inPool'[u].node = n => u = t
    BY <1>n, <1>1, <1>4, <2>1 DEF NodeKept
  <2>3. ~PutsCounted(r, n)
    BY <1>4 DEF PutsCounted
  <2>4. \A u \in PoolThreads : ~PutsCounted(inPool'[u], n)
    BY <2>1, <2>2, <2>3 DEF PutsCounted
  <2>5. HeldBy(n)' = HeldBy(n)
    BY <1>1, <1>4, <1>6, HoldersSame
  <2>6. \A u \in PoolThreads : ~Drops(inPool'[u], n)
    BY <1>1, <1>2, <1>6, <2>1 DEF NodeKept, IsOwned
  <2>7. ~IsOwned(n)' /\ Awaited(n)' /\ ~HeldByList(n)'
    BY <1>1, <1>2, <1>5, <2>4, <2>6, ListedBy DEF IsOwned, Awaited
  <2>8. freeListRefs'[n] = Cardinality(HeldBy(n)) + SHOULD_BE_ON_FREELIST
    BY <1>1, <1>3 DEF PoolTyped
  <2>9. freeListRefs[n] = 1 <=> HeldBy(n) = {}
    BY <1>3, HoldersCounted
  <2>10. PutsMarked(r, n) <=> freeListRefs[n] = 1
    BY <1>4 DEF PutsMarked
  <2>11. \A u \in PoolThreads : PutsMarked(inPool'[u], n) => HeldBy(n)' = {}
    BY <2>1, <2>2, <2>5, <2>9, <2>10 DEF PutsMarked
  <2>12. (\A u \in PoolThreads : ~PutsMarked(inPool'[u], n)) => HeldBy(n)' # {}
    BY <2>1, <2>5, <2>9, <2>10
  <2>13. n \notin OnList'
    BY <1>2, <1>5
  <2>14. freeListRefs'[n] = Cardinality(HeldBy(n)') + 0 + SHOULD_BE_ON_FREELIST
    BY <1>3, <2>5, <2>8
  <2>15. \A u, v \in PoolThreads : n \in owned'[u] /\ n \in owned'[v] => u = v
    BY <2>7 DEF IsOwned
  <2> QED
    BY <2>2, <2>4, <2>6, <2>7, <2>11, <2>12, <2>13, <2>14, <2>15
       DEF NodeKept, PutsMarked, PutsCounted, Drops
<1>8. /\ freeListHead' \in NodeOrNull /\ owned' \in [PoolThreads -> SUBSET Nodes]
      /\ freeListRefs' \in [Nodes -> Nat]
      /\ \A m \in Nodes \ {n} : freeListRefs'[m] = freeListRefs[m]
  BY <1>1, <1>3 DEF PoolTyped
<1> QED  BY <1>1, <1>4, <1>5, <1>6, <1>7, <1>8, NodeStep

(* A reference is added to a node whose count was not zero when it was     *)
(* read, and is still the same: nobody can be setting its next pointer.    *)
LEMMA ReferenceDone ==
  ASSUME PoolInv, NEW t \in PoolThreads, Reference(t),
         freeListRefs[inPool[t].head] = inPool[t].refs
  PROVE  PoolInv'
<1> USE PoolNumbers
<1>n. PICK n \in Nodes : n = inPool[t].head
  BY DEF PoolInv, PoolTyped, Reference, PoolAt, Locals, LocalOk, NodeOrNull
<1> DEFINE r == [inPool[t] EXCEPT !.pc = "next", !.refs = 0]
<1>1. /\ inPool[t] \in Locals /\ LocalOk(inPool[t]) /\ inPool[t].pc = "reference"
      /\ UNCHANGED <<freeListHead, freeListNext, owned>> /\ PoolTyped /\ NodeKept(n)
      /\ inPool' = [inPool EXCEPT ![t] = r]
      /\ freeListRefs' = [freeListRefs EXCEPT ![n] = freeListRefs[n] + 1]
      /\ freeListRefs[n] % SHOULD_BE_ON_FREELIST # 0
  BY <1>n DEF PoolInv, PoolTyped, Reference, PoolAt, SetRefs, PoolSet, LocalOk
<1>2. r \in Locals /\ LocalOk(r) /\ r.node = Null /\ r.pc = "next" /\ r.head = n /\ inPool[t].node = Null
  BY <1>n, <1>1 DEF Locals, LocalOk, PoolPcs, PutPcs
<1> HIDE DEF r
<1>3. \A u \in PoolThreads : ~PutsMarked(inPool[u], n)
  <2> SUFFICES ASSUME NEW u \in PoolThreads, PutsMarked(inPool[u], n) PROVE FALSE
    OBVIOUS
  <2>1. freeListRefs[n] = SHOULD_BE_ON_FREELIST
    BY <1>1, MarkedAwaited
  <2>2. SHOULD_BE_ON_FREELIST % SHOULD_BE_ON_FREELIST = 0
    OBVIOUS
  <2> QED  BY <1>1, <2>1, <2>2
<1>4. ListKept' /\ OnList' = OnList
  BY <1>1, SameList DEF PoolInv
<1>5. \A m \in Nodes :
           /\ m # n => (Holds(r, m) <=> Holds(inPool[t], m))
           /\ PutsMarked(r, m) <=> PutsMarked(inPool[t], m)
           /\ PutsCounted(r, m) <=> PutsCounted(inPool[t], m)
           /\ Drops(r, m) <=> Drops(inPool[t], m)
  BY <1>1, <1>2 DEF Holds, PutsMarked, PutsCounted, Drops
<1>6. Holds(r, n) /\ ~Holds(inPool[t], n)
  BY <1>1, <1>2 DEF Holds
<1>7. NodeKept(n)'
  <2>1. \A u \in PoolThreads : inPool'[u] = IF u = t THEN r ELSE inPool[u]
    BY <1>1 DEF PoolTyped
  <2>2. \A u \in PoolThreads :
          /\ PutsMarked(inPool'[u], n) <=> PutsMarked(inPool[u], n)
          /\ PutsCounted(inPool'[u], n) <=> PutsCounted(inPool[u], n)
          /\ Drops(inPool'[u], n) <=> Drops(inPool[u], n)
          /\ inPool'[u].node = n <=> inPool[u].node = n
    BY <1>2, <1>5, <2>1
  <2>3. HeldBy(n)' = HeldBy(n) \cup {t} /\ Cardinality(HeldBy(n)') = Cardinality(HeldBy(n)) + 1
    <3>1. HeldBy(n)' = HeldBy(n) \cup {t}
      BY <1>1, <1>6, HoldersChange
    <3>2. Cardinality(HeldBy(n)') = Cardinality(HeldBy(n)) + 1 - 0
      BY <1>1, <1>6, HoldersChange
    <3> QED  BY <3>1, <3>2, HoldersCounted
  <2>4. /\ IsOwned(n)' <=> IsOwned(n)
        /\ Awaited(n)' <=> Awaited(n)
        /\ HeldByList(n)' <=> HeldByList(n)
    BY <1>1, <1>4, <2>2, ListedBy DEF IsOwned, Awaited
  <2>5. freeListRefs'[n] = Cardinality(HeldBy(n)') + (IF HeldByList(n)' THEN 1 ELSE 0)
                         + (IF Awaited(n)' THEN SHOULD_BE_ON_FREELIST ELSE 0)
    <3>1. freeListRefs'[n] = freeListRefs[n] + 1
      BY <1>1 DEF PoolTyped
    <3> QED  BY <1>1, <2>3, <2>4, <3>1, HoldersCounted DEF NodeKept
  <2>6. /\ \A u, v \in PoolThreads : n \in owned'[u] /\ n \in owned'[v] => u = v
        /\ IsOwned(n)' => n \notin OnList'
        /\ \A u, v \in PoolThreads : inPool'[u].node = n /\ inPool'[v].node = n => u = v
    BY <1>1, <1>4, <2>2, <2>4 DEF NodeKept
  <2>7. \A u \in PoolThreads :
          /\ ~PutsMarked(inPool'[u], n)
          /\ PutsCounted(inPool'[u], n) => ~IsOwned(n)' /\ n \notin OnList'
          /\ Drops(inPool'[u], n) => n \in owned'[u]
    BY <1>1, <1>3, <1>4, <2>2, <2>4 DEF NodeKept
  <2>8. HeldBy(n)' # {}
    BY <2>3
  <2> QED  BY <2>5, <2>6, <2>7, <2>8 DEF NodeKept, PutsMarked, PutsCounted, Drops
<1>8. /\ freeListHead' \in NodeOrNull /\ owned' \in [PoolThreads -> SUBSET Nodes]
      /\ freeListRefs' \in [Nodes -> Nat]
      /\ \A m \in Nodes \ {n} : freeListRefs'[m] = freeListRefs[m]
  BY <1>1 DEF PoolTyped
<1> QED  BY <1>1, <1>2, <1>4, <1>5, <1>7, <1>8, NodeStep

(* The head is taken off the list.                                         *)
LEMMA TakeDone ==
  ASSUME PoolInv, NEW t \in PoolThreads, Take(t), freeListHead = inPool[t].head
  PROVE  PoolInv' /\ \E n \in Nodes : ~IsOwned(n) /\ owned' = [owned EXCEPT ![t] = @ \cup {n}]
<1> USE PoolNumbers
<1>n. PICK n \in Nodes : n = inPool[t].head
  BY DEF PoolInv, PoolTyped, Take, PoolAt, Locals, LocalOk, NodeOrNull
<1> DEFINE r == [inPool[t] EXCEPT !.pc = "drop", !.next = Null]
<1>1. /\ inPool[t] \in Locals /\ LocalOk(inPool[t]) /\ inPool[t].pc = "take"
      /\ UNCHANGED <<freeListRefs, freeListNext>> /\ PoolTyped /\ NodeKept(n)
      /\ inPool' = [inPool EXCEPT ![t] = r]
      /\ freeListHead = n /\ freeListHead' = freeListNext[n]
      /\ owned' = [owned EXCEPT ![t] = owned[t] \cup {n}]
  BY <1>n DEF PoolInv, PoolTyped, Take, PoolAt, PoolSet, LocalOk
<1>2. r \in Locals /\ LocalOk(r) /\ r.node = Null /\ r.pc = "drop" /\ r.head = n /\ inPool[t].node = Null
  BY <1>n, <1>1 DEF Locals, LocalOk, PoolPcs, PutPcs, NodeOrNull
<1>3. inPool[t].head = n
  BY <1>n
<1> HIDE DEF r
<1>4. ListKept' /\ OnList' = OnList \ {n} /\ n \in OnList
  <2>1. PICK L : \E k \in Nat : /\ IsStack(L, k, freeListHead, freeListNext, Null)
                                /\ Members(L, k) \subseteq Nodes
    BY DEF PoolInv, ListKept
  <2>2. PICK k \in Nat : /\ IsStack(L, k, freeListHead, freeListNext, Null)
                         /\ Members(L, k) \subseteq Nodes
    BY <2>1
  <2>3. OnList = Members(L, k)
    BY <2>2, StackOnList
  <2>4. /\ k - 1 \in Nat /\ IsStack(L, k - 1, freeListNext[n], freeListNext, Null)
        /\ n \in Members(L, k) /\ Members(L, k - 1) = Members(L, k) \ {n}
    BY <1>1, <2>2, StackPopped
  <2>5. IsStack(L, k - 1, freeListHead', freeListNext', Null) /\ Members(L, k - 1) \subseteq Nodes
    BY <1>1, <2>2, <2>4
  <2> QED  BY <2>3, <2>4, <2>5, StackOnListPrimed DEF ListKept
<1>5. \A m \in Nodes :
           /\ Holds(r, m) <=> Holds(inPool[t], m)
           /\ PutsMarked(r, m) <=> PutsMarked(inPool[t], m)
           /\ PutsCounted(r, m) <=> PutsCounted(inPool[t], m)
           /\ m # n => (Drops(r, m) <=> Drops(inPool[t], m))
  BY <1>1, <1>2, <1>3 DEF Holds, PutsMarked, PutsCounted, Drops
<1>6. ~IsOwned(n)
  BY <1>1, <1>4 DEF NodeKept
<1>7. \A u \in PoolThreads : owned'[u] = IF u = t THEN owned[t] \cup {n} ELSE owned[u]
  BY <1>1 DEF PoolTyped
<1>8. NodeKept(n)'
  <2>1. \A u \in PoolThreads : inPool'[u] = IF u = t THEN r ELSE inPool[u]
    BY <1>1 DEF PoolTyped
  <2>2. \A u \in PoolThreads : n \in owned'[u] <=> u = t
    BY <1>6, <1>7 DEF IsOwned
  <2>3. \A u \in PoolThreads : ~PutsMarked(inPool[u], n) /\ ~PutsCounted(inPool[u], n)
    BY <1>1, <1>4 DEF NodeKept
  <2>4. \A u \in PoolThreads : ~PutsMarked(inPool'[u], n) /\ ~PutsCounted(inPool'[u], n)
    BY <1>5, <2>1, <2>3
  <2>5. Drops(r, n) /\ \A u \in PoolThreads : Drops(inPool'[u], n) => u = t
    BY <1>1, <1>2, <1>6, <2>1 DEF NodeKept, IsOwned, Drops
  <2>6. HeldBy(n)' = HeldBy(n)
    BY <1>1, <1>5, HoldersSame
  <2>7. IsOwned(n)' /\ ~Awaited(n)' /\ HeldByList(n)'
    BY <2>1, <2>2, <2>5, ListedBy DEF IsOwned, Awaited
  <2>8. HeldByList(n) /\ ~Awaited(n)
    BY <1>4, ListedBy DEF Awaited
  <2>9. freeListRefs'[n] = Cardinality(HeldBy(n)') + 1 + 0
    BY <1>1, <2>6, <2>8 DEF NodeKept
  <2>10. \A u, v \in PoolThreads : inPool'[u].node = n /\ inPool'[v].node = n => u = v
    BY <1>1, <1>2, <2>1 DEF NodeKept
  <2>11. n \notin OnList'
    BY <1>4
  <2> QED
    BY <2>2, <2>4, <2>5, <2>7, <2>9, <2>10, <2>11
       DEF NodeKept, PutsMarked, PutsCounted, Drops
<1>9. /\ freeListHead' \in NodeOrNull /\ owned' \in [PoolThreads -> SUBSET Nodes]
      /\ freeListRefs' \in [Nodes -> Nat]
  BY <1>1 DEF PoolTyped
<1>10. PoolInv'
  BY <1>1, <1>2, <1>4, <1>5, <1>7, <1>8, <1>9, NodeStep
<1> QED  BY <1>1, <1>6, <1>10

(* The references of the thread that took the node and of the list go.     *)
LEMMA DropStep ==
  ASSUME PoolInv, NEW t \in PoolThreads, Drop(t)
  PROVE  PoolInv'
<1> USE PoolNumbers
<1>n. PICK n \in Nodes : n = inPool[t].head
  BY DEF PoolInv, PoolTyped, Drop, PoolAt, Locals, LocalOk, NodeOrNull
<1>1. /\ inPool[t] \in Locals /\ LocalOk(inPool[t]) /\ inPool[t].pc = "drop"
      /\ UNCHANGED <<freeListHead, freeListNext, owned>> /\ PoolTyped /\ NodeKept(n)
      /\ inPool' = [inPool EXCEPT ![t] = PoolIdle]
      /\ freeListRefs' = [freeListRefs EXCEPT ![n] = freeListRefs[n] - 2]
  BY <1>n DEF PoolInv, PoolTyped, Drop, PoolAt, PoolReturn, SetRefs
<1>2. PoolIdle \in Locals /\ LocalOk(PoolIdle) /\ PoolIdle.node = Null /\ PoolIdle.pc = "idle"
  BY IdleOk DEF PoolIdle
<1>3. Drops(inPool[t], n) /\ Holds(inPool[t], n) /\ ~Holds(PoolIdle, n)
  BY <1>n, <1>1, <1>2 DEF Drops, Holds
<1>4. n \in owned[t] /\ IsOwned(n) /\ \A u \in PoolThreads : n \in owned[u] => u = t
  BY <1>1, <1>3 DEF NodeKept, IsOwned
<1>5. ListKept' /\ OnList' = OnList
  BY <1>1, SameList DEF PoolInv
<1>6. \A m \in Nodes :
           /\ m # n => (Holds(PoolIdle, m) <=> Holds(inPool[t], m))
           /\ PutsMarked(PoolIdle, m) <=> PutsMarked(inPool[t], m)
           /\ PutsCounted(PoolIdle, m) <=> PutsCounted(inPool[t], m)
           /\ m # n => (Drops(PoolIdle, m) <=> Drops(inPool[t], m))
  BY <1>n, <1>1, <1>2 DEF Holds, PutsMarked, PutsCounted, Drops
<1>7. /\ t \in HeldBy(n) /\ Cardinality(HeldBy(n)) \in Nat \ {0}
      /\ Cardinality(HeldBy(n)') = Cardinality(HeldBy(n)) - 1
  <2>1. t \in HeldBy(n)
    BY <1>3, HoldersCounted
  <2>2. Cardinality(HeldBy(n)') = Cardinality(HeldBy(n)) + 0 - 1
    BY <1>1, <1>3, HoldersChange
  <2> QED  BY <2>1, <2>2, HoldersCounted
<1>8. freeListRefs[n] = Cardinality(HeldBy(n)) + 1
  <2>1. HeldByList(n) /\ ~Awaited(n)
    BY <1>3, <1>4, ListedBy DEF Awaited
  <2> QED  BY <1>1, <1>7, <2>1 DEF NodeKept
<1>9. NodeKept(n)'
  <2>1. \A u \in PoolThreads : inPool'[u] = IF u = t THEN PoolIdle ELSE inPool[u]
    BY <1>1 DEF PoolTyped
  <2>2. \A u \in PoolThreads : ~PutsMarked(inPool'[u], n) /\ ~PutsCounted(inPool'[u], n)
    BY <1>1, <1>4, <1>6, <2>1 DEF NodeKept
  <2>3. \A u \in PoolThreads : ~Drops(inPool'[u], n)
    <3>1. ~Drops(PoolIdle, n)
      BY <1>2 DEF Drops
    <3> QED  BY <1>1, <1>4, <2>1, <3>1 DEF NodeKept
  <2>4. n \notin OnList' /\ IsOwned(n)' /\ ~Awaited(n)' /\ ~HeldByList(n)'
    BY <1>1, <1>4, <1>5, <2>2, <2>3, ListedBy DEF NodeKept, IsOwned, Awaited
  <2>5. freeListRefs'[n] = Cardinality(HeldBy(n)') + 0 + 0
    <3>1. freeListRefs'[n] = freeListRefs[n] - 2
      BY <1>1 DEF PoolTyped
    <3> QED  BY <1>7, <1>8, <3>1
  <2>6. \A u, v \in PoolThreads : inPool'[u].node = n /\ inPool'[v].node = n => u = v
    BY <1>1, <1>2, <2>1 DEF NodeKept
  <2>7. \A u, v \in PoolThreads : n \in owned'[u] /\ n \in owned'[v] => u = v
    BY <1>1, <1>4
  <2> QED
    BY <2>2, <2>3, <2>4, <2>5, <2>6, <2>7 DEF NodeKept, PutsMarked, PutsCounted, Drops
<1>10. /\ freeListHead' \in NodeOrNull /\ owned' \in [PoolThreads -> SUBSET Nodes]
       /\ freeListRefs' \in [Nodes -> Nat]
       /\ \A m \in Nodes \ {n} : freeListRefs'[m] = freeListRefs[m]
  <2>1. freeListRefs[n] - 2 \in Nat
    BY <1>7, <1>8
  <2> QED  BY <1>1, <2>1 DEF PoolTyped
<1> QED  BY <1>1, <1>2, <1>5, <1>6, <1>9, <1>10, NodeStep

(* Somebody else has taken the head: the reference goes, and when it was   *)
(* the last to a node that is awaited, the thread puts the node back.      *)
LEMMA ReleaseStep ==
  ASSUME PoolInv, NEW t \in PoolThreads, Release(t)
  PROVE  PoolInv'
<1> USE PoolNumbers
<1>n. PICK n \in Nodes : n = inPool[t].prevHead
  BY DEF PoolInv, PoolTyped, Release, PoolAt, Locals, LocalOk, NodeOrNull
<1>1. /\ inPool[t] \in Locals /\ LocalOk(inPool[t]) /\ inPool[t].pc = "release"
      /\ UNCHANGED <<freeListHead, freeListNext, owned>> /\ PoolTyped /\ NodeKept(n)
      /\ freeListRefs' = [freeListRefs EXCEPT ![n] = freeListRefs[n] - 1]
      /\ freeListRefs[n] \in Nat
  BY <1>n DEF PoolInv, PoolTyped, Release, PoolAt, SetRefs
<1>2. inPool[t].node = Null
  BY <1>1 DEF LocalOk, PutPcs
<1>3. PICK r \in Locals :
        /\ inPool' = [inPool EXCEPT ![t] = r] /\ LocalOk(r)
        /\ \/ freeListRefs[n] = SHOULD_BE_ON_FREELIST + 1 /\ r.pc = "putLoad" /\ r.node = n
           \/ /\ freeListRefs[n] # SHOULD_BE_ON_FREELIST + 1
              /\ r.pc \in {"refs", "idle"} /\ r.node = Null
  <2>1. CASE freeListRefs[n] = SHOULD_BE_ON_FREELIST + 1
    <3> DEFINE r == [inPool[t] EXCEPT !.pc = "putLoad", !.node = n, !.prevHead = Null]
    <3>1. inPool' = [inPool EXCEPT ![t] = r]
      BY <1>n, <2>1 DEF Release, PoolSet
    <3>2. r \in Locals /\ LocalOk(r) /\ r.pc = "putLoad" /\ r.node = n
      BY <1>1 DEF Locals, LocalOk, PoolPcs, PutPcs, NodeOrNull
    <3> QED  BY <2>1, <3>1, <3>2
  <2>2. CASE freeListRefs[n] # SHOULD_BE_ON_FREELIST + 1 /\ inPool[t].head = Null
    <3>1. inPool' = [inPool EXCEPT ![t] = PoolIdle]
      BY <1>n, <2>2 DEF Release, PoolReturn
    <3> QED  BY <2>2, <3>1, IdleOk DEF PoolIdle
  <2>3. CASE freeListRefs[n] # SHOULD_BE_ON_FREELIST + 1 /\ inPool[t].head # Null
    <3> DEFINE r == [inPool[t] EXCEPT !.pc = "refs", !.prevHead = Null]
    <3>1. inPool' = [inPool EXCEPT ![t] = r]
      BY <1>n, <2>3 DEF Release, PoolSet
    <3>2. r \in Locals /\ LocalOk(r) /\ r.pc = "refs" /\ r.node = Null
      BY <1>1, <1>2, <2>3 DEF Locals, LocalOk, PoolPcs, PutPcs, NodeOrNull
    <3> QED  BY <2>3, <3>1, <3>2
  <2> QED  BY <2>1, <2>2, <2>3
<1>4. Holds(inPool[t], n) /\ ~Holds(r, n)
  BY <1>n, <1>1, <1>3 DEF Holds
<1>5. ListKept' /\ OnList' = OnList
  BY <1>1, SameList DEF PoolInv
<1>6. \A m \in Nodes :
           /\ m # n => (Holds(r, m) <=> Holds(inPool[t], m))
           /\ m # n => (PutsMarked(r, m) <=> PutsMarked(inPool[t], m))
           /\ PutsCounted(r, m) <=> PutsCounted(inPool[t], m)
           /\ Drops(r, m) <=> Drops(inPool[t], m)
  BY <1>n, <1>1, <1>3 DEF Holds, PutsMarked, PutsCounted, Drops
<1>7. /\ t \in HeldBy(n) /\ Cardinality(HeldBy(n)) \in Nat \ {0}
      /\ Cardinality(HeldBy(n)) <= Cardinality(PoolThreads)
      /\ Cardinality(HeldBy(n)') = Cardinality(HeldBy(n)) - 1
      /\ HeldBy(n)' = {} <=> Cardinality(HeldBy(n)) = 1
  <2>1. t \in HeldBy(n)
    BY <1>4, HoldersCounted
  <2>2. Cardinality(HeldBy(n)') = Cardinality(HeldBy(n)) + 0 - 1
    BY <1>1, <1>3, <1>4, HoldersChange
  <2>3. HeldBy(n)' = HeldBy(n) \ {t}
    BY <1>1, <1>3, <1>4, HoldersChange
  <2>4. IsFiniteSet(HeldBy(n)') /\ (Cardinality(HeldBy(n)') = 0 <=> HeldBy(n)' = {})
    <3>1. IsFiniteSet(HeldBy(n) \ {t})
      BY HoldersCounted, FS_RemoveElement
    <3>2. \A S : IsFiniteSet(S) => (Cardinality(S) = 0 <=> S = {})
      BY FS_EmptySet
    <3> QED  BY <2>3, <3>1, <3>2
  <2> QED  BY <2>1, <2>2, <2>4, HoldersCounted
<1>8. \A u \in PoolThreads : ~PutsMarked(inPool[u], n)
  BY <1>1, <1>7 DEF NodeKept
<1>9. freeListRefs[n] = SHOULD_BE_ON_FREELIST + 1 <=> Awaited(n) /\ HeldBy(n)' = {}
  <2>1. CASE Awaited(n)
    <3>1. freeListRefs[n] = Cardinality(HeldBy(n)) + 0 + SHOULD_BE_ON_FREELIST
      BY <1>1, <2>1, AwaitedUnlisted DEF NodeKept
    <3> QED  BY <1>7, <2>1, <3>1
  <2>2. CASE ~Awaited(n)
    <3>1. freeListRefs[n] <= Cardinality(HeldBy(n)) + 1
      BY <1>1, <1>7, <2>2 DEF NodeKept
    <3> QED  BY <1>1, <1>7, <2>2, <3>1
  <2> QED  BY <2>1, <2>2
<1>10. NodeKept(n)'
  <2>1. \A u \in PoolThreads : inPool'[u] = IF u = t THEN r ELSE inPool[u]
    BY <1>1, <1>3 DEF PoolTyped
  <2>2. /\ \A u \in PoolThreads : PutsCounted(inPool'[u], n) <=> PutsCounted(inPool[u], n)
        /\ \A u \in PoolThreads : Drops(inPool'[u], n) <=> Drops(inPool[u], n)
    BY <1>6, <2>1
  <2>3. /\ IsOwned(n)' <=> IsOwned(n)
        /\ Awaited(n)' <=> Awaited(n)
        /\ HeldByList(n)' <=> HeldByList(n)
    BY <1>1, <1>5, <2>2, ListedBy DEF IsOwned, Awaited
  <2>4. freeListRefs'[n] = Cardinality(HeldBy(n)') + (IF HeldByList(n)' THEN 1 ELSE 0)
                         + (IF Awaited(n)' THEN SHOULD_BE_ON_FREELIST ELSE 0)
    <3>1. freeListRefs'[n] = freeListRefs[n] - 1
      BY <1>1 DEF PoolTyped
    <3> QED  BY <1>1, <1>7, <2>3, <3>1 DEF NodeKept
  <2>5. PutsMarked(r, n) <=> Awaited(n) /\ HeldBy(n)' = {}
    BY <1>3, <1>9 DEF PutsMarked
  <2>6. \A u \in PoolThreads : PutsMarked(inPool'[u], n) <=> u = t /\ Awaited(n) /\ HeldBy(n)' = {}
    BY <1>8, <2>1, <2>5
  <2>7. Awaited(n) => ~IsOwned(n) /\ n \notin OnList
                      /\ \A u \in PoolThreads : ~PutsCounted(inPool[u], n)
    BY DEF Awaited
  <2>8. \A u, v \in PoolThreads : inPool'[u].node = n /\ inPool'[v].node = n => u = v
    <3>1. r.node = n => \A u \in PoolThreads : inPool[u].node # n
      <4> SUFFICES ASSUME r.node = n, NEW u \in PoolThreads, inPool[u].node = n PROVE FALSE
        OBVIOUS
      <4>1. Awaited(n)
        BY <1>3, <1>9
      <4> QED  BY <1>8, <2>7, <4>1, Putting DEF PoolInv
    <3> QED  BY <1>1, <2>1, <3>1 DEF NodeKept
  <2>9. /\ \A u, v \in PoolThreads : n \in owned'[u] /\ n \in owned'[v] => u = v
        /\ IsOwned(n)' => n \notin OnList'
    BY <1>1, <1>5, <2>3 DEF NodeKept
  <2>10. \A u \in PoolThreads :
          /\ PutsMarked(inPool'[u], n) \/ PutsCounted(inPool'[u], n) => ~IsOwned(n)' /\ n \notin OnList'
          /\ PutsMarked(inPool'[u], n) => HeldBy(n)' = {}
          /\ Drops(inPool'[u], n) => n \in owned'[u]
    BY <1>1, <1>5, <2>2, <2>3, <2>6, <2>7 DEF NodeKept
  <2>11. Awaited(n)' /\ (\A u \in PoolThreads : ~PutsMarked(inPool'[u], n)) => HeldBy(n)' # {}
    BY <2>3, <2>6
  <2> QED
    BY <2>4, <2>8, <2>9, <2>10, <2>11 DEF NodeKept, PutsMarked, PutsCounted, Drops
<1>11. /\ freeListHead' \in NodeOrNull /\ owned' \in [PoolThreads -> SUBSET Nodes]
       /\ freeListRefs' \in [Nodes -> Nat]
       /\ \A m \in Nodes \ {n} : freeListRefs'[m] = freeListRefs[m]
  <2>1. freeListRefs[n] >= Cardinality(HeldBy(n))
    BY <1>1, <1>7 DEF NodeKept
  <2>2. freeListRefs[n] - 1 \in Nat
    BY <1>1, <1>7, <2>1
  <2> QED  BY <1>1, <2>2 DEF PoolTyped
<1> QED  BY <1>1, <1>3, <1>5, <1>6, <1>10, <1>11, NodeStep

(* The owner sets the bit, and puts the node on the list when nobody has a *)
(* reference.                                                              *)
LEMMA AddStep ==
  ASSUME PoolInv, NEW t \in PoolThreads, NEW n \in Nodes, Add(t, n)
  PROVE  PoolInv'
<1> USE PoolNumbers
<1>1. /\ inPool[t] \in Locals /\ LocalOk(inPool[t]) /\ inPool[t].pc = "idle" /\ n \in owned[t]
      /\ UNCHANGED <<freeListHead, freeListNext>> /\ PoolTyped /\ NodeKept(n)
      /\ freeListRefs' = [freeListRefs EXCEPT ![n] = freeListRefs[n] + SHOULD_BE_ON_FREELIST]
      /\ owned' = [owned EXCEPT ![t] = owned[t] \ {n}]
      /\ freeListRefs[n] \in Nat
  BY DEF PoolInv, PoolTyped, Add, PoolAt, SetRefs
<1>2. inPool[t].node = Null
  BY <1>1 DEF LocalOk, PutPcs
<1>3. PICK r \in Locals :
        /\ inPool' = [inPool EXCEPT ![t] = r] /\ LocalOk(r)
        /\ \/ freeListRefs[n] = 0 /\ r.pc = "putLoad" /\ r.node = n
           \/ freeListRefs[n] # 0 /\ r.pc = "idle" /\ r.node = Null
  <2>1. CASE freeListRefs[n] = 0
    <3> DEFINE r == [inPool[t] EXCEPT !.pc = "putLoad", !.node = n]
    <3>1. inPool' = [inPool EXCEPT ![t] = r]
      BY <2>1 DEF Add, PutBack, PoolSet
    <3>2. r \in Locals /\ LocalOk(r) /\ r.pc = "putLoad" /\ r.node = n
      BY <1>1 DEF Locals, LocalOk, PoolPcs, PutPcs, NodeOrNull
    <3> QED  BY <2>1, <3>1, <3>2
  <2>2. CASE freeListRefs[n] # 0
    <3>1. inPool' = [inPool EXCEPT ![t] = inPool[t]]
      BY <1>1, <2>2 DEF Add, PoolTyped
    <3> QED  BY <1>1, <1>2, <2>2, <3>1
  <2> QED  BY <2>1, <2>2
<1>4. /\ IsOwned(n) /\ n \notin OnList /\ \A u \in PoolThreads : n \in owned[u] => u = t
      /\ \A u \in PoolThreads : /\ ~PutsMarked(inPool[u], n) /\ ~PutsCounted(inPool[u], n)
                                /\ ~Drops(inPool[u], n)
  BY <1>1 DEF NodeKept, IsOwned, Drops
<1>5. ListKept' /\ OnList' = OnList
  BY <1>1, SameList DEF PoolInv
<1>6. \A m \in Nodes :
           /\ Holds(r, m) <=> Holds(inPool[t], m)
           /\ m # n => (PutsMarked(r, m) <=> PutsMarked(inPool[t], m))
           /\ PutsCounted(r, m) <=> PutsCounted(inPool[t], m)
           /\ Drops(r, m) <=> Drops(inPool[t], m)
  BY <1>1, <1>3 DEF Holds, PutsMarked, PutsCounted, Drops
<1>7. HeldBy(n)' = HeldBy(n)
  BY <1>1, <1>3, <1>6, HoldersSame
<1>8. freeListRefs[n] = Cardinality(HeldBy(n)) /\ (HeldBy(n) = {} <=> freeListRefs[n] = 0)
  <2>1. ~HeldByList(n) /\ ~Awaited(n)
    BY <1>4, ListedBy DEF Awaited
  <2>2. freeListRefs[n] = Cardinality(HeldBy(n)) + 0 + 0
    BY <1>1, <2>1 DEF NodeKept
  <2> QED  BY <2>2, HoldersCounted
<1>9. \A u \in PoolThreads : owned'[u] = IF u = t THEN owned[t] \ {n} ELSE owned[u]
  BY <1>1 DEF PoolTyped
<1>10. NodeKept(n)'
  <2>1. \A u \in PoolThreads : inPool'[u] = IF u = t THEN r ELSE inPool[u]
    BY <1>1, <1>3 DEF PoolTyped
  <2>2. \A u \in PoolThreads : n \notin owned'[u]
    BY <1>4, <1>9
  <2>3. \A u \in PoolThreads : ~PutsCounted(inPool'[u], n) /\ ~Drops(inPool'[u], n)
    BY <1>4, <1>6, <2>1
  <2>4. ~IsOwned(n)' /\ Awaited(n)' /\ ~HeldByList(n)' /\ n \notin OnList'
    BY <1>4, <1>5, <2>2, <2>3, ListedBy DEF IsOwned, Awaited
  <2>5. freeListRefs'[n] = Cardinality(HeldBy(n)') + 0 + SHOULD_BE_ON_FREELIST
    BY <1>1, <1>7, <1>8 DEF PoolTyped
  <2>6. PutsMarked(r, n) <=> freeListRefs[n] = 0
    BY <1>3 DEF PutsMarked
  <2>7. \A u \in PoolThreads : PutsMarked(inPool'[u], n) <=> u = t /\ HeldBy(n)' = {}
    BY <1>4, <1>7, <1>8, <2>1, <2>6
  <2>8. \A u \in PoolThreads : inPool[u].node # n
    BY <1>4, Putting DEF PoolInv
  <2>9. \A u, v \in PoolThreads : inPool'[u].node = n /\ inPool'[v].node = n => u = v
    BY <2>1, <2>8
  <2> QED
    BY <2>2, <2>3, <2>4, <2>5, <2>7, <2>9 DEF NodeKept, PutsMarked, PutsCounted, Drops
<1>11. /\ freeListHead' \in NodeOrNull /\ owned' \in [PoolThreads -> SUBSET Nodes]
       /\ freeListRefs' \in [Nodes -> Nat]
       /\ \A m \in Nodes \ {n} : freeListRefs'[m] = freeListRefs[m]
  BY <1>1 DEF PoolTyped
<1> QED  BY <1>1, <1>3, <1>5, <1>6, <1>9, <1>10, <1>11, NodeStep

-----------------------------------------------------------------------------
(* The invariant, and what follows from it.                                *)

LEMMA PoolStart == PoolInit => PoolInv
<1> SUFFICES ASSUME PoolInit PROVE PoolInv
  OBVIOUS
<1> USE PoolNumbers
<1>1. PICK f \in [Nodes -> PoolThreads] :
        owned = [t \in PoolThreads |-> {n \in Nodes : f[n] = t}]
  BY DEF PoolInit
<1>2. PoolTyped
  BY <1>1, IdleOk DEF PoolInit, PoolTyped, NodeOrNull
<1>3. \A t \in PoolThreads : inPool[t] = PoolIdle
  BY DEF PoolInit
<1>4. \A t \in PoolThreads : LocalOk(inPool[t])
  BY <1>3, IdleOk
<1> DEFINE L == [i \in {0} |-> Null]
<1>5. IsStack(L, 0, freeListHead, freeListNext, Null) /\ Members(L, 0) = {}
  BY DEF PoolInit, IsStack, Members
<1>6. ListKept /\ OnList = {}
  BY <1>5, StackOnList DEF ListKept
<1>7. ASSUME NEW m \in Nodes PROVE NodeKept(m)
  <2>1. \A t \in PoolThreads : /\ ~Holds(inPool[t], m) /\ ~PutsMarked(inPool[t], m)
                               /\ ~PutsCounted(inPool[t], m) /\ ~Drops(inPool[t], m)
                               /\ inPool[t].node # m
    BY <1>3 DEF PoolIdle, Holds, PutsMarked, PutsCounted, Drops
  <2>2. \A t \in PoolThreads : m \in owned[t] <=> f[m] = t
    BY <1>1
  <2>3. IsOwned(m) /\ ~Awaited(m)
    BY <2>2 DEF IsOwned, Awaited
  <2>4. HeldBy(m) = {} /\ ~HeldByList(m)
    BY <1>6, <2>1, HoldersCounted, ListedBy
  <2>5. freeListRefs[m] = Cardinality(HeldBy(m)) + 0 + 0
    BY <2>4, FS_EmptySet DEF PoolInit
  <2> QED  BY <1>6, <2>1, <2>2, <2>3, <2>4, <2>5 DEF NodeKept
<1> QED  BY <1>2, <1>4, <1>6, <1>7 DEF PoolInv

LEMMA EveryPoolStep ==
  ASSUME PoolInv, [PoolNext]_poolVars
  PROVE  PoolInv'
<1>1. ASSUME NEW t \in PoolThreads, PoolStep(t) PROVE PoolInv'
  BY <1>1, PutLoadStep, PutNextStep, PutRefsStep, PutHeadDone, PutHeadFails, PutAgainStep,
     LoopStep, LoadRefsStep, ReferenceDone, ReferenceFails, ReadNextStep, TakeDone, TakeFails,
     DropStep, ReleaseStep DEF PoolStep
<1>2. CASE UNCHANGED poolVars
  <2>1. UNCHANGED <<freeListHead, freeListRefs, freeListNext, inPool, owned>>
    BY <1>2 DEF poolVars, nodeVars
  <2>2. PoolTyped' /\ ListKept' /\ (\A t \in PoolThreads : LocalOk(inPool[t]))'
    BY <2>1 DEF PoolInv, PoolTyped, ListKept, LocalOk
  <2>3. ASSUME NEW m \in Nodes PROVE NodeKept(m)'
    <3>1. /\ HeldBy(m)' = HeldBy(m) /\ (HeldByList(m)' <=> HeldByList(m)) /\ OnList' = OnList
          /\ (Awaited(m)' <=> Awaited(m)) /\ (IsOwned(m)' <=> IsOwned(m))
      BY <2>1 DEF HeldBy, HeldByList, OnList, Awaited, IsOwned, PutsCounted, PoolAt
    <3>2. NodeKept(m)
      BY DEF PoolInv
    <3>3. freeListRefs'[m] = Cardinality(HeldBy(m)') + (IF HeldByList(m)' THEN 1 ELSE 0)
                         + (IF Awaited(m)' THEN SHOULD_BE_ON_FREELIST ELSE 0)
      BY <2>1, <3>1, <3>2 DEF NodeKept
    <3> QED  BY <2>1, <3>1, <3>2, <3>3 DEF NodeKept, PutsMarked, PutsCounted, Drops
  <2> QED  BY <2>2, <2>3 DEF PoolInv
<1> QED  BY <1>1, <1>2, AddStep, LoopStep DEF PoolNext

LEMMA PoolInvariance == PoolSpec => []PoolInv
<1>1. PoolInit => PoolInv
  BY PoolStart
<1>2. PoolInv /\ [PoolNext]_poolVars => PoolInv'
  BY EveryPoolStep
<1> QED  BY <1>1, <1>2, PTL DEF PoolSpec

LEMMA PoolInvKept == PoolInv => PoolKept
<1> SUFFICES ASSUME PoolInv PROVE PoolKept
  OBVIOUS
<1> USE PoolNumbers
<1>1. ASSUME NEW n \in Nodes
      PROVE  /\ References(n) = Cardinality(HeldBy(n)) + (IF HeldByList(n) THEN 1 ELSE 0)
             /\ Marked(n) <=> Awaited(n)
  <2> DEFINE c == Cardinality(HeldBy(n)) + (IF HeldByList(n) THEN 1 ELSE 0)
  <2>1. c \in Nat /\ c < SHOULD_BE_ON_FREELIST
    BY HoldersCounted
  <2>2. freeListRefs[n] = c + (IF Awaited(n) THEN SHOULD_BE_ON_FREELIST ELSE 0)
    BY DEF PoolInv, NodeKept
  <2> HIDE DEF c
  <2>3. c % SHOULD_BE_ON_FREELIST = c /\ (c + SHOULD_BE_ON_FREELIST) % SHOULD_BE_ON_FREELIST = c
    BY <2>1
  <2>4. freeListRefs[n] % SHOULD_BE_ON_FREELIST = c
    BY <2>1, <2>2, <2>3
  <2>5. freeListRefs[n] >= SHOULD_BE_ON_FREELIST <=> Awaited(n)
    BY <2>1, <2>2
  <2> QED  BY <2>4, <2>5 DEF References, Marked, c
<1>2. RefsCounted
  BY <1>1 DEF RefsCounted
<1>3. NoBlockLost
  <2> SUFFICES ASSUME NEW n \in Nodes, ~IsOwned(n)
               PROVE  \/ n \in OnList /\ PutBy(n) = {}
                      \/ n \notin OnList /\ Cardinality(PutBy(n)) = 1
                      \/ n \notin OnList /\ PutBy(n) = {} /\ Marked(n) /\ HeldBy(n) # {}
    BY DEF NoBlockLost, IsOwned
  <2>1. NodeKept(n) /\ \A t \in PoolThreads :
          inPool[t].node = n <=> PutsMarked(inPool[t], n) \/ PutsCounted(inPool[t], n)
    BY Putting DEF PoolInv
  <2>2. CASE n \in OnList
    BY <2>1, <2>2 DEF NodeKept, PutBy
  <2>3. CASE n \notin OnList /\ PutBy(n) # {}
    <3>1. PICK t \in PoolThreads : inPool[t].node = n
      BY <2>3 DEF PutBy
    <3>2. PutBy(n) = {t}
      BY <2>1, <3>1 DEF NodeKept, PutBy
    <3> QED  BY <2>3, <3>2, FS_Singleton
  <2>4. CASE n \notin OnList /\ PutBy(n) = {}
    <3>1. \A t \in PoolThreads : ~PutsMarked(inPool[t], n) /\ ~PutsCounted(inPool[t], n)
      BY <2>1, <2>4 DEF PutBy
    <3>2. Awaited(n)
      BY <2>4, <3>1 DEF Awaited
    <3> QED  BY <1>1, <2>1, <2>4, <3>1, <3>2 DEF NodeKept
  <2> QED  BY <2>2, <2>3, <2>4
<1>4. TakenIsUnmarked
  <2> SUFFICES ASSUME NEW t \in PoolThreads, inPool[t].pc = "drop"
               PROVE  ~Marked(inPool[t].head)
    BY DEF TakenIsUnmarked, PoolAt
  <2>1. inPool[t].head \in Nodes
    BY DEF PoolInv, PoolTyped, Locals, LocalOk, NodeOrNull
  <2>2. IsOwned(inPool[t].head)
    BY <2>1 DEF PoolInv, NodeKept, Drops, IsOwned
  <2> QED  BY <1>1, <2>1, <2>2 DEF Awaited
<1> QED  BY <1>2, <1>3, <1>4 DEF PoolKept

(* However the exchanges of add and try_get interleave and fail, no block  *)
(* is lost, and none is on the free list while somebody owns it or is      *)
(* putting it there; a thread that reads a block's next pointer holds one  *)
(* of the references that its count shows.                                 *)
THEOREM BlocksAreKept == PoolSpec => []PoolKept
BY PoolInvariance, PoolInvKept, PTL

(* A block has one owner at a time: add gives up a block that the thread   *)
(* owns, and try_get takes only one that is free.                          *)
THEOREM FreeListIsPool == PoolSpec => Pool!Spec
<1>1. PoolInit => Pool!Init
  BY DEF PoolInit, Pool!Init
<1>2. PoolInv /\ [PoolNext]_poolVars => [Pool!Next]_owned
  <2> SUFFICES ASSUME PoolInv, PoolNext, owned' # owned PROVE Pool!Next
    BY DEF poolVars
  <2>1. ASSUME NEW t \in PoolThreads, NEW n \in Nodes, Add(t, n) PROVE Pool!Next
    BY <2>1 DEF Add, Pool!Next, Pool!Add
  <2>2. ASSUME NEW t \in PoolThreads, Take(t), freeListHead = inPool[t].head PROVE Pool!Next
    BY <2>2, TakeDone DEF Pool!Next, Pool!Get, Pool!Free, IsOwned
  <2> QED
    BY <2>1, <2>2 DEF PoolNext, PoolStep, TryGet, PutLoad, PutNext, PutRefs, PutHead, PutAgain,
      GetHead, LoadRefs, Reference, ReadNext, Take, Drop, Release
<1> QED  BY <1>1, <1>2, PoolInvariance, PTL DEF PoolSpec, Pool!Spec

-----------------------------------------------------------------------------
(***************************************************************************)
(* ProducerHash: every thread finds its own producer.                      *)
(***************************************************************************)

(* The inductive invariant behind OneProducerEach.                         *)

Slots(h) == 0..(CapacityOf(h) - 1)
Filled(h, i) == hashes[h].keys[i] # invalid_thread_id
InTable(t, h) == \E i \in Slots(h) : hashes[h].keys[i] = t
InNoTable(t) == \A h \in 1..Len(hashes) : ~InTable(t, h)

(* How far the slot i is from where the probing for t starts.              *)
Dist(t, h, i) ==
  IF i >= Start(t, h) THEN i - Start(t, h) ELSE i - Start(t, h) + CapacityOf(h)

TableSet ==
  UNION {[keys : [0..(c - 1) -> HashThreads \cup {invalid_thread_id}],
          values : [0..(c - 1) -> Nat]] : c \in Nat \ {0}}

(* A thread has one entry in a table at most, and there is no free slot    *)
(* before it where the probing for that thread goes.                       *)
TablesOk ==
  /\ hashes \in Seq(TableSet) /\ Len(hashes) # 0
  /\ \A h, g \in 1..Len(hashes) : h <= g => CapacityOf(h) <= CapacityOf(g)
  /\ \A h \in 1..Len(hashes) : \A i, j \in Slots(h) :
       Filled(h, i) =>
         /\ hashes[h].keys[i] = hashes[h].keys[j] => i = j
         /\ LET t == hashes[h].keys[i]
            IN  Dist(t, h, j) < Dist(t, h, i) => Filled(h, j)

CountPcs == {"grow", "resize", "clear", "room"}
ListPcs == {"list", "push"}
HashPcs == {"idle", "probe", "insert", "count", "failed"} \cup CountPcs \cup ListPcs
HashLocals ==
  [pc : HashPcs, mainHash : Nat, hash : Nat, index : Nat, newCount : Nat,
   producer : Nat, prevTail : Nat]

(* What a thread with the locals r knows of the tables it has gone         *)
(* through.                                                                *)
Knows(t, r) ==
  /\ r \in HashLocals
  /\ r.pc # "idle" => r.mainHash \in 1..Len(hashes)
  /\ r.pc \in {"insert"} \cup ListPcs <=> r.producer # NoProducer
  /\ r.pc = "probe" =>
       /\ r.hash \in 1..r.mainHash /\ r.index \in Slots(r.hash)
       /\ \A i \in Slots(r.hash) :
            Dist(t, r.hash, i) < Dist(t, r.hash, r.index) =>
              Filled(r.hash, i) /\ hashes[r.hash].keys[i] # t
       /\ \A g \in 1..Len(hashes) : g > r.hash => ~InTable(t, g)
  /\ r.pc = "insert" =>
       /\ r.hash = r.mainHash /\ r.index \in Slots(r.hash) /\ ~InTable(t, r.hash)
       /\ \A i \in Slots(r.hash) :
            Dist(t, r.hash, i) < Dist(t, r.hash, r.index) => Filled(r.hash, i)
  /\ r.pc \in {"count", "failed"} \cup CountPcs \cup ListPcs => InNoTable(t)
ThreadOk(t) == Knows(t, inHash[t])

(* Whose producer a producer is: it is stored in the thread's entries, or  *)
(* the thread is about to store it there.                                  *)
Stored(t, p) ==
  \E h \in 1..Len(hashes) : \E i \in Slots(h) :
    hashes[h].keys[i] = t /\ hashes[h].values[i] = p
Owns(t, p) == Stored(t, p) \/ (inHash[t].producer = p /\ p # NoProducer)

OwnersOk ==
  /\ next \in Seq(Nat) /\ got \in [HashThreads -> SUBSET Nat]
  /\ \A h \in 1..Len(hashes) : \A i \in Slots(h) :
       /\ hashes[h].values[i] \in 0..Len(next)
       /\ Filled(h, i) => hashes[h].values[i] # NoProducer
  /\ \A t \in HashThreads : inHash[t].producer \in 0..Len(next)
  /\ \A t, u \in HashThreads : \A p, q \in 1..Len(next) :
       Owns(t, p) /\ Owns(u, q) => (t = u <=> p = q)
  /\ \A t \in HashThreads : \A p \in got[t] : Stored(t, p)

(* The threads that the count is of, and those that a table must have room *)
(* for once less than r entries of it may be used: the threads that it was *)
(* big enough for, and those that will find that it is.                    *)
Counted == {t \in HashThreads : inHash[t].pc \in CountPcs \/ inHash[t].producer # NoProducer
                                  \/ ~InNoTable(t)}
Room(h) == CapacityOf(h) \div 2 + CapacityOf(h) \div 4
Within(t, r) ==
  \/ inHash[t].pc \in CountPcs /\ inHash[t].newCount < r
  \/ \E h \in 1..Len(hashes) :
       /\ Room(h) <= r
       /\ InTable(t, h) \/ (inHash[t].producer # NoProducer /\ inHash[t].mainHash = h)
Users(r) == {t \in HashThreads : Within(t, r)}

CountsOk ==
  /\ implicitProducerHashCount = Cardinality(Counted)
  /\ \A r \in Nat : Users(r) # {} => Cardinality(Users(r)) < r

(* One thread at a time makes a table, in place of the last one.           *)
Resizing(t) == inHash[t].pc \in {"resize", "clear", "failed"}
ResizeOk ==
  /\ implicitProducerHashResizeInProgress \in BOOLEAN
  /\ \A t \in HashThreads :
       /\ Resizing(t) => implicitProducerHashResizeInProgress
       /\ inHash[t].pc = "resize" => inHash[t].mainHash = Len(hashes)
  /\ \A t, u \in HashThreads : Resizing(t) /\ Resizing(u) => t = u

(* The producers' list is a stack of those that have been pushed.          *)
ListOf(L, k) ==
  /\ IsStack(L, k, producerListTail, next, NoProducer)
  /\ Members(L, k) \subseteq 1..Len(next)
  /\ \A t \in HashThreads : \A p \in 1..Len(next) :
       Owns(t, p) => (p \in Members(L, k) <=> inHash[t].pc \notin ListPcs)
ListOk ==
  /\ \E L : \E k \in Nat : ListOf(L, k)
  /\ \A t \in HashThreads :
       inHash[t].pc = "push" => next[inHash[t].producer] = inHash[t].prevTail

HashInv ==
  /\ inHash \in [HashThreads -> HashLocals]
  /\ TablesOk /\ (\A t \in HashThreads : ThreadOk(t))
  /\ OwnersOk /\ CountsOk /\ ResizeOk /\ ListOk

-----------------------------------------------------------------------------
(* Lemmas.                                                                 *)

LEMMA HashNumbers ==
  /\ IsFiniteSet(HashThreads) /\ invalid_thread_id \notin HashThreads
  /\ Cardinality(HashThreads) \in Nat /\ HashedId \in [HashThreads -> Nat] /\ MaxFailures \in Nat
  /\ INITIAL_IMPLICIT_PRODUCER_HASH_SIZE \in Nat \ {0}
BY HashAssumption, FS_CardinalityType

LEMMA SlotsOf ==
  ASSUME NEW c \in Nat
  PROVE  Cardinality(0..(c - 1)) = c
BY FS_Interval

LEMMA TableShape ==
  ASSUME NEW T \in TableSet
  PROVE  /\ Cardinality(DOMAIN T.keys) \in Nat \ {0}
         /\ T.keys \in [0..(Cardinality(DOMAIN T.keys) - 1) -> HashThreads \cup {invalid_thread_id}]
         /\ T.values \in [0..(Cardinality(DOMAIN T.keys) - 1) -> Nat]
         /\ T = [keys |-> T.keys, values |-> T.values]
<1>1. PICK c \in Nat \ {0} :
        T \in [keys : [0..(c - 1) -> HashThreads \cup {invalid_thread_id}],
               values : [0..(c - 1) -> Nat]]
  BY DEF TableSet
<1>2. DOMAIN T.keys = 0..(c - 1)
  BY <1>1
<1>3. Cardinality(DOMAIN T.keys) = c
  BY <1>2, SlotsOf
<1> QED  BY <1>1, <1>3

(* A table is what its keys and values say, and it stays a table when an   *)
(* entry is written.                                                       *)
LEMMA TableWith ==
  ASSUME NEW c \in Nat \ {0}, NEW ks \in [0..(c - 1) -> HashThreads \cup {invalid_thread_id}],
         NEW vs \in [0..(c - 1) -> Nat]
  PROVE  /\ [keys |-> ks, values |-> vs] \in TableSet
         /\ Cardinality(DOMAIN [keys |-> ks, values |-> vs].keys) = c
<1>1. [keys |-> ks, values |-> vs] \in
        [keys : [0..(c - 1) -> HashThreads \cup {invalid_thread_id}], values : [0..(c - 1) -> Nat]]
  OBVIOUS
<1>2. DOMAIN [keys |-> ks, values |-> vs].keys = 0..(c - 1)
  OBVIOUS
<1> QED  BY <1>1, <1>2, SlotsOf DEF TableSet

LEMMA NewTable ==
  ASSUME NEW c \in Nat \ {0}
  PROVE  /\ Table(c) \in TableSet /\ Cardinality(DOMAIN Table(c).keys) = c
         /\ \A i \in 0..(c - 1) :
              Table(c).keys[i] = invalid_thread_id /\ Table(c).values[i] = NoProducer
<1> DEFINE ks == [i \in 0..(c - 1) |-> invalid_thread_id]
           vs == [i \in 0..(c - 1) |-> NoProducer]
<1>1. /\ ks \in [0..(c - 1) -> HashThreads \cup {invalid_thread_id}] /\ vs \in [0..(c - 1) -> Nat]
      /\ \A i \in 0..(c - 1) : ks[i] = invalid_thread_id /\ vs[i] = NoProducer
  BY DEF NoProducer
<1>2. Table(c) = [keys |-> ks, values |-> vs]
  BY DEF Table
<1> HIDE DEF ks, vs
<1> QED  BY <1>1, <1>2, TableWith

LEMMA Tables ==
  ASSUME TablesOk, NEW h \in 1..Len(hashes)
  PROVE  /\ Len(hashes) \in Nat \ {0} /\ CapacityOf(h) \in Nat \ {0}
         /\ hashes[h].keys \in [Slots(h) -> HashThreads \cup {invalid_thread_id}]
         /\ hashes[h].values \in [Slots(h) -> Nat]
         /\ hashes[h] = [keys |-> hashes[h].keys, values |-> hashes[h].values]
         /\ \A t \in HashThreads : Start(t, h) \in Slots(h)
<1>1. hashes[h] \in TableSet /\ Len(hashes) \in Nat \ {0}
  BY DEF TablesOk
<1>2. CapacityOf(h) \in Nat \ {0}
  BY <1>1, TableShape DEF CapacityOf
<1>3. ASSUME NEW t \in HashThreads PROVE Start(t, h) \in Slots(h)
  <2>1. HashedId[t] \in Nat
    BY HashNumbers
  <2>2. HashedId[t] % CapacityOf(h) \in 0..(CapacityOf(h) - 1)
    BY <1>2, <2>1
  <2> QED  BY <2>2 DEF Start, Slots
<1> QED  BY <1>1, <1>2, <1>3, TableShape DEF CapacityOf, Slots

LEMMA StartIs ==
  ASSUME TablesOk, NEW h \in 1..Len(hashes), NEW t \in HashThreads
  PROVE  /\ Start(t, h) \in Slots(h) /\ Start(t, h) \in Nat /\ h \in Nat
         /\ \A i \in Slots(h) : i \in Nat /\ Dist(t, h, i) \in Nat
                                /\ ~(Dist(t, h, i) < Dist(t, h, Start(t, h)))
<1>1. CapacityOf(h) \in Nat \ {0} /\ Start(t, h) \in Slots(h)
  BY Tables
<1>2. Len(hashes) \in Nat /\ h \in Nat
  BY DEF TablesOk
<1> QED  BY <1>1, <1>2 DEF Slots, Dist

LEMMA DistIs ==
  ASSUME TablesOk, NEW h \in 1..Len(hashes), NEW t \in HashThreads
  PROVE  /\ \A i \in Slots(h) : Dist(t, h, i) \in Slots(h)
         /\ \A i, j \in Slots(h) : Dist(t, h, i) = Dist(t, h, j) => i = j
         /\ Dist(t, h, Start(t, h)) = 0
         /\ \A i \in Slots(h) :
              LET j == (i + 1) % CapacityOf(h)
              IN  j \in Slots(h) /\ Dist(t, h, j) \in {0, Dist(t, h, i) + 1}
<1>1. CapacityOf(h) \in Nat \ {0} /\ Start(t, h) \in Slots(h)
  BY Tables
<1>2. \A i \in Slots(h) : (i + 1) % CapacityOf(h) = IF i + 1 = CapacityOf(h) THEN 0 ELSE i + 1
  BY <1>1 DEF Slots
<1>3. \A i \in Slots(h) : Dist(t, h, i) \in Slots(h)
  BY <1>1 DEF Slots, Dist
<1>4. \A i, j \in Slots(h) : Dist(t, h, i) = Dist(t, h, j) => i = j
  BY <1>1 DEF Slots, Dist
<1>5. Dist(t, h, Start(t, h)) = 0
  BY <1>1 DEF Slots, Dist
<1>6. ASSUME NEW i \in Slots(h), NEW j, j = IF i + 1 = CapacityOf(h) THEN 0 ELSE i + 1
      PROVE  j \in Slots(h) /\ Dist(t, h, j) \in {0, Dist(t, h, i) + 1}
  BY <1>1, <1>6 DEF Slots, Dist
<1> QED  BY <1>2, <1>3, <1>4, <1>5, <1>6

(* No table loses an entry, and whatever entries are new are those of t.   *)
Grown(t) ==
  /\ Len(hashes') \in Nat /\ Len(hashes) <= Len(hashes')
  /\ \A h \in 1..Len(hashes) :
       /\ CapacityOf(h)' = CapacityOf(h)
       /\ \A i \in Slots(h) :
            \/ hashes'[h].keys[i] = hashes[h].keys[i]
            \/ ~Filled(h, i) /\ hashes'[h].keys[i] = t
  /\ \A h \in 1..Len(hashes') : h > Len(hashes) => \A u \in HashThreads : ~InTable(u, h)'

LEMMA SameTables ==
  ASSUME UNCHANGED hashes, TablesOk
  PROVE  /\ TablesOk' /\ \A t \in HashThreads : Grown(t)
         /\ \A h : CapacityOf(h)' = CapacityOf(h) /\ Slots(h)' = Slots(h)
         /\ \A t, h : (InTable(t, h)' <=> InTable(t, h))
         /\ \A t : (InNoTable(t)' <=> InNoTable(t))
         /\ \A t, p : (Stored(t, p)' <=> Stored(t, p))
<1>1. \A h : CapacityOf(h)' = CapacityOf(h) /\ Slots(h)' = Slots(h)
  BY DEF CapacityOf, Slots
<1>2. \A t, h : (InTable(t, h)' <=> InTable(t, h))
  BY <1>1 DEF InTable
<1>3. \A t, p : (Stored(t, p)' <=> Stored(t, p))
  BY <1>1 DEF Stored
<1>4. \A t : (InNoTable(t)' <=> InNoTable(t))
  BY <1>2 DEF InNoTable
<1>5. \A t, h, i : Start(t, h)' = Start(t, h) /\ Dist(t, h, i)' = Dist(t, h, i)
  BY <1>1 DEF Start, Dist
<1>6. TablesOk'
  BY <1>1, <1>5 DEF TablesOk, Filled
<1>7. \A t \in HashThreads : Grown(t)
  BY <1>1 DEF Grown, TablesOk
<1> QED  BY <1>1, <1>2, <1>3, <1>4, <1>6, <1>7

(* What another thread knows of the tables stays true.                     *)
LEMMA GrownFor ==
  ASSUME TablesOk, NEW t \in HashThreads, Grown(t), NEW u \in HashThreads, u # t
  PROVE  /\ \A h \in 1..Len(hashes') : InTable(u, h)' => h \in 1..Len(hashes) /\ InTable(u, h)
         /\ InNoTable(u) => InNoTable(u)'
         /\ \A h \in 1..Len(hashes) :
              /\ h \in 1..Len(hashes') /\ Slots(h)' = Slots(h) /\ Start(u, h)' = Start(u, h)
              /\ \A i \in Slots(h) :
                   /\ Dist(u, h, i)' = Dist(u, h, i) /\ (Filled(h, i) => Filled(h, i)')
                   /\ Filled(h, i) => hashes'[h].keys[i] = hashes[h].keys[i]
<1>1. Len(hashes) \in Nat /\ Len(hashes') \in Nat /\ Len(hashes) <= Len(hashes')
  BY DEF TablesOk, Grown
<1>2. ASSUME NEW h \in 1..Len(hashes)
      PROVE  /\ h \in 1..Len(hashes') /\ Slots(h)' = Slots(h) /\ Start(u, h)' = Start(u, h)
             /\ \A i \in Slots(h) :
                   /\ Dist(u, h, i)' = Dist(u, h, i) /\ (Filled(h, i) => Filled(h, i)')
                   /\ Filled(h, i) => hashes'[h].keys[i] = hashes[h].keys[i]
             /\ InTable(u, h)' => InTable(u, h)
  <2>1. CapacityOf(h)' = CapacityOf(h) /\ h \in 1..Len(hashes')
    BY <1>1 DEF Grown
  <2>2. Slots(h)' = Slots(h) /\ Start(u, h)' = Start(u, h)
    BY <2>1 DEF Slots, Start
  <2>3. \A i : Dist(u, h, i)' = Dist(u, h, i)
    BY <2>1, <2>2 DEF Dist
  <2>4. ASSUME NEW i \in Slots(h)
        PROVE  /\ Filled(h, i) => Filled(h, i)'
               /\ Filled(h, i) => hashes'[h].keys[i] = hashes[h].keys[i]
               /\ hashes'[h].keys[i] = u => hashes[h].keys[i] = u
    BY DEF Grown, Filled
  <2>5. InTable(u, h)' => InTable(u, h)
    BY <2>2, <2>4 DEF InTable
  <2> QED  BY <2>1, <2>2, <2>3, <2>4, <2>5
<1>3. ASSUME NEW h \in 1..Len(hashes'), InTable(u, h)' PROVE h \in 1..Len(hashes) /\ InTable(u, h)
  BY <1>1, <1>2, <1>3 DEF Grown
<1>4. InNoTable(u) => InNoTable(u)'
  BY <1>3 DEF InNoTable
<1> QED  BY <1>2, <1>3, <1>4

LEMMA OthersOk ==
  ASSUME TablesOk, NEW t \in HashThreads, Grown(t), NEW u \in HashThreads, u # t,
         inHash'[u] = inHash[u], ThreadOk(u)
  PROVE  ThreadOk(u)'
<1>0. PICK r : r = inHash[u]
  OBVIOUS
<1>1. /\ r \in HashLocals /\ inHash'[u] = r
      /\ r.pc # "idle" => r.mainHash \in 1..Len(hashes)
      /\ r.pc \in {"insert"} \cup ListPcs <=> r.producer # NoProducer
      /\ r.pc \in {"count", "failed"} \cup CountPcs \cup ListPcs => InNoTable(u)
  BY <1>0 DEF ThreadOk, Knows
<1>2. r.pc \in {"count", "failed"} \cup CountPcs \cup ListPcs => InNoTable(u)'
  BY <1>1, GrownFor
<1>3. r.pc # "idle" => r.mainHash \in 1..Len(hashes')
  BY <1>1, GrownFor
<1>4. ASSUME r.pc = "probe"
      PROVE  /\ r.hash \in 1..r.mainHash /\ r.index \in Slots(r.hash)'
             /\ \A i \in Slots(r.hash)' :
                  Dist(u, r.hash, i)' < Dist(u, r.hash, r.index)' =>
                    Filled(r.hash, i)' /\ hashes'[r.hash].keys[i] # u
             /\ \A g \in 1..Len(hashes') : g > r.hash => ~InTable(u, g)'
  <2>1. /\ r.hash \in 1..r.mainHash /\ r.index \in Slots(r.hash)
        /\ \A i \in Slots(r.hash) :
                  Dist(u, r.hash, i) < Dist(u, r.hash, r.index) =>
                    Filled(r.hash, i) /\ hashes[r.hash].keys[i] # u
        /\ \A g \in 1..Len(hashes) : g > r.hash => ~InTable(u, g)
    BY <1>0, <1>4 DEF ThreadOk, Knows
  <2>2. r.hash \in 1..Len(hashes)
    BY <1>1, <1>4, <2>1 DEF TablesOk
  <2>3. \A g \in 1..Len(hashes') : g > r.hash => ~InTable(u, g)'
    BY <2>1, GrownFor
  <2>4. PICK h \in 1..Len(hashes) : h = r.hash
    BY <2>2
  <2>5. /\ Slots(h)' = Slots(h)
        /\ \A i \in Slots(h) :
             /\ Dist(u, h, i)' = Dist(u, h, i) /\ (Filled(h, i) => Filled(h, i)')
             /\ Filled(h, i) => hashes'[h].keys[i] = hashes[h].keys[i]
    BY GrownFor
  <2>6. \A i \in Slots(h) : Dist(u, h, i)' < Dist(u, h, r.index)' =>
          Filled(h, i)' /\ hashes'[h].keys[i] # u
    <3> SUFFICES ASSUME NEW i \in Slots(h), Dist(u, h, i)' < Dist(u, h, r.index)'
                 PROVE  Filled(h, i)' /\ hashes'[h].keys[i] # u
      OBVIOUS
    <3>1. Dist(u, h, i) < Dist(u, h, r.index)
      BY <2>1, <2>4, <2>5
    <3>2. Filled(h, i) /\ hashes[h].keys[i] # u
      BY <2>1, <2>4, <3>1
    <3> QED  BY <2>5, <3>2
  <2>7. r.hash \in 1..r.mainHash /\ r.index \in Slots(h)'
    BY <2>1, <2>4, <2>5
  <2> QED  BY <2>3, <2>4, <2>5, <2>6, <2>7
<1>5. ASSUME r.pc = "insert"
      PROVE  /\ r.hash = r.mainHash /\ r.index \in Slots(r.hash)' /\ ~InTable(u, r.hash)'
             /\ \A i \in Slots(r.hash)' :
                  Dist(u, r.hash, i)' < Dist(u, r.hash, r.index)' => Filled(r.hash, i)'
  <2>1. /\ r.hash = r.mainHash /\ r.index \in Slots(r.hash) /\ ~InTable(u, r.hash)
        /\ \A i \in Slots(r.hash) :
             Dist(u, r.hash, i) < Dist(u, r.hash, r.index) => Filled(r.hash, i)
    BY <1>0, <1>5 DEF ThreadOk, Knows
  <2>2. r.hash \in 1..Len(hashes)
    BY <1>1, <1>5, <2>1
  <2>3. PICK h \in 1..Len(hashes) : h = r.hash
    BY <2>2
  <2>4. /\ Slots(h)' = Slots(h) /\ ~InTable(u, h)'
        /\ \A i \in Slots(h) :
             Dist(u, h, i)' = Dist(u, h, i) /\ (Filled(h, i) => Filled(h, i)')
    <3>1. ~InTable(u, h)
      BY <2>1, <2>3
    <3>2. h \in 1..Len(hashes') /\ (InTable(u, h)' => InTable(u, h))
      BY GrownFor
    <3>3. \A i \in Slots(h) :
             Dist(u, h, i)' = Dist(u, h, i) /\ (Filled(h, i) => Filled(h, i)')
      BY GrownFor
    <3>4. Slots(h)' = Slots(h)
      BY GrownFor
    <3> QED  BY <3>1, <3>2, <3>3, <3>4
  <2>5. \A i \in Slots(h) : Dist(u, h, i)' < Dist(u, h, r.index)' => Filled(h, i)'
    BY <2>1, <2>3, <2>4
  <2> QED  BY <2>1, <2>3, <2>4, <2>5
<1> QED  BY <1>1, <1>2, <1>3, <1>4, <1>5 DEF ThreadOk, Knows

LEMMA HashLocalsStep ==
  ASSUME inHash \in [HashThreads -> HashLocals], NEW t \in HashThreads, NEW r \in HashLocals,
         inHash' = [inHash EXCEPT ![t] = r]
  PROVE  /\ inHash' \in [HashThreads -> HashLocals] /\ inHash'[t] = r
         /\ \A u \in HashThreads : u # t => inHash'[u] = inHash[u]
OBVIOUS

LEMMA ThreadsOk ==
  ASSUME HashInv, NEW t \in HashThreads, NEW r \in HashLocals,
         inHash' = [inHash EXCEPT ![t] = r], Grown(t), ThreadOk(t)'
  PROVE  (\A u \in HashThreads : ThreadOk(u))'
<1> SUFFICES ASSUME NEW u \in HashThreads PROVE ThreadOk(u)'
  OBVIOUS
<1>1. u # t => inHash'[u] = inHash[u]
  BY DEF HashInv
<1> QED  BY <1>1, OthersOk DEF HashInv

(* A step that keeps the entries and the owners.                           *)
LEMMA OwnersSame ==
  ASSUME HashInv, UNCHANGED hashes, NEW t \in HashThreads, NEW r \in HashLocals,
         inHash' = [inHash EXCEPT ![t] = r], r.producer \in 0..Len(next),
         next' \in Seq(Nat), Len(next') = Len(next),
         \A p \in 1..Len(next) : Owns(t, p)' <=> Owns(t, p),
         got' \in [HashThreads -> SUBSET Nat], \A u \in HashThreads : \A p \in got'[u] : Stored(u, p)
  PROVE  /\ OwnersOk'
         /\ \A u \in HashThreads : \A p \in 1..Len(next) : Owns(u, p)' <=> Owns(u, p)
<1>1. /\ inHash' \in [HashThreads -> HashLocals] /\ inHash'[t] = r
      /\ \A u \in HashThreads : u # t => inHash'[u] = inHash[u]
  BY DEF HashInv
<1>2. \A u, p : (Stored(u, p)' <=> Stored(u, p))
  BY SameTables DEF HashInv
<1>3. \A u \in HashThreads : \A p \in 1..Len(next) : Owns(u, p)' <=> Owns(u, p)
  BY <1>1, <1>2 DEF Owns
<1>4. \A u \in HashThreads : inHash'[u].producer \in 0..Len(next')
  BY <1>1 DEF HashInv, OwnersOk
<1>5. \A h \in 1..Len(hashes') : \A i \in Slots(h)' :
        /\ hashes'[h].values[i] \in 0..Len(next')
        /\ Filled(h, i)' => hashes'[h].values[i] # NoProducer
  BY SameTables DEF HashInv, OwnersOk, Filled
<1>6. \A u, v \in HashThreads : \A p, q \in 1..Len(next') :
        Owns(u, p)' /\ Owns(v, q)' => (u = v <=> p = q)
  BY <1>3 DEF HashInv, OwnersOk
<1>7. \A u \in HashThreads : \A p \in got'[u] : Stored(u, p)'
  BY <1>2
<1> QED  BY <1>3, <1>4, <1>5, <1>6, <1>7 DEF OwnersOk

LEMMA CountsSame ==
  ASSUME HashInv, UNCHANGED <<hashes, implicitProducerHashCount>>, NEW t \in HashThreads,
         NEW r \in HashLocals, inHash' = [inHash EXCEPT ![t] = r],
         r.producer = inHash[t].producer, r.producer # NoProducer => r.mainHash = inHash[t].mainHash,
         r.pc \in CountPcs <=> inHash[t].pc \in CountPcs,
         r.pc \in CountPcs => r.newCount = inHash[t].newCount
  PROVE  CountsOk'
<1>1. /\ inHash'[t] = r
      /\ \A u \in HashThreads : u # t => inHash'[u] = inHash[u]
  BY DEF HashInv
<1>2. /\ \A u, h : (InTable(u, h)' <=> InTable(u, h))
      /\ \A u : (InNoTable(u)' <=> InNoTable(u))
      /\ \A h : Room(h)' = Room(h)
  BY SameTables DEF HashInv, Room
<1>3. Counted' = Counted
  BY <1>1, <1>2 DEF Counted
<1>4. ASSUME NEW b \in Nat PROVE Users(b)' = Users(b)
  <2>1. \A u \in HashThreads : Within(u, b)' <=> Within(u, b)
    BY <1>1, <1>2 DEF Within
  <2> QED  BY <2>1 DEF Users
<1> QED  BY <1>3, <1>4 DEF HashInv, CountsOk

LEMMA ListSame ==
  ASSUME HashInv, UNCHANGED <<next, producerListTail>>, NEW t \in HashThreads,
         NEW r \in HashLocals, inHash' = [inHash EXCEPT ![t] = r],
         \A u \in HashThreads : \A p \in 1..Len(next) : Owns(u, p)' <=> Owns(u, p),
         r.pc \in ListPcs <=> inHash[t].pc \in ListPcs, r.pc # "push"
  PROVE  ListOk'
<1>1. /\ inHash'[t] = r
      /\ \A u \in HashThreads : u # t => inHash'[u] = inHash[u]
  BY DEF HashInv
<1>2. PICK L : \E k \in Nat : ListOf(L, k)
  BY DEF HashInv, ListOk
<1>3. PICK k \in Nat : ListOf(L, k)
  BY <1>2
<1>4. ListOf(L, k)'
  BY <1>1, <1>3 DEF ListOf
<1>5. \A u \in HashThreads :
        inHash'[u].pc = "push" => next'[inHash'[u].producer] = inHash'[u].prevTail
  BY <1>1 DEF HashInv, ListOk
<1> QED  BY <1>4, <1>5 DEF ListOk

LEMMA KnowsSame ==
  ASSUME TablesOk, UNCHANGED hashes, NEW t \in HashThreads, NEW r, inHash'[t] = r, Knows(t, r)
  PROVE  ThreadOk(t)'
<1>1. /\ \A h : CapacityOf(h)' = CapacityOf(h) /\ Slots(h)' = Slots(h)
      /\ \A h : (InTable(t, h)' <=> InTable(t, h))
      /\ InNoTable(t)' <=> InNoTable(t)
  BY SameTables
<1>2. \A h, i : Start(t, h)' = Start(t, h) /\ Dist(t, h, i)' = Dist(t, h, i)
  BY <1>1 DEF Start, Dist
<1>3. \A h, i : Filled(h, i)' <=> Filled(h, i)
  BY DEF Filled
<1> QED  BY <1>1, <1>2, <1>3 DEF ThreadOk, Knows

(* A step that changes neither the tables nor the list, nor who counts.    *)
LEMMA QuietHashStep ==
  ASSUME HashInv, UNCHANGED <<hashes, implicitProducerHashCount, next, producerListTail>>,
         NEW t \in HashThreads, NEW r \in HashLocals, inHash' = [inHash EXCEPT ![t] = r],
         r.producer = inHash[t].producer, r.producer # NoProducer => r.mainHash = inHash[t].mainHash,
         r.pc \in CountPcs <=> inHash[t].pc \in CountPcs,
         r.pc \in CountPcs => r.newCount = inHash[t].newCount,
         r.pc \in ListPcs <=> inHash[t].pc \in ListPcs, r.pc # "push",
         got' \in [HashThreads -> SUBSET Nat], \A u \in HashThreads : \A p \in got'[u] : Stored(u, p),
         Knows(t, r), ResizeOk'
  PROVE  HashInv'
<1>1. TablesOk' /\ Grown(t)
  BY SameTables DEF HashInv
<1>2. inHash' \in [HashThreads -> HashLocals] /\ inHash'[t] = r
  BY DEF HashInv
<1>3. (\A u \in HashThreads : ThreadOk(u))'
  BY <1>1, <1>2, ThreadsOk, KnowsSame DEF HashInv
<1>4. CountsOk'
  BY CountsSame
<1>5. \A p \in 1..Len(next) : Owns(t, p)' <=> Owns(t, p)
  BY <1>2, SameTables DEF HashInv, Owns
<1>6. next' \in Seq(Nat) /\ Len(next') = Len(next) /\ r.producer \in 0..Len(next)
  BY DEF HashInv, OwnersOk
<1>7. /\ OwnersOk'
      /\ \A u \in HashThreads : \A p \in 1..Len(next) : Owns(u, p)' <=> Owns(u, p)
  BY <1>5, <1>6, OwnersSame
<1>8. ListOk'
  BY <1>7, ListSame
<1> QED  BY <1>1, <1>2, <1>3, <1>4, <1>7, <1>8 DEF HashInv

(* Who resizes, when a step of t has only to do with t.                    *)
LEMMA ResizeSame ==
  ASSUME HashInv, UNCHANGED <<hashes, implicitProducerHashResizeInProgress>>, NEW t \in HashThreads,
         NEW r \in HashLocals, inHash' = [inHash EXCEPT ![t] = r],
         r.pc \notin {"resize", "clear", "failed"}
  PROVE  ResizeOk'
<1>1. /\ inHash'[t] = r
      /\ \A u \in HashThreads : u # t => inHash'[u] = inHash[u]
  BY DEF HashInv
<1> QED  BY <1>1 DEF HashInv, ResizeOk, Resizing

LEMMA HashIdleOk ==
  ASSUME NEW t \in HashThreads
  PROVE  /\ HashIdle \in HashLocals /\ Knows(t, HashIdle) /\ HashIdle.producer = NoProducer
         /\ HashIdle.pc = "idle"
BY DEF HashIdle, HashLocals, HashPcs, CountPcs, ListPcs, Knows, NoProducer

LEMMA HashThreadFacts ==
  ASSUME HashInv, NEW t \in HashThreads
  PROVE  /\ inHash[t] \in HashLocals /\ Knows(t, inHash[t]) /\ TablesOk
         /\ Len(hashes) \in Nat \ {0} /\ got \in [HashThreads -> SUBSET Nat]
         /\ \A u \in HashThreads : \A p \in got[u] : Stored(u, p)
<1>1. Knows(t, inHash[t]) /\ inHash[t] \in HashLocals
  BY DEF HashInv, ThreadOk
<1>2. TablesOk /\ Len(hashes) \in Nat \ {0}
  BY DEF HashInv, TablesOk
<1>3. /\ got \in [HashThreads -> SUBSET Nat]
      /\ \A u \in HashThreads : \A p \in got[u] : Stored(u, p)
  BY DEF HashInv, OwnersOk
<1> QED  BY <1>1, <1>2, <1>3

LEMMA GetOrAddStep ==
  ASSUME HashInv, NEW t \in HashThreads, GetOrAdd(t)
  PROVE  HashInv'
<1>1. PICK r : r = [inHash[t] EXCEPT !.pc = "probe", !.mainHash = Len(hashes),
                                     !.hash = Len(hashes), !.index = Start(t, Len(hashes))]
  OBVIOUS
<1>2. /\ inHash' = [inHash EXCEPT ![t] = r] /\ inHash[t].pc = "idle"
      /\ UNCHANGED <<hashes, implicitProducerHashCount, implicitProducerHashResizeInProgress,
                     next, producerListTail, got>>
  BY <1>1 DEF GetOrAdd, HashAt, HashSet
<1>3. Start(t, Len(hashes)) \in Slots(Len(hashes)) /\ Len(hashes) \in 1..Len(hashes)
  <2>1. Len(hashes) \in 1..Len(hashes) /\ TablesOk
    BY HashThreadFacts
  <2> QED  BY <2>1, Tables
<1>4. Start(t, Len(hashes)) \in Nat
  BY <1>3, HashThreadFacts, Tables DEF Slots
<1>5. /\ r \in HashLocals /\ r.producer = inHash[t].producer /\ r.pc = "probe"
      /\ r.producer = NoProducer
  <2>1. inHash[t].producer = NoProducer
    BY <1>2, HashThreadFacts DEF Knows, ListPcs
  <2> QED  BY <1>1, <1>4, <2>1, HashThreadFacts DEF HashLocals, HashPcs
<1>6. \A i \in Slots(Len(hashes)) :
        ~(Dist(t, Len(hashes), i) < Dist(t, Len(hashes), Start(t, Len(hashes))))
  BY <1>3, HashThreadFacts, DistIs, Tables DEF Slots
<1>7. Knows(t, r)
  BY <1>1, <1>3, <1>5, <1>6, HashThreadFacts DEF Knows, HashLocals, CountPcs, ListPcs
<1>8. ResizeOk'
  BY <1>2, <1>5, ResizeSame
<1> QED
  BY <1>2, <1>5, <1>7, <1>8, QuietHashStep, HashThreadFacts DEF CountPcs, ListPcs

(* What a step that returns has to show.                                   *)
LEMMA HashReturnStep ==
  ASSUME HashInv, NEW t \in HashThreads, NEW p \in Nat, HashReturn(t, p),
         UNCHANGED <<hashes, implicitProducerHashCount, next, producerListTail>>,
         inHash[t].producer = NoProducer, inHash[t].pc \notin CountPcs \cup ListPcs,
         p # NoProducer => Stored(t, p), ResizeOk'
  PROVE  HashInv'
<1>1. /\ inHash' = [inHash EXCEPT ![t] = HashIdle]
      /\ got' = [got EXCEPT ![t] = @ \cup ({p} \ {NoProducer})]
  BY DEF HashReturn
<1>2. got' \in [HashThreads -> SUBSET Nat]
  BY <1>1, HashThreadFacts
<1>3. \A u \in HashThreads : \A q \in got'[u] : Stored(u, q)
  BY <1>1, HashThreadFacts
<1> QED
  BY <1>1, <1>2, <1>3, HashIdleOk, QuietHashStep, HashThreadFacts DEF CountPcs, ListPcs

LEMMA ProbeFacts ==
  ASSUME HashInv, NEW t \in HashThreads, inHash[t].pc = "probe"
  PROVE  /\ inHash[t].hash \in 1..Len(hashes) /\ inHash[t].mainHash \in 1..Len(hashes)
         /\ inHash[t].hash <= inHash[t].mainHash /\ inHash[t].producer = NoProducer
         /\ inHash[t].index \in Slots(inHash[t].hash)
BY HashThreadFacts DEF Knows, HashLocals, ListPcs

LEMMA FoundStep ==
  ASSUME HashInv, NEW t \in HashThreads, Found(t)
  PROVE  HashInv'
<1>1. PICK h \in 1..Len(hashes) : h = inHash[t].hash
  BY ProbeFacts DEF Found, HashAt
<1>2. PICK m \in 1..Len(hashes) : m = inHash[t].mainHash /\ h <= m
  BY <1>1, ProbeFacts DEF Found, HashAt
<1>3. PICK i \in Slots(h) : i = inHash[t].index
  BY <1>1, ProbeFacts DEF Found, HashAt
<1>4. PICK p \in Nat : p = hashes[h].values[i]
  BY HashThreadFacts, Tables
<1>5. /\ inHash[t].pc = "probe" /\ hashes[h].keys[i] = t /\ inHash[t].producer = NoProducer
      /\ UNCHANGED <<hashes, implicitProducerHashCount, implicitProducerHashResizeInProgress,
                     next, producerListTail>>
  BY <1>1, <1>3, ProbeFacts DEF Found, HashAt, Probed
<1>6. Stored(t, p) /\ InTable(t, h) /\ ~InNoTable(t)
  BY <1>4, <1>5 DEF Stored, InTable, InNoTable
<1>7. p \in 1..Len(next)
  <2>1. Filled(h, i)
    BY <1>5, HashNumbers DEF Filled
  <2>2. p \in 0..Len(next) /\ p # 0
    BY <1>4, <2>1 DEF HashInv, OwnersOk, NoProducer
  <2> QED  BY <2>2
<1>8. CASE h = m
  <2>1. HashReturn(t, p)
    BY <1>1, <1>2, <1>3, <1>4, <1>8 DEF Found
  <2>2. ResizeOk'
    BY <1>5, <2>1, ResizeSame, HashIdleOk DEF HashReturn
  <2> QED  BY <1>5, <1>6, <2>1, <2>2, HashReturnStep DEF CountPcs, ListPcs
<1>9. CASE h # m
  <2>1. PICK r : r = [inHash[t] EXCEPT !.pc = "insert", !.producer = p, !.hash = m,
                                       !.index = Start(t, m)]
    OBVIOUS
  <2>2. inHash' = [inHash EXCEPT ![t] = r] /\ UNCHANGED got
    BY <1>1, <1>2, <1>3, <1>4, <1>9, <2>1 DEF Found, HashSet
  <2>3. Start(t, m) \in Slots(m) /\ Start(t, m) \in Nat /\ m \in Nat
    BY HashThreadFacts, StartIs
  <2>4. r \in HashLocals /\ r.pc = "insert" /\ r.producer = p /\ r.mainHash = m
    BY <1>2, <2>1, <2>3, HashThreadFacts DEF HashLocals, HashPcs
  <2>5. ~InTable(t, m)
    BY <1>1, <1>2, <1>5, <1>9, HashThreadFacts DEF Knows
  <2>6. \A j \in Slots(m) : ~(Dist(t, m, j) < Dist(t, m, Start(t, m)))
    BY HashThreadFacts, StartIs
  <2>7. Knows(t, r)
    BY <1>7, <2>1, <2>3, <2>4, <2>5, <2>6, HashThreadFacts
       DEF Knows, HashLocals, CountPcs, ListPcs, NoProducer
  <2>8. /\ inHash' \in [HashThreads -> HashLocals] /\ inHash'[t] = r
        /\ \A u \in HashThreads : u # t => inHash'[u] = inHash[u]
    BY <2>2, <2>4 DEF HashInv
  <2>9. TablesOk' /\ (\A u \in HashThreads : ThreadOk(u))'
    BY <1>5, <2>2, <2>4, <2>7, <2>8, SameTables, ThreadsOk, KnowsSame DEF HashInv
  <2>10. \A q \in 1..Len(next) : Owns(t, q)' <=> Owns(t, q)
    BY <1>5, <1>6, <2>4, <2>8, SameTables DEF HashInv, Owns
  <2>11. /\ OwnersOk'
         /\ \A u \in HashThreads : \A q \in 1..Len(next) : Owns(u, q)' <=> Owns(u, q)
    <3>1. next' \in Seq(Nat) /\ Len(next') = Len(next) /\ r.producer \in 0..Len(next)
      BY <1>5, <1>7, <2>4 DEF HashInv, OwnersOk
    <3>2. /\ got' \in [HashThreads -> SUBSET Nat]
          /\ \A u \in HashThreads : \A q \in got'[u] : Stored(u, q)
      BY <2>2, HashThreadFacts
    <3> QED  BY <1>5, <2>2, <2>4, <2>10, <3>1, <3>2, OwnersSame
  <2>12. ListOk'
    BY <1>5, <2>2, <2>4, <2>11, ListSame DEF ListPcs
  <2>13. ResizeOk'
    BY <1>5, <2>2, <2>4, ResizeSame
  <2>14. CountsOk'
    <3>1. /\ \A u, g : (InTable(u, g)' <=> InTable(u, g))
          /\ \A u : (InNoTable(u)' <=> InNoTable(u))
          /\ \A g : Room(g)' = Room(g)
      BY <1>5, SameTables DEF HashInv, Room
    <3>2. Counted' = Counted
      BY <1>6, <2>8, <3>1 DEF Counted
    <3>3. ASSUME NEW b \in Nat PROVE Users(b)' = Users(b)
      <4>1. Room(m) <= b => Room(h) <= b
        <5>1. CapacityOf(h) \in Nat /\ CapacityOf(m) \in Nat /\ CapacityOf(h) <= CapacityOf(m)
          BY <1>2, HashThreadFacts, Tables DEF TablesOk
        <5> QED  BY <5>1 DEF Room
      <4>2. Within(t, b)' <=> Within(t, b)
        BY <1>5, <1>6, <2>4, <2>8, <3>1, <4>1 DEF Within, CountPcs
      <4>3. \A u \in HashThreads : u # t => (Within(u, b)' <=> Within(u, b))
        BY <1>5, <2>8, <3>1 DEF Within
      <4> QED  BY <4>2, <4>3 DEF Users
    <3> QED  BY <1>5, <3>2, <3>3 DEF HashInv, CountsOk
  <2> QED  BY <2>8, <2>9, <2>11, <2>12, <2>13, <2>14 DEF HashInv
<1> QED  BY <1>8, <1>9

LEMMA NotHereStep ==
  ASSUME HashInv, NEW t \in HashThreads, NotHere(t)
  PROVE  HashInv'
<1>1. PICK h \in 1..Len(hashes) : h = inHash[t].hash
  BY ProbeFacts DEF NotHere, HashAt
<1>2. PICK i \in Slots(h) : i = inHash[t].index
  BY <1>1, ProbeFacts DEF NotHere, HashAt
<1>3. /\ inHash[t].pc = "probe" /\ ~Filled(h, i) /\ inHash[t].producer = NoProducer
      /\ inHash[t].mainHash \in 1..Len(hashes) /\ h <= inHash[t].mainHash
      /\ UNCHANGED <<hashes, implicitProducerHashCount, implicitProducerHashResizeInProgress,
                     next, producerListTail, got>>
  BY <1>1, <1>2, ProbeFacts DEF NotHere, HashAt, Probed, Filled
<1>4. \A g \in 1..Len(hashes) : g > h => ~InTable(t, g)
  BY <1>1, <1>3, HashThreadFacts DEF Knows
<1>5. ~InTable(t, h)
  <2> SUFFICES ASSUME NEW j \in Slots(h), hashes[h].keys[j] = t PROVE FALSE
    BY DEF InTable
  <2>1. Filled(h, j)
    BY HashNumbers DEF Filled
  <2>2. ~(Dist(t, h, i) < Dist(t, h, j))
    BY <1>3, <2>1, HashThreadFacts DEF TablesOk
  <2>3. ~(Dist(t, h, j) < Dist(t, h, i))
    BY <1>1, <1>2, <1>3, HashThreadFacts DEF Knows
  <2>4. Dist(t, h, i) \in Nat /\ Dist(t, h, j) \in Nat
    BY HashThreadFacts, Tables, DistIs DEF Slots
  <2>5. i = j
    BY <2>2, <2>3, <2>4, HashThreadFacts, DistIs
  <2> QED  BY <1>3, <2>1, <2>5
<1>6. \A g \in 1..Len(hashes) : g > h - 1 => ~InTable(t, g)
  BY <1>4, <1>5
<1>7. CASE h = 1
  <2>1. PICK r : r = [inHash[t] EXCEPT !.pc = "count", !.hash = 0, !.index = 0]
    OBVIOUS
  <2>2. inHash' = [inHash EXCEPT ![t] = r]
    BY <1>1, <1>7, <2>1 DEF NotHere, HashSet
  <2>3. /\ r \in HashLocals /\ r.pc = "count" /\ r.producer = NoProducer
        /\ r.mainHash = inHash[t].mainHash
    BY <1>3, <2>1, HashThreadFacts DEF HashLocals, HashPcs
  <2>4. Knows(t, r)
    BY <1>3, <1>6, <1>7, <2>3 DEF Knows, InNoTable, ListPcs, CountPcs
  <2>5. ResizeOk'
    BY <1>3, <2>2, <2>3, ResizeSame
  <2> QED  BY <1>3, <2>2, <2>3, <2>4, <2>5, QuietHashStep, HashThreadFacts DEF CountPcs, ListPcs
<1>8. CASE h # 1
  <2>1. PICK g \in 1..Len(hashes) : g = h - 1
    BY <1>8
  <2>2. PICK r : r = [inHash[t] EXCEPT !.hash = g, !.index = Start(t, g)]
    OBVIOUS
  <2>3. inHash' = [inHash EXCEPT ![t] = r]
    BY <1>1, <1>8, <2>1, <2>2 DEF NotHere, HashSet
  <2>4. Start(t, g) \in Slots(g) /\ Start(t, g) \in Nat /\ g \in Nat
    BY HashThreadFacts, StartIs
  <2>5. /\ r \in HashLocals /\ r.pc = "probe" /\ r.producer = NoProducer
        /\ r.mainHash = inHash[t].mainHash /\ r.hash = g /\ r.index = Start(t, g)
    BY <1>3, <2>2, <2>4, HashThreadFacts DEF HashLocals
  <2>6. \A j \in Slots(g) : ~(Dist(t, g, j) < Dist(t, g, Start(t, g)))
    BY HashThreadFacts, StartIs
  <2>7. g \in 1..r.mainHash
    BY <1>3, <2>1, <2>5
  <2>8. Knows(t, r)
    BY <1>3, <1>6, <2>1, <2>4, <2>5, <2>6, <2>7 DEF Knows, ListPcs, CountPcs
  <2>9. ResizeOk'
    BY <1>3, <2>3, <2>5, ResizeSame
  <2> QED  BY <1>3, <2>3, <2>5, <2>8, <2>9, QuietHashStep, HashThreadFacts DEF CountPcs, ListPcs
<1> QED  BY <1>7, <1>8

LEMMA ProbeNextStep ==
  ASSUME HashInv, NEW t \in HashThreads, ProbeNext(t)
  PROVE  HashInv'
<1>1. PICK h \in 1..Len(hashes) : h = inHash[t].hash
  BY ProbeFacts DEF ProbeNext, HashAt
<1>2. PICK i \in Slots(h) : i = inHash[t].index
  BY <1>1, ProbeFacts DEF ProbeNext, HashAt
<1>3. /\ inHash[t].pc = "probe" /\ Filled(h, i) /\ hashes[h].keys[i] # t
      /\ inHash[t].producer = NoProducer
      /\ UNCHANGED <<hashes, implicitProducerHashCount, implicitProducerHashResizeInProgress,
                     next, producerListTail, got>>
  BY <1>1, <1>2, ProbeFacts DEF ProbeNext, HashAt, Probed, Filled
<1>4. PICK j \in Slots(h) :
        j = (i + 1) % CapacityOf(h) /\ Dist(t, h, j) \in {0, Dist(t, h, i) + 1} /\ j \in Nat
  BY HashThreadFacts, DistIs, Tables DEF Slots
<1>5. PICK r : r = [inHash[t] EXCEPT !.index = j]
  OBVIOUS
<1>6. inHash' = [inHash EXCEPT ![t] = r]
  BY <1>1, <1>2, <1>4, <1>5 DEF ProbeNext, HashSet, Advanced
<1>7. /\ r \in HashLocals /\ r.pc = "probe" /\ r.producer = NoProducer
      /\ r.mainHash = inHash[t].mainHash /\ r.hash = h /\ r.index = j
  BY <1>1, <1>3, <1>4, <1>5, HashThreadFacts DEF HashLocals
<1>8. ASSUME NEW l \in Slots(h), Dist(t, h, l) < Dist(t, h, j)
      PROVE  Filled(h, l) /\ hashes[h].keys[l] # t
  <2>1. Dist(t, h, l) \in Nat /\ Dist(t, h, i) \in Nat
    BY HashThreadFacts, Tables, DistIs DEF Slots
  <2>2. Dist(t, h, l) <= Dist(t, h, i)
    BY <1>4, <1>8, <2>1
  <2>3. CASE Dist(t, h, l) < Dist(t, h, i)
    BY <1>1, <1>2, <1>3, <2>3, HashThreadFacts DEF Knows
  <2>4. CASE Dist(t, h, l) = Dist(t, h, i)
    BY <1>3, <2>4, HashThreadFacts, DistIs
  <2> QED  BY <2>1, <2>2, <2>3, <2>4
<1>9. Knows(t, r)
  <2>1. /\ r.hash \in 1..r.mainHash /\ r.mainHash \in 1..Len(hashes)
        /\ \A g \in 1..Len(hashes) : g > r.hash => ~InTable(t, g)
    BY <1>1, <1>3, <1>7, HashThreadFacts DEF Knows
  <2> QED  BY <1>7, <1>8, <2>1 DEF Knows, ListPcs, CountPcs
<1>10. ResizeOk'
  BY <1>3, <1>6, <1>7, ResizeSame
<1> QED  BY <1>3, <1>6, <1>7, <1>9, <1>10, QuietHashStep, HashThreadFacts DEF CountPcs, ListPcs

LEMMA InsertFacts ==
  ASSUME HashInv, NEW t \in HashThreads, inHash[t].pc = "insert"
  PROVE  \E h \in 1..Len(hashes) : \E i \in Slots(h) :
           /\ inHash[t].hash = h /\ inHash[t].mainHash = h /\ inHash[t].index = i
           /\ ~InTable(t, h) /\ inHash[t].producer \in 1..Len(next)
           /\ \A j \in Slots(h) : Dist(t, h, j) < Dist(t, h, i) => Filled(h, j)
<1>1. inHash[t].producer \in 1..Len(next)
  <2>1. inHash[t].producer \in 0..Len(next) /\ inHash[t].producer # 0 /\ next \in Seq(Nat)
    BY HashThreadFacts DEF Knows, ListPcs, HashInv, OwnersOk, NoProducer
  <2> QED  BY <2>1
<1> QED  BY <1>1, HashThreadFacts DEF Knows

LEMMA InsertNext ==
  ASSUME HashInv, NEW t \in HashThreads, Insert(t), Probed(t) # invalid_thread_id
  PROVE  HashInv'
<1>1. PICK h \in 1..Len(hashes) : \E i \in Slots(h) :
        /\ inHash[t].hash = h /\ inHash[t].mainHash = h /\ inHash[t].index = i
        /\ ~InTable(t, h) /\ inHash[t].producer \in 1..Len(next)
        /\ \A j \in Slots(h) : Dist(t, h, j) < Dist(t, h, i) => Filled(h, j)
  BY InsertFacts DEF Insert, HashAt
<1>2. PICK i \in Slots(h) :
        /\ inHash[t].hash = h /\ inHash[t].mainHash = h /\ inHash[t].index = i
        /\ ~InTable(t, h) /\ inHash[t].producer \in 1..Len(next)
        /\ \A j \in Slots(h) : Dist(t, h, j) < Dist(t, h, i) => Filled(h, j)
  BY <1>1
<1>3. /\ inHash[t].pc = "insert" /\ Filled(h, i)
      /\ UNCHANGED <<hashes, implicitProducerHashCount, implicitProducerHashResizeInProgress,
                     next, producerListTail, got>>
  BY <1>2 DEF Insert, HashAt, Probed, Filled
<1>4. PICK j \in Slots(h) :
        j = (i + 1) % CapacityOf(h) /\ Dist(t, h, j) \in {0, Dist(t, h, i) + 1} /\ j \in Nat
  BY HashThreadFacts, DistIs, StartIs
<1>5. PICK r : r = [inHash[t] EXCEPT !.index = j]
  OBVIOUS
<1>6. inHash' = [inHash EXCEPT ![t] = r]
  BY <1>2, <1>4, <1>5 DEF Insert, HashSet, Advanced
<1>7. /\ r \in HashLocals /\ r.pc = "insert" /\ r.producer = inHash[t].producer
      /\ r.mainHash = h /\ r.hash = h /\ r.index = j
  BY <1>2, <1>3, <1>4, <1>5, HashThreadFacts DEF HashLocals
<1>8. ASSUME NEW l \in Slots(h), Dist(t, h, l) < Dist(t, h, j)
      PROVE  Filled(h, l)
  <2>1. Dist(t, h, l) \in Nat /\ Dist(t, h, i) \in Nat
    BY HashThreadFacts, StartIs
  <2>2. Dist(t, h, l) <= Dist(t, h, i)
    BY <1>4, <1>8, <2>1
  <2>3. CASE Dist(t, h, l) < Dist(t, h, i)
    BY <1>2, <2>3
  <2>4. CASE Dist(t, h, l) = Dist(t, h, i)
    BY <1>3, <2>4, HashThreadFacts, DistIs
  <2> QED  BY <2>1, <2>2, <2>3, <2>4
<1>9. Knows(t, r)
  BY <1>2, <1>3, <1>7, <1>8, HashThreadFacts DEF Knows, ListPcs, CountPcs
<1>10. ResizeOk'
  BY <1>3, <1>6, <1>7, ResizeSame
<1> QED
  BY <1>2, <1>3, <1>6, <1>7, <1>9, <1>10, QuietHashStep, HashThreadFacts DEF CountPcs, ListPcs

(* The tables and the locals of the steps in between.                      *)
LEMMA CountingFacts ==
  ASSUME HashInv, NEW t \in HashThreads, inHash[t].pc \in {"count", "failed"} \cup CountPcs
  PROVE  /\ inHash[t].producer = NoProducer /\ InNoTable(t)
         /\ inHash[t].mainHash \in 1..Len(hashes) /\ inHash[t] \in HashLocals
BY HashThreadFacts DEF Knows, ListPcs, CountPcs

LEMMA GrowStep ==
  ASSUME HashInv, NEW t \in HashThreads, Grow(t)
  PROVE  HashInv'
<1>1. /\ inHash[t].pc = "grow" /\ inHash[t].producer = NoProducer /\ InNoTable(t)
      /\ inHash[t].mainHash \in 1..Len(hashes) /\ inHash[t] \in HashLocals
      /\ UNCHANGED <<hashes, implicitProducerHashCount, next, producerListTail, got>>
  BY CountingFacts DEF Grow, HashAt, CountPcs
<1>2. CASE implicitProducerHashResizeInProgress' = TRUE /\ ~implicitProducerHashResizeInProgress
           /\ HashSet(t, [inHash[t] EXCEPT !.pc = "resize", !.mainHash = Len(hashes)])
  <2>1. PICK r : r = [inHash[t] EXCEPT !.pc = "resize", !.mainHash = Len(hashes)]
    OBVIOUS
  <2>2. inHash' = [inHash EXCEPT ![t] = r]
    BY <1>2, <2>1 DEF HashSet
  <2>3. /\ r \in HashLocals /\ r.pc = "resize" /\ r.producer = NoProducer
        /\ r.mainHash = Len(hashes) /\ r.newCount = inHash[t].newCount
    BY <1>1, <2>1, HashThreadFacts DEF HashLocals, HashPcs, CountPcs
  <2>4. Knows(t, r)
    BY <1>1, <2>3, HashThreadFacts DEF Knows, CountPcs, ListPcs
  <2>5. /\ inHash'[t] = r /\ \A u \in HashThreads : u # t => inHash'[u] = inHash[u]
    BY <2>2 DEF HashInv
  <2>6. ResizeOk'
    BY <1>1, <1>2, <2>3, <2>5 DEF HashInv, ResizeOk, Resizing
  <2> QED
    BY <1>1, <2>2, <2>3, <2>4, <2>6, QuietHashStep, HashThreadFacts DEF CountPcs, ListPcs
<1>3. CASE UNCHANGED implicitProducerHashResizeInProgress
           /\ HashSet(t, [inHash[t] EXCEPT !.pc = "room"])
  <2>1. PICK r : r = [inHash[t] EXCEPT !.pc = "room"]
    OBVIOUS
  <2>2. inHash' = [inHash EXCEPT ![t] = r]
    BY <1>3, <2>1 DEF HashSet
  <2>3. /\ r \in HashLocals /\ r.pc = "room" /\ r.producer = NoProducer
        /\ r.mainHash = inHash[t].mainHash /\ r.newCount = inHash[t].newCount
    BY <1>1, <2>1 DEF HashLocals, HashPcs, CountPcs
  <2>4. Knows(t, r)
    BY <1>1, <2>3 DEF Knows, CountPcs, ListPcs
  <2>5. ResizeOk'
    BY <1>1, <1>3, <2>2, <2>3, ResizeSame
  <2> QED
    BY <1>1, <2>2, <2>3, <2>4, <2>5, QuietHashStep, HashThreadFacts DEF CountPcs, ListPcs
<1>4. implicitProducerHashResizeInProgress \in BOOLEAN
  BY DEF HashInv, ResizeOk
<1> QED  BY <1>2, <1>3, <1>4 DEF Grow

LEMMA ClearStep ==
  ASSUME HashInv, NEW t \in HashThreads,
         \/ Clear(t)
         \/ Resize(t) /\ ~HalfFull(t, inHash[t].mainHash)
         \/ AwaitTable(t)
  PROVE  HashInv'
<1>1. /\ inHash[t].producer = NoProducer /\ InNoTable(t)
      /\ inHash[t].pc \in CountPcs
      /\ inHash[t].mainHash \in 1..Len(hashes) /\ inHash[t] \in HashLocals
      /\ UNCHANGED <<hashes, implicitProducerHashCount, next, producerListTail, got>>
  BY CountingFacts DEF Clear, Resize, AwaitTable, HashAt, CountPcs
<1>2. PICK r : /\ inHash' = [inHash EXCEPT ![t] = r]
               /\ r = IF inHash[t].pc = "clear" THEN [inHash[t] EXCEPT !.pc = "room"]
                      ELSE IF inHash[t].pc = "resize" THEN [inHash[t] EXCEPT !.pc = "clear"]
                      ELSE [inHash[t] EXCEPT !.pc = "grow", !.mainHash = Len(hashes)]
  BY DEF Clear, Resize, AwaitTable, HashAt, HashSet
<1>3. /\ r \in HashLocals /\ r.pc \in {"room", "clear", "grow"} /\ r.producer = NoProducer
      /\ r.mainHash \in 1..Len(hashes) /\ r.newCount = inHash[t].newCount
      /\ r.pc = "clear" <=> inHash[t].pc = "resize"
  <2>1. Len(hashes) \in 1..Len(hashes) /\ Len(hashes) \in Nat
    BY HashThreadFacts
  <2>2. CASE inHash[t].pc = "clear"
    BY <1>1, <1>2, <2>2 DEF HashLocals, HashPcs, CountPcs
  <2>3. CASE inHash[t].pc = "resize"
    BY <1>1, <1>2, <2>3 DEF HashLocals, HashPcs, CountPcs
  <2>4. CASE inHash[t].pc \notin {"clear", "resize"}
    BY <1>1, <1>2, <2>1, <2>4 DEF HashLocals, HashPcs, CountPcs
  <2> QED  BY <2>2, <2>3, <2>4
<1>4. Knows(t, r)
  BY <1>1, <1>3 DEF Knows, CountPcs, ListPcs
<1>5. /\ inHash'[t] = r /\ \A u \in HashThreads : u # t => inHash'[u] = inHash[u]
  BY <1>2 DEF HashInv
<1>6. \/ inHash[t].pc = "clear" /\ implicitProducerHashResizeInProgress' = FALSE
      \/ inHash[t].pc # "clear" /\ UNCHANGED implicitProducerHashResizeInProgress
  BY DEF Clear, Resize, AwaitTable, HashAt
<1>7. ResizeOk'
  BY <1>1, <1>3, <1>5, <1>6 DEF HashInv, ResizeOk, Resizing
<1> QED
  BY <1>1, <1>2, <1>3, <1>4, <1>7, QuietHashStep, HashThreadFacts DEF CountPcs, ListPcs

LEMMA FailStep ==
  ASSUME HashInv, NEW t \in HashThreads, Fail(t)
  PROVE  HashInv'
<1>1. /\ inHash[t].pc = "failed" /\ HashReturn(t, NoProducer) /\ inHash[t].producer = NoProducer
      /\ implicitProducerHashResizeInProgress' = FALSE
      /\ UNCHANGED <<hashes, implicitProducerHashCount, next, producerListTail>>
  BY CountingFacts DEF Fail, HashAt
<1>2. /\ inHash'[t] = HashIdle /\ \A u \in HashThreads : u # t => inHash'[u] = inHash[u]
  BY <1>1, HashIdleOk DEF HashInv, HashReturn
<1>3. ResizeOk'
  BY <1>1, <1>2, HashIdleOk DEF HashInv, ResizeOk, Resizing
<1> QED  BY <1>1, <1>3, HashReturnStep DEF CountPcs, ListPcs, NoProducer

LEMMA CountedIs ==
  /\ IsFiniteSet(Counted) /\ Cardinality(Counted) \in Nat
  /\ Cardinality(Counted) <= Cardinality(HashThreads)
  /\ \A b : IsFiniteSet(Users(b)) /\ Cardinality(Users(b)) \in Nat
  /\ \A b : Cardinality(Users(b)) = 0 <=> Users(b) = {}
<1>1. Counted \in SUBSET HashThreads /\ \A b : Users(b) \in SUBSET HashThreads
  BY DEF Counted, Users
<1> QED  BY <1>1, HashNumbers, FS_Subset, FS_CardinalityType, FS_EmptySet

(* A step that counts less than before.                                    *)
LEMMA CountsLess ==
  ASSUME CountsOk, NEW t \in HashThreads, t \in Counted, Counted' = Counted \ {t},
         implicitProducerHashCount' = implicitProducerHashCount - 1,
         \A b \in Nat : Users(b)' \subseteq Users(b)
  PROVE  CountsOk'
<1>1. Cardinality(Counted \ {t}) = Cardinality(Counted) - 1
  BY CountedIs, FS_RemoveElement
<1>2. implicitProducerHashCount' = Cardinality(Counted')
  BY <1>1 DEF CountsOk
<1>3. ASSUME NEW b \in Nat, Users(b)' # {} PROVE Cardinality(Users(b)') < b
  <2>1. Users(b) # {} /\ Cardinality(Users(b)') <= Cardinality(Users(b))
    BY <1>3, CountedIs, FS_Subset
  <2>2. Cardinality(Users(b)) \in Nat /\ Cardinality(Users(b)') \in Nat
    BY <2>1, CountedIs, FS_Subset, FS_CardinalityType
  <2> QED  BY <2>1, <2>2 DEF CountsOk
<1> QED  BY <1>2, <1>3 DEF CountsOk

(* Memory is exhausted: the thread is not counted any more.                *)
LEMMA FailsStep ==
  ASSUME HashInv, NEW t \in HashThreads, ResizeFails(t) \/ CreateFails(t)
  PROVE  HashInv'
<1>1. /\ inHash[t].pc \in {"resize", "room"} /\ inHash[t].producer = NoProducer /\ InNoTable(t)
      /\ inHash[t].mainHash \in 1..Len(hashes) /\ inHash[t] \in HashLocals
      /\ implicitProducerHashCount' = implicitProducerHashCount - 1
      /\ UNCHANGED <<hashes, next, producerListTail, implicitProducerHashResizeInProgress>>
  BY CountingFacts DEF ResizeFails, CreateFails, HashAt, CountPcs
<1>2. PICK r : /\ inHash' = [inHash EXCEPT ![t] = r]
               /\ \/ r = [inHash[t] EXCEPT !.pc = "failed"] /\ inHash[t].pc = "resize"
                     /\ UNCHANGED got
                  \/ r = HashIdle /\ inHash[t].pc = "room"
                     /\ got' = [got EXCEPT ![t] = @ \cup ({NoProducer} \ {NoProducer})]
  BY DEF ResizeFails, CreateFails, HashAt, HashSet, HashReturn
<1>3. /\ r \in HashLocals /\ r.producer = NoProducer
      /\ \/ r.pc = "failed" /\ r.mainHash = inHash[t].mainHash /\ inHash[t].pc = "resize"
         \/ r = HashIdle /\ r.pc = "idle" /\ inHash[t].pc = "room"
  BY <1>1, <1>2, HashIdleOk DEF HashLocals, HashPcs
<1>4. Knows(t, r)
  BY <1>1, <1>3, HashIdleOk DEF Knows, CountPcs, ListPcs
<1>5. /\ inHash' \in [HashThreads -> HashLocals] /\ inHash'[t] = r
      /\ \A u \in HashThreads : u # t => inHash'[u] = inHash[u]
  BY <1>2, <1>3 DEF HashInv
<1>6. TablesOk' /\ (\A u \in HashThreads : ThreadOk(u))'
  BY <1>1, <1>2, <1>3, <1>4, <1>5, SameTables, ThreadsOk, KnowsSame DEF HashInv
<1>7. \A p \in 1..Len(next) : Owns(t, p)' <=> Owns(t, p)
  BY <1>1, <1>3, <1>5, SameTables DEF HashInv, Owns
<1>8. /\ OwnersOk'
      /\ \A u \in HashThreads : \A p \in 1..Len(next) : Owns(u, p)' <=> Owns(u, p)
  <2>1. next' \in Seq(Nat) /\ Len(next') = Len(next) /\ r.producer \in 0..Len(next)
    BY <1>1, <1>3 DEF HashInv, OwnersOk
  <2>2. got' = got
    BY <1>2, HashThreadFacts
  <2>3. /\ got' \in [HashThreads -> SUBSET Nat]
        /\ \A u \in HashThreads : \A p \in got'[u] : Stored(u, p)
    BY <2>2, HashThreadFacts
  <2> QED  BY <1>1, <1>2, <1>3, <1>7, <2>1, <2>3, OwnersSame
<1>9. ListOk'
  BY <1>1, <1>2, <1>3, <1>8, ListSame DEF ListPcs
<1>10. ResizeOk'
  BY <1>1, <1>3, <1>5 DEF HashInv, ResizeOk, Resizing
<1>11. CountsOk'
  <2>1. /\ \A u, h : (InTable(u, h)' <=> InTable(u, h))
        /\ \A u : (InNoTable(u)' <=> InNoTable(u))
        /\ \A h : Room(h)' = Room(h)
    BY <1>1, SameTables DEF HashInv, Room
  <2>2. t \in Counted /\ Counted' = Counted \ {t}
    BY <1>1, <1>3, <1>5, <2>1 DEF Counted, CountPcs
  <2>3. ASSUME NEW b \in Nat, NEW u \in HashThreads, Within(u, b)' PROVE Within(u, b)
    <3>1. CASE u = t
      BY <1>1, <1>3, <1>5, <2>1, <2>3, <3>1 DEF Within, CountPcs
    <3>2. CASE u # t
      BY <1>1, <1>5, <2>1, <2>3, <3>2 DEF Within
    <3> QED  BY <3>1, <3>2
  <2>4. \A b \in Nat : Users(b)' \subseteq Users(b)
    BY <2>3 DEF Users
  <2> QED  BY <1>1, <2>2, <2>4, CountsLess DEF HashInv
<1> QED  BY <1>5, <1>6, <1>8, <1>9, <1>10, <1>11 DEF HashInv

LEMMA CountStep ==
  ASSUME HashInv, NEW t \in HashThreads, Count(t)
  PROVE  HashInv'
<1>1. /\ inHash[t].pc = "count" /\ inHash[t].producer = NoProducer /\ InNoTable(t)
      /\ inHash[t].mainHash \in 1..Len(hashes) /\ inHash[t] \in HashLocals
      /\ implicitProducerHashCount' = implicitProducerHashCount + 1
      /\ UNCHANGED <<hashes, next, producerListTail, implicitProducerHashResizeInProgress, got>>
  BY CountingFacts DEF Count, HashAt
<1>2. PICK n : n = implicitProducerHashCount + 1
  OBVIOUS
<1>3. n = Cardinality(Counted) + 1 /\ n \in Nat
  BY <1>2, CountedIs DEF HashInv, CountsOk
<1>4. PICK r : r = [inHash[t] EXCEPT !.pc = "grow", !.newCount = n]
  OBVIOUS
<1>5. inHash' = [inHash EXCEPT ![t] = r]
  BY <1>2, <1>4 DEF Count, HashSet
<1>6. /\ r \in HashLocals /\ r.pc = "grow" /\ r.producer = NoProducer
      /\ r.mainHash = inHash[t].mainHash /\ r.newCount = n
  BY <1>1, <1>3, <1>4 DEF HashLocals, HashPcs, CountPcs
<1>7. Knows(t, r)
  BY <1>1, <1>6 DEF Knows, CountPcs, ListPcs
<1>8. /\ inHash' \in [HashThreads -> HashLocals] /\ inHash'[t] = r
      /\ \A u \in HashThreads : u # t => inHash'[u] = inHash[u]
  BY <1>5, <1>6 DEF HashInv
<1>9. TablesOk' /\ (\A u \in HashThreads : ThreadOk(u))'
  BY <1>1, <1>5, <1>6, <1>7, <1>8, SameTables, ThreadsOk, KnowsSame DEF HashInv
<1>10. \A p \in 1..Len(next) : Owns(t, p)' <=> Owns(t, p)
  BY <1>1, <1>6, <1>8, SameTables DEF HashInv, Owns
<1>11. /\ OwnersOk'
       /\ \A u \in HashThreads : \A p \in 1..Len(next) : Owns(u, p)' <=> Owns(u, p)
  <2>1. next' \in Seq(Nat) /\ Len(next') = Len(next) /\ r.producer \in 0..Len(next)
    BY <1>1, <1>6 DEF HashInv, OwnersOk
  <2>2. /\ got' \in [HashThreads -> SUBSET Nat]
        /\ \A u \in HashThreads : \A p \in got'[u] : Stored(u, p)
    BY <1>1, HashThreadFacts
  <2> QED  BY <1>1, <1>5, <1>6, <1>10, <2>1, <2>2, OwnersSame
<1>12. ListOk'
  BY <1>1, <1>5, <1>6, <1>11, ListSame DEF ListPcs
<1>13. ResizeOk'
  BY <1>1, <1>5, <1>6, ResizeSame
<1>14. CountsOk'
  <2>1. /\ \A u, h : (InTable(u, h)' <=> InTable(u, h))
        /\ \A u : (InNoTable(u)' <=> InNoTable(u))
        /\ \A h : Room(h)' = Room(h)
    BY <1>1, SameTables DEF HashInv, Room
  <2>2. t \notin Counted /\ Counted' = Counted \cup {t}
    BY <1>1, <1>6, <1>8, <2>1 DEF Counted, CountPcs
  <2>3. Cardinality(Counted \cup {t}) = Cardinality(Counted) + 1
    BY <2>2, CountedIs, FS_AddElement
  <2>4. implicitProducerHashCount' = Cardinality(Counted')
    BY <1>2, <1>3, <2>2, <2>3, <1>1
  <2>5. ASSUME NEW b \in Nat, Users(b)' # {} PROVE Cardinality(Users(b)') < b
    <3>1. \A u \in HashThreads : u # t => (Within(u, b)' <=> Within(u, b))
      BY <1>1, <1>8, <2>1 DEF Within
    <3>2. ~Within(t, b)
      BY <1>1, <2>1 DEF Within, InNoTable, CountPcs
    <3>3. Within(t, b)' <=> n < b
      BY <1>1, <1>6, <1>8, <2>1 DEF Within, InNoTable, CountPcs
    <3>4. CASE n < b
      <4>1. Users(b)' \subseteq Counted'
        BY <2>1 DEF Users, Within, Counted, InNoTable
      <4>2. Cardinality(Users(b)') <= Cardinality(Counted') /\ Cardinality(Users(b)') \in Nat
        <5>1. IsFiniteSet(Counted')
          BY <2>2, CountedIs, FS_AddElement
        <5> QED  BY <4>1, <5>1, FS_Subset, FS_CardinalityType
      <4> QED  BY <1>3, <2>2, <2>3, <3>4, <4>2, CountedIs
    <3>5. CASE ~(n < b)
      <4>1. Users(b)' = Users(b)
        BY <3>1, <3>2, <3>3, <3>5 DEF Users
      <4> QED  BY <2>5, <4>1 DEF HashInv, CountsOk
    <3> QED  BY <3>4, <3>5
  <2> QED  BY <2>4, <2>5 DEF CountsOk
<1> QED  BY <1>8, <1>9, <1>11, <1>12, <1>13, <1>14 DEF HashInv

LEMMA CountsNotMore ==
  ASSUME CountsOk, Counted' = Counted, UNCHANGED implicitProducerHashCount,
         \A b \in Nat : Users(b)' \subseteq Users(b)
  PROVE  CountsOk'
<1>1. ASSUME NEW b \in Nat, Users(b)' # {} PROVE Cardinality(Users(b)') < b
  <2>1. Users(b) # {} /\ Cardinality(Users(b)') <= Cardinality(Users(b))
    BY <1>1, CountedIs, FS_Subset
  <2>2. Cardinality(Users(b)) \in Nat /\ Cardinality(Users(b)') \in Nat
    BY <2>1, CountedIs, FS_Subset, FS_CardinalityType
  <2> QED  BY <2>1, <2>2 DEF CountsOk
<1> QED  BY <1>1 DEF CountsOk

LEMMA TailIs ==
  ASSUME HashInv
  PROVE  producerListTail \in 0..Len(next) /\ next \in Seq(Nat) /\ Len(next) \in Nat
<1>1. PICK L : \E k \in Nat : ListOf(L, k)
  BY DEF HashInv, ListOk
<1>2. PICK k \in Nat : ListOf(L, k)
  BY <1>1
<1>3. next \in Seq(Nat) /\ Len(next) \in Nat
  BY DEF HashInv, OwnersOk
<1>4. producerListTail = L[k] /\ L[0] = 0
  BY <1>2 DEF ListOf, IsStack, NoProducer
<1>5. CASE k = 0
  BY <1>3, <1>4, <1>5
<1>6. CASE k # 0
  <2>1. k \in 1..k
    BY <1>6
  <2>2. L[k] \in Members(L, k)
    BY <2>1 DEF Members
  <2> QED  BY <1>2, <1>3, <1>4, <2>2 DEF ListOf
<1> QED  BY <1>3, <1>5, <1>6

LEMMA OwnedIs ==
  ASSUME HashInv, NEW t \in HashThreads
  PROVE  /\ \A p : Owns(t, p) => p \in 1..Len(next)
         /\ InNoTable(t) => \A p : ~Stored(t, p)
         /\ InNoTable(t) /\ inHash[t].producer # NoProducer =>
              \A p : Owns(t, p) <=> p = inHash[t].producer
<1>1. Len(next) \in Nat
  BY TailIs
<1>2. ASSUME NEW p, Stored(t, p) PROVE p \in 1..Len(next) /\ ~InNoTable(t)
  <2>1. PICK h \in 1..Len(hashes) : \E i \in Slots(h) :
          hashes[h].keys[i] = t /\ hashes[h].values[i] = p
    BY <1>2 DEF Stored
  <2>2. PICK i \in Slots(h) : hashes[h].keys[i] = t /\ hashes[h].values[i] = p
    BY <2>1
  <2>3. Filled(h, i)
    BY <2>2, HashNumbers DEF Filled
  <2>4. p \in 0..Len(next) /\ p # 0
    BY <2>2, <2>3 DEF HashInv, OwnersOk, NoProducer
  <2> QED  BY <1>1, <2>2, <2>4 DEF InNoTable, InTable
<1>3. inHash[t].producer # NoProducer => inHash[t].producer \in 1..Len(next)
  BY <1>1 DEF HashInv, OwnersOk, NoProducer
<1> QED  BY <1>2, <1>3 DEF Owns

LEMMA CreateStep ==
  ASSUME HashInv, NEW t \in HashThreads, Create(t)
  PROVE  HashInv'
<1>1. /\ inHash[t].pc = "room" /\ inHash[t].producer = NoProducer /\ InNoTable(t)
      /\ inHash[t].mainHash \in 1..Len(hashes) /\ inHash[t] \in HashLocals
      /\ UNCHANGED <<hashes, implicitProducerHashCount, producerListTail,
                     implicitProducerHashResizeInProgress, got>>
      /\ next' = Append(next, NoProducer)
  BY CountingFacts DEF Create, HashAt, CountPcs
<1>2. PICK n \in Nat : n = Len(next)
  BY TailIs
<1>3. PICK r : r = [inHash[t] EXCEPT !.pc = "list", !.producer = n + 1, !.prevTail = producerListTail]
  OBVIOUS
<1>4. inHash' = [inHash EXCEPT ![t] = r]
  BY <1>2, <1>3 DEF Create, HashSet
<1>5. /\ r \in HashLocals /\ r.pc = "list" /\ r.producer = n + 1 /\ r.producer # NoProducer
      /\ r.mainHash = inHash[t].mainHash
  <2>1. producerListTail \in Nat /\ n + 1 \in Nat /\ n + 1 # 0
    BY <1>2, TailIs
  <2>2. r \in HashLocals
    BY <1>1, <1>3, <2>1 DEF HashLocals, HashPcs, ListPcs
  <2> QED  BY <1>1, <1>3, <2>1, <2>2 DEF HashLocals, NoProducer
<1>6. Knows(t, r)
  BY <1>1, <1>5 DEF Knows, CountPcs, ListPcs
<1>7. /\ inHash' \in [HashThreads -> HashLocals] /\ inHash'[t] = r
      /\ \A u \in HashThreads : u # t => inHash'[u] = inHash[u]
  BY <1>4, <1>5 DEF HashInv
<1>8. TablesOk' /\ (\A u \in HashThreads : ThreadOk(u))'
  BY <1>1, <1>4, <1>5, <1>6, <1>7, SameTables, ThreadsOk, KnowsSame DEF HashInv
<1>9. /\ next' \in Seq(Nat) /\ Len(next') = n + 1 /\ \A p \in 1..n : next'[p] = next[p]
      /\ 1..n \subseteq 1..(n + 1)
  BY <1>1, <1>2, TailIs DEF NoProducer
<1>10. \A u, p : (Stored(u, p)' <=> Stored(u, p))
  BY <1>1, SameTables DEF HashInv
<1>11. /\ \A p : Owns(t, p)' <=> p = n + 1
       /\ \A u \in HashThreads : u # t => \A p : (Owns(u, p)' <=> Owns(u, p)) /\ (Owns(u, p) => p \in 1..n)
  <2>1. \A p : ~Stored(t, p)
    BY <1>1, OwnedIs
  <2> QED  BY <1>2, <1>5, <1>7, <1>10, <2>1, OwnedIs DEF Owns
<1>12. OwnersOk'
  <2>1. \A h \in 1..Len(hashes') : \A i \in Slots(h)' :
          /\ hashes'[h].values[i] \in 0..Len(next')
          /\ Filled(h, i)' => hashes'[h].values[i] # NoProducer
    BY <1>1, <1>2, <1>9, SameTables DEF HashInv, OwnersOk, Filled
  <2>2. \A u \in HashThreads : inHash'[u].producer \in 0..Len(next')
    BY <1>2, <1>5, <1>7, <1>9 DEF HashInv, OwnersOk
  <2>3. ASSUME NEW u \in HashThreads, NEW v \in HashThreads, NEW p \in 1..Len(next'),
               NEW q \in 1..Len(next'), Owns(u, p)', Owns(v, q)'
        PROVE  u = v <=> p = q
    <3>1. n + 1 \notin 1..n
      OBVIOUS
    <3>2. CASE u = t \/ v = t
      BY <1>11, <2>3, <3>1, <3>2
    <3>3. CASE u # t /\ v # t
      <4>1. Owns(u, p) /\ Owns(v, q) /\ p \in 1..n /\ q \in 1..n
        BY <1>11, <2>3, <3>3
      <4> QED  BY <1>2, <4>1 DEF HashInv, OwnersOk
    <3> QED  BY <3>2, <3>3
  <2>4. got' \in [HashThreads -> SUBSET Nat] /\ \A u \in HashThreads : \A p \in got'[u] : Stored(u, p)'
    BY <1>1, <1>10, HashThreadFacts
  <2> QED  BY <1>9, <2>1, <2>2, <2>3, <2>4 DEF OwnersOk
<1>13. ListOk'
  <2>1. PICK L : \E k \in Nat : ListOf(L, k)
    BY DEF HashInv, ListOk
  <2>2. PICK k \in Nat : ListOf(L, k)
    BY <2>1
  <2>3. \A i \in 1..k : L[i] \in 1..n
    BY <1>2, <2>2 DEF ListOf, Members
  <2>4. IsStack(L, k, producerListTail', next', NoProducer)
    BY <1>1, <1>9, <2>2, <2>3 DEF ListOf, IsStack
  <2>5. Members(L, k) \subseteq 1..Len(next') /\ n + 1 \notin Members(L, k)
    BY <1>9, <2>3 DEF Members
  <2>6. \A u \in HashThreads : \A p \in 1..Len(next') :
          Owns(u, p)' => (p \in Members(L, k) <=> inHash'[u].pc \notin ListPcs)
    <3>1. \A p : Owns(t, p)' => p \notin Members(L, k) /\ inHash'[t].pc \in ListPcs
      BY <1>5, <1>7, <1>11, <2>5 DEF ListPcs
    <3>2. ASSUME NEW u \in HashThreads, u # t, NEW p, Owns(u, p)'
          PROVE  p \in Members(L, k) <=> inHash'[u].pc \notin ListPcs
      BY <1>2, <1>7, <1>11, <2>2, <3>2 DEF ListOf
    <3> QED  BY <3>1, <3>2
  <2>7. ListOf(L, k)'
    BY <2>4, <2>5, <2>6 DEF ListOf
  <2>8. ASSUME NEW u \in HashThreads, inHash'[u].pc = "push"
        PROVE  next'[inHash'[u].producer] = inHash'[u].prevTail
    <3>1. u # t /\ inHash'[u] = inHash[u]
      BY <1>5, <1>7, <2>8
    <3>2. inHash[u].producer \in 1..n
      BY <1>2, <2>8, <3>1, HashThreadFacts, OwnedIs DEF Knows, ListPcs, Owns
    <3> QED  BY <1>9, <2>8, <3>1, <3>2 DEF HashInv, ListOk
  <2> QED  BY <2>7, <2>8 DEF ListOk
<1>14. ResizeOk'
  BY <1>1, <1>4, <1>5, ResizeSame
<1>15. CountsOk'
  <2>1. /\ \A u, h : (InTable(u, h)' <=> InTable(u, h))
        /\ \A u : (InNoTable(u)' <=> InNoTable(u))
        /\ \A h : Room(h)' = Room(h)
    BY <1>1, SameTables DEF HashInv, Room
  <2>2. Counted' = Counted
    BY <1>1, <1>5, <1>7, <2>1 DEF Counted, CountPcs
  <2>3. inHash[t].newCount < Room(inHash[t].mainHash)
    BY DEF Create, HasRoom, Room
  <2>4. ASSUME NEW b \in Nat, NEW u \in HashThreads, Within(u, b)' PROVE Within(u, b)
    <3>1. CASE u = t
      <4>1. Room(inHash[t].mainHash) <= b
        BY <1>1, <1>5, <1>7, <2>1, <2>4, <3>1 DEF Within, InNoTable, CountPcs
      <4>2. CapacityOf(inHash[t].mainHash) \in Nat /\ inHash[t].newCount \in Nat
        BY <1>1, HashThreadFacts, Tables DEF HashLocals
      <4>3. Room(inHash[t].mainHash) \in Nat
        BY <4>2 DEF Room
      <4>4. inHash[t].newCount < b
        BY <2>3, <4>1, <4>2, <4>3
      <4> QED  BY <1>1, <3>1, <4>4 DEF Within, CountPcs
    <3>2. CASE u # t
      BY <1>1, <1>7, <2>1, <2>4, <3>2 DEF Within
    <3> QED  BY <3>1, <3>2
  <2>5. \A b \in Nat : Users(b)' \subseteq Users(b)
    BY <2>4 DEF Users
  <2> QED  BY <1>1, <2>2, <2>5, CountsNotMore DEF HashInv
<1> QED  BY <1>7, <1>8, <1>12, <1>13, <1>14, <1>15 DEF HashInv

(* What a thread that is adding its producer to the list knows.            *)
LEMMA ListingFacts ==
  ASSUME HashInv, NEW t \in HashThreads, inHash[t].pc \in ListPcs
  PROVE  \E p \in 1..Len(next) : \E k \in Nat : \E L :
           /\ inHash[t].producer = p /\ InNoTable(t) /\ inHash[t].mainHash \in 1..Len(hashes)
           /\ \A u \in HashThreads : \A q \in 1..Len(next) : Owns(u, q) => (u = t <=> q = p)
           /\ p # NoProducer /\ Owns(t, p) /\ ListOf(L, k) /\ p \notin Members(L, k)
<1>1. PICK p : p = inHash[t].producer
  OBVIOUS
<1>2. /\ InNoTable(t) /\ inHash[t].mainHash \in 1..Len(hashes) /\ p # NoProducer
      /\ Owns(t, p) /\ p \in 1..Len(next)
  BY <1>1, HashThreadFacts, OwnedIs DEF Knows, ListPcs, Owns
<1>3. PICK L : \E k \in Nat : ListOf(L, k)
  BY DEF HashInv, ListOk
<1>4. PICK k \in Nat : ListOf(L, k)
  BY <1>3
<1>5. p \notin Members(L, k)
  BY <1>2, <1>4 DEF ListOf
<1>6. \A u \in HashThreads : \A q \in 1..Len(next) : Owns(u, q) => (u = t <=> q = p)
  BY <1>2 DEF HashInv, OwnersOk
<1> QED  BY <1>1, <1>2, <1>4, <1>5, <1>6

LEMMA SetNextStep ==
  ASSUME HashInv, NEW t \in HashThreads, SetNext(t)
  PROVE  HashInv'
<1>1. /\ inHash[t].pc = "list" /\ inHash[t] \in HashLocals
      /\ UNCHANGED <<hashes, implicitProducerHashCount, producerListTail,
                     implicitProducerHashResizeInProgress, got>>
  BY HashThreadFacts DEF SetNext, HashAt
<1>2. PICK p \in 1..Len(next) : \E k \in Nat : \E L :
           /\ inHash[t].producer = p /\ InNoTable(t) /\ inHash[t].mainHash \in 1..Len(hashes)
           /\ \A u \in HashThreads : \A q \in 1..Len(next) : Owns(u, q) => (u = t <=> q = p)
           /\ p # NoProducer /\ Owns(t, p) /\ ListOf(L, k) /\ p \notin Members(L, k)
  BY <1>1, ListingFacts DEF ListPcs
<1>3. PICK k \in Nat : \E L :
           /\ inHash[t].producer = p /\ InNoTable(t) /\ inHash[t].mainHash \in 1..Len(hashes)
           /\ \A u \in HashThreads : \A q \in 1..Len(next) : Owns(u, q) => (u = t <=> q = p)
           /\ p # NoProducer /\ Owns(t, p) /\ ListOf(L, k) /\ p \notin Members(L, k)
  BY <1>2
<1>4. PICK L :
           /\ inHash[t].producer = p /\ InNoTable(t) /\ inHash[t].mainHash \in 1..Len(hashes)
           /\ \A u \in HashThreads : \A q \in 1..Len(next) : Owns(u, q) => (u = t <=> q = p)
           /\ p # NoProducer /\ Owns(t, p) /\ ListOf(L, k) /\ p \notin Members(L, k)
  BY <1>3
<1>5. PICK r : r = [inHash[t] EXCEPT !.pc = "push"]
  OBVIOUS
<1>6. /\ inHash' = [inHash EXCEPT ![t] = r]
      /\ next' = [next EXCEPT ![p] = inHash[t].prevTail]
  BY <1>4, <1>5 DEF SetNext, HashSet
<1>7. /\ r \in HashLocals /\ r.pc = "push" /\ r.producer = p
      /\ r.mainHash = inHash[t].mainHash /\ r.prevTail = inHash[t].prevTail
  BY <1>1, <1>4, <1>5 DEF HashLocals, HashPcs, ListPcs
<1>8. Knows(t, r)
  BY <1>4, <1>7 DEF Knows, CountPcs, ListPcs
<1>9. /\ inHash' \in [HashThreads -> HashLocals] /\ inHash'[t] = r
      /\ \A u \in HashThreads : u # t => inHash'[u] = inHash[u]
  BY <1>6, <1>7 DEF HashInv
<1>10. TablesOk' /\ (\A u \in HashThreads : ThreadOk(u))'
  BY <1>1, <1>6, <1>7, <1>8, <1>9, SameTables, ThreadsOk, KnowsSame DEF HashInv
<1>11. /\ next' \in Seq(Nat) /\ Len(next') = Len(next) /\ next'[p] = inHash[t].prevTail
       /\ \A q \in 1..Len(next) : q # p => next'[q] = next[q]
  BY <1>1, <1>6, TailIs DEF HashLocals
<1>12. \A q \in 1..Len(next) : Owns(t, q)' <=> Owns(t, q)
  BY <1>1, <1>4, <1>7, <1>9, SameTables DEF HashInv, Owns
<1>13. /\ OwnersOk'
       /\ \A u \in HashThreads : \A q \in 1..Len(next) : Owns(u, q)' <=> Owns(u, q)
  <2>1. r.producer \in 0..Len(next)
    BY <1>7, TailIs
  <2>2. /\ got' \in [HashThreads -> SUBSET Nat]
        /\ \A u \in HashThreads : \A q \in got'[u] : Stored(u, q)
    BY <1>1, HashThreadFacts
  <2> QED  BY <1>1, <1>6, <1>7, <1>11, <1>12, <2>1, <2>2, OwnersSame
<1>14. ListOk'
  <2>1. \A i \in 1..k : L[i] \in 1..Len(next) /\ L[i] # p
    BY <1>4 DEF ListOf, Members
  <2>2. IsStack(L, k, producerListTail', next', NoProducer)
    BY <1>1, <1>4, <1>11, <2>1 DEF ListOf, IsStack
  <2>3. ListOf(L, k)'
    BY <1>1, <1>4, <1>7, <1>9, <1>11, <1>13, <2>2 DEF ListOf, ListPcs
  <2>4. ASSUME NEW u \in HashThreads, inHash'[u].pc = "push"
        PROVE  next'[inHash'[u].producer] = inHash'[u].prevTail
    <3>1. CASE u = t
      BY <1>7, <1>9, <1>11, <3>1
    <3>2. CASE u # t
      <4>1. inHash'[u] = inHash[u] /\ inHash[u].pc = "push"
        BY <1>9, <2>4, <3>2
      <4>2. Owns(u, inHash[u].producer) /\ inHash[u].producer \in 1..Len(next)
        BY <4>1, HashThreadFacts, OwnedIs DEF Knows, ListPcs, Owns
      <4>3. inHash[u].producer # p
        BY <1>4, <3>2, <4>2
      <4> QED  BY <1>11, <4>1, <4>2, <4>3 DEF HashInv, ListOk
    <3> QED  BY <3>1, <3>2
  <2> QED  BY <2>3, <2>4 DEF ListOk
<1>15. ResizeOk'
  BY <1>1, <1>6, <1>7, ResizeSame
<1>16. CountsOk'
  BY <1>1, <1>4, <1>6, <1>7, CountsSame DEF CountPcs
<1> QED  BY <1>9, <1>10, <1>13, <1>14, <1>15, <1>16 DEF HashInv

LEMMA PushStep ==
  ASSUME HashInv, NEW t \in HashThreads, Push(t)
  PROVE  HashInv'
<1>1. /\ inHash[t].pc = "push" /\ inHash[t] \in HashLocals
      /\ UNCHANGED <<hashes, implicitProducerHashCount, next,
                     implicitProducerHashResizeInProgress, got>>
  BY HashThreadFacts DEF Push, HashAt
<1>2. PICK p \in 1..Len(next) : \E k \in Nat : \E L :
           /\ inHash[t].producer = p /\ InNoTable(t) /\ inHash[t].mainHash \in 1..Len(hashes)
           /\ \A u \in HashThreads : \A q \in 1..Len(next) : Owns(u, q) => (u = t <=> q = p)
           /\ p # NoProducer /\ Owns(t, p) /\ ListOf(L, k) /\ p \notin Members(L, k)
  BY <1>1, ListingFacts DEF ListPcs
<1>3. PICK k \in Nat : \E L :
           /\ inHash[t].producer = p /\ InNoTable(t) /\ inHash[t].mainHash \in 1..Len(hashes)
           /\ \A u \in HashThreads : \A q \in 1..Len(next) : Owns(u, q) => (u = t <=> q = p)
           /\ p # NoProducer /\ Owns(t, p) /\ ListOf(L, k) /\ p \notin Members(L, k)
  BY <1>2
<1>4. PICK L :
           /\ inHash[t].producer = p /\ InNoTable(t) /\ inHash[t].mainHash \in 1..Len(hashes)
           /\ \A u \in HashThreads : \A q \in 1..Len(next) : Owns(u, q) => (u = t <=> q = p)
           /\ p # NoProducer /\ Owns(t, p) /\ ListOf(L, k) /\ p \notin Members(L, k)
  BY <1>3
<1>5. PICK m \in 1..Len(hashes) : m = inHash[t].mainHash
  BY <1>4
<1>6. Start(t, m) \in Slots(m) /\ Start(t, m) \in Nat /\ m \in Nat
  BY HashThreadFacts, StartIs
<1>7. PICK r : /\ inHash' = [inHash EXCEPT ![t] = r]
               /\ \/ /\ producerListTail = inHash[t].prevTail /\ producerListTail' = p
                     /\ r = [inHash[t] EXCEPT !.pc = "insert", !.prevTail = NoProducer,
                                              !.hash = m, !.index = Start(t, m)]
                  \/ /\ producerListTail # inHash[t].prevTail /\ UNCHANGED producerListTail
                     /\ r = [inHash[t] EXCEPT !.pc = "list", !.prevTail = producerListTail]
  BY <1>4, <1>5 DEF Push, Pushed, HashSet
<1>8. producerListTail \in Nat
  BY TailIs
<1>9. /\ r \in HashLocals /\ r.producer = p /\ r.mainHash = m
      /\ r.pc \in {"insert", "list"}
      /\ r.pc = "insert" => r.hash = m /\ r.index = Start(t, m)
  <2>1. CASE producerListTail = inHash[t].prevTail
    <3>1. r = [inHash[t] EXCEPT !.pc = "insert", !.prevTail = NoProducer,
                                !.hash = m, !.index = Start(t, m)]
      BY <1>7, <2>1
    <3>2. NoProducer \in Nat /\ "insert" \in HashPcs
      BY DEF NoProducer, HashPcs
    <3> QED  BY <1>1, <1>4, <1>5, <1>6, <3>1, <3>2 DEF HashLocals
  <2>2. CASE producerListTail # inHash[t].prevTail
    BY <1>1, <1>4, <1>5, <1>7, <1>8, <2>2 DEF HashLocals, HashPcs, ListPcs
  <2> QED  BY <2>1, <2>2
<1>10. Knows(t, r)
  <2>1. \A j \in Slots(m) : ~(Dist(t, m, j) < Dist(t, m, Start(t, m)))
    BY HashThreadFacts, StartIs
  <2>2. ~InTable(t, m)
    BY <1>4 DEF InNoTable
  <2> QED  BY <1>4, <1>6, <1>9, <2>1, <2>2 DEF Knows, CountPcs, ListPcs
<1>11. /\ inHash' \in [HashThreads -> HashLocals] /\ inHash'[t] = r
       /\ \A u \in HashThreads : u # t => inHash'[u] = inHash[u]
  BY <1>7, <1>9 DEF HashInv
<1>12. TablesOk' /\ (\A u \in HashThreads : ThreadOk(u))'
  BY <1>1, <1>7, <1>9, <1>10, <1>11, SameTables, ThreadsOk, KnowsSame DEF HashInv
<1>13. \A q \in 1..Len(next) : Owns(t, q)' <=> Owns(t, q)
  BY <1>1, <1>4, <1>9, <1>11, SameTables DEF HashInv, Owns
<1>14. /\ OwnersOk'
       /\ \A u \in HashThreads : \A q \in 1..Len(next) : Owns(u, q)' <=> Owns(u, q)
  <2>1. r.producer \in 0..Len(next) /\ next' \in Seq(Nat) /\ Len(next') = Len(next)
    BY <1>1, <1>9, TailIs
  <2>2. /\ got' \in [HashThreads -> SUBSET Nat]
        /\ \A u \in HashThreads : \A q \in got'[u] : Stored(u, q)
    BY <1>1, HashThreadFacts
  <2> QED  BY <1>1, <1>7, <1>9, <1>13, <2>1, <2>2, OwnersSame
<1>15. \A u \in HashThreads :
         inHash'[u].pc = "push" => next'[inHash'[u].producer] = inHash'[u].prevTail
  BY <1>1, <1>9, <1>11 DEF HashInv, ListOk
<1>16. ListOk'
  <2>1. CASE producerListTail # inHash[t].prevTail
    <3>1. UNCHANGED <<next, producerListTail>> /\ r.pc = "list"
      BY <1>1, <1>7, <2>1, <1>4 DEF HashLocals
    <3> QED  BY <1>1, <1>7, <1>9, <1>14, <3>1, ListSame DEF ListPcs
  <2>2. CASE producerListTail = inHash[t].prevTail
    <3>1. producerListTail' = p /\ r.pc = "insert"
      BY <1>1, <1>7, <2>2, <1>4 DEF HashLocals
    <3>2. next[p] = producerListTail
      BY <1>1, <1>4, <2>2 DEF HashInv, ListOk
    <3>3. PICK M : /\ IsStack(M, k + 1, p, next, NoProducer)
                   /\ Members(M, k + 1) = Members(L, k) \cup {p}
      BY <1>4, <3>2, StackPushed DEF ListOf
    <3>4. ASSUME NEW u \in HashThreads, NEW q \in 1..Len(next), Owns(u, q)
          PROVE  q \in Members(M, k + 1) <=> inHash'[u].pc \notin ListPcs
      <4>1. CASE u = t
        BY <1>4, <1>11, <3>1, <3>3, <3>4, <4>1 DEF ListPcs
      <4>2. CASE u # t
        BY <1>4, <1>11, <3>3, <3>4, <4>2 DEF ListOf
      <4> QED  BY <4>1, <4>2
    <3>5. Members(M, k + 1) \subseteq 1..Len(next)
      BY <1>4, <3>3 DEF ListOf
    <3>6. ListOf(M, k + 1)'
      BY <1>1, <1>14, <3>1, <3>3, <3>4, <3>5 DEF ListOf
    <3>7. k + 1 \in Nat
      OBVIOUS
    <3> QED  BY <1>15, <3>6, <3>7 DEF ListOk
  <2> QED  BY <2>1, <2>2
<1>17. ResizeOk'
  BY <1>1, <1>7, <1>9, ResizeSame
<1>18. CountsOk'
  BY <1>1, <1>4, <1>5, <1>7, <1>9, CountsSame DEF CountPcs
<1> QED  BY <1>11, <1>12, <1>14, <1>16, <1>17, <1>18 DEF HashInv

LEMMA InsertDone ==
  ASSUME HashInv, NEW t \in HashThreads, Insert(t), Probed(t) = invalid_thread_id
  PROVE  HashInv'
<1>1. PICK h \in 1..Len(hashes) : \E i \in Slots(h) :
        /\ inHash[t].hash = h /\ inHash[t].mainHash = h /\ inHash[t].index = i
        /\ ~InTable(t, h) /\ inHash[t].producer \in 1..Len(next)
        /\ \A j \in Slots(h) : Dist(t, h, j) < Dist(t, h, i) => Filled(h, j)
  BY InsertFacts DEF Insert, HashAt
<1>2. PICK i \in Slots(h) :
        /\ inHash[t].hash = h /\ inHash[t].mainHash = h /\ inHash[t].index = i
        /\ ~InTable(t, h) /\ inHash[t].producer \in 1..Len(next)
        /\ \A j \in Slots(h) : Dist(t, h, j) < Dist(t, h, i) => Filled(h, j)
  BY <1>1
<1>3. PICK p \in 1..Len(next) : p = inHash[t].producer
  BY <1>2
<1>4. Len(next) \in Nat /\ p \in Nat /\ p # NoProducer /\ p \in 0..Len(next)
  <2>1. Len(next) \in Nat
    BY TailIs
  <2> QED  BY <2>1 DEF NoProducer
<1>5. /\ inHash[t].pc = "insert" /\ ~Filled(h, i)
      /\ inHash' = [inHash EXCEPT ![t] = HashIdle]
      /\ got' = [got EXCEPT ![t] = @ \cup ({p} \ {NoProducer})]
      /\ hashes' = [hashes EXCEPT ![h].keys[i] = t, ![h].values[i] = p]
      /\ UNCHANGED <<implicitProducerHashCount, implicitProducerHashResizeInProgress,
                     next, producerListTail>>
  BY <1>2, <1>3 DEF Insert, HashAt, Probed, Filled, HashReturn
<1>6. /\ inHash' \in [HashThreads -> HashLocals] /\ inHash'[t] = HashIdle
      /\ HashIdle.pc = "idle" /\ HashIdle.producer = NoProducer /\ HashIdle \in HashLocals
      /\ \A u \in HashThreads : u # t => inHash'[u] = inHash[u]
  BY <1>5, HashIdleOk DEF HashInv
<1>7. PICK ks : ks = [hashes[h].keys EXCEPT ![i] = t]
  OBVIOUS
<1>8. PICK vs : vs = [hashes[h].values EXCEPT ![i] = p]
  OBVIOUS
<1>9. PICK c \in Nat \ {0} : c = CapacityOf(h)
  BY HashThreadFacts, Tables
<1>10. /\ ks \in [0..(c - 1) -> HashThreads \cup {invalid_thread_id}] /\ ks[i] = t
       /\ vs \in [0..(c - 1) -> Nat] /\ vs[i] = p /\ Slots(h) = 0..(c - 1)
       /\ \A j \in Slots(h) : j # i => ks[j] = hashes[h].keys[j] /\ vs[j] = hashes[h].values[j]
  BY <1>4, <1>7, <1>8, <1>9, HashThreadFacts, Tables DEF Slots
<1>11. /\ Len(hashes') = Len(hashes) /\ hashes' \in Seq(TableSet)
       /\ hashes'[h] = [keys |-> ks, values |-> vs]
       /\ \A g \in 1..Len(hashes) : g # h => hashes'[g] = hashes[g]
  <2>1. hashes \in Seq(TableSet) /\ hashes[h] = [keys |-> hashes[h].keys, values |-> hashes[h].values]
    BY HashThreadFacts, Tables DEF TablesOk
  <2>2. hashes' = [hashes EXCEPT ![h] = [keys |-> ks, values |-> vs]]
    <3>1. PICK f : f = [hashes EXCEPT ![h].keys[i] = t]
      OBVIOUS
    <3>2. hashes' = [f EXCEPT ![h].values[i] = p]
      BY <1>5, <3>1
    <3>3. [hashes[h] EXCEPT !.keys[i] = t] = [keys |-> ks, values |-> hashes[h].values]
      BY <1>7, <2>1
    <3>4. f = [hashes EXCEPT ![h] = [keys |-> ks, values |-> hashes[h].values]]
      BY <3>1, <3>3
    <3>5. f[h] = [keys |-> ks, values |-> hashes[h].values]
      BY <2>1, <3>4
    <3>6. [f[h] EXCEPT !.values[i] = p] = [keys |-> ks, values |-> vs]
      BY <1>8, <3>5
    <3>7. hashes' = [f EXCEPT ![h] = [keys |-> ks, values |-> vs]]
      BY <3>2, <3>6
    <3> QED  BY <2>1, <3>4, <3>7
  <2>3. [keys |-> ks, values |-> vs] \in TableSet
    BY <1>10, TableWith
  <2> QED  BY <2>1, <2>2, <2>3
<1>12. \A g \in 1..Len(hashes) : CapacityOf(g)' = CapacityOf(g) /\ Slots(g)' = Slots(g)
  <2>1. hashes'[h].keys = ks /\ DOMAIN ks = 0..(c - 1)
    BY <1>10, <1>11
  <2>2. CapacityOf(h)' = c
    BY <2>1, SlotsOf DEF CapacityOf
  <2> QED  BY <1>9, <1>11, <2>2 DEF CapacityOf, Slots
<1>13. \A g \in 1..Len(hashes) : \A j \in Slots(g) :
         /\ g # h \/ j # i => /\ hashes'[g].keys[j] = hashes[g].keys[j]
                              /\ hashes'[g].values[j] = hashes[g].values[j]
                              /\ Filled(g, j)' <=> Filled(g, j)
         /\ g = h /\ j = i => /\ hashes'[g].keys[j] = t /\ hashes'[g].values[j] = p
                              /\ Filled(g, j)'
  <2>1. hashes'[h].keys = ks /\ hashes'[h].values = vs /\ t # invalid_thread_id
    BY <1>11, HashNumbers
  <2>2. ASSUME NEW j \in Slots(h), j # i
        PROVE  /\ hashes'[h].keys[j] = hashes[h].keys[j]
               /\ hashes'[h].values[j] = hashes[h].values[j]
    BY <1>10, <2>1, <2>2
  <2>3. hashes'[h].keys[i] = t /\ hashes'[h].values[i] = p /\ Filled(h, i)'
    BY <1>10, <2>1 DEF Filled
  <2> QED  BY <1>11, <2>2, <2>3 DEF Filled
<1>14. \A u, g, j : g \in 1..Len(hashes) => Start(u, g)' = Start(u, g) /\ Dist(u, g, j)' = Dist(u, g, j)
  BY <1>12 DEF Start, Dist
<1>15. Grown(t)
  BY <1>5, <1>11, <1>12, <1>13, HashThreadFacts DEF Grown
<1>16. TablesOk'
  <2>1. \A g, f \in 1..Len(hashes') : g <= f => CapacityOf(g)' <= CapacityOf(f)'
    BY <1>11, <1>12, HashThreadFacts DEF TablesOk
  <2>2. ASSUME NEW g \in 1..Len(hashes), NEW j \in Slots(g), NEW l \in Slots(g), Filled(g, j)',
               NEW u, hashes'[g].keys[j] = u
        PROVE  /\ hashes'[g].keys[j] = hashes'[g].keys[l] => j = l
               /\ Dist(u, g, l)' < Dist(u, g, j)' => Filled(g, l)'
    <3>1. CASE g = h /\ j = i
      <4>1. hashes'[g].keys[j] = t
        BY <1>13, <3>1
      <4>2. \A s \in Slots(h) : hashes[h].keys[s] # t
        BY <1>2 DEF InTable
      <4>3. hashes'[g].keys[j] = hashes'[g].keys[l] => j = l
        BY <1>13, <3>1, <4>1, <4>2
      <4>4. Dist(t, h, l)' < Dist(t, h, i)' => Filled(h, l)'
        BY <1>2, <1>13, <1>14, <3>1
      <4> QED  BY <2>2, <3>1, <4>1, <4>3, <4>4
    <3>2. CASE g # h \/ j # i
      <4>1. /\ Filled(g, j) /\ hashes'[g].keys[j] = hashes[g].keys[j]
        BY <1>13, <2>2, <3>2
      <4>2. u = hashes[g].keys[j]
        BY <2>2, <4>1
      <4>3. /\ hashes[g].keys[j] = hashes[g].keys[l] => j = l
            /\ Dist(u, g, l) < Dist(u, g, j) => Filled(g, l)
        BY <4>1, <4>2, HashThreadFacts DEF TablesOk
      <4>4. Dist(u, g, l)' < Dist(u, g, j)' => Filled(g, l)'
        BY <1>13, <1>14, <4>3
      <4>5. hashes'[g].keys[j] = hashes'[g].keys[l] => j = l
        <5>1. CASE g = h /\ l = i
          <6>1. u # t
            BY <1>2, <4>2, <5>1 DEF InTable
          <6> QED  BY <1>13, <4>1, <4>2, <5>1, <6>1
        <5>2. CASE g # h \/ l # i
          BY <1>13, <4>1, <4>3, <5>2
        <5> QED  BY <5>1, <5>2
      <4> QED  BY <4>1, <4>2, <4>4, <4>5
    <3> QED  BY <3>1, <3>2
  <2>3. Len(hashes') # 0
    BY <1>11, HashThreadFacts
  <2> QED  BY <1>11, <1>12, <2>1, <2>2, <2>3 DEF TablesOk
<1>17. (\A u \in HashThreads : ThreadOk(u))'
  <2>1. ThreadOk(t)'
    BY <1>6 DEF ThreadOk, Knows, CountPcs, ListPcs
  <2> QED  BY <1>5, <1>6, <1>15, <2>1, ThreadsOk
<1>18. \A u \in HashThreads : \A g \in 1..Len(hashes) :
         InTable(u, g)' <=> InTable(u, g) \/ (u = t /\ g = h)
  <2>1. \A u \in HashThreads : u # t => \A g \in 1..Len(hashes) : InTable(u, g)' <=> InTable(u, g)
    <3> SUFFICES ASSUME NEW u \in HashThreads, u # t, NEW g \in 1..Len(hashes)
                 PROVE  InTable(u, g)' <=> InTable(u, g)
      OBVIOUS
    <3>1. \A j \in Slots(g) : hashes'[g].keys[j] = u <=> hashes[g].keys[j] = u
      BY <1>5, <1>13, HashNumbers DEF Filled
    <3> QED  BY <1>12, <3>1 DEF InTable
  <2>2. \A g \in 1..Len(hashes) : g # h => (InTable(t, g)' <=> InTable(t, g))
    BY <1>12, <1>13 DEF InTable
  <2>3. InTable(t, h)'
    BY <1>12, <1>13 DEF InTable
  <2> QED  BY <2>1, <2>2, <2>3
<1>19. \A u \in HashThreads : \A q \in Nat :
         Stored(u, q)' <=> Stored(u, q) \/ (u = t /\ q = p)
  <2>1. ASSUME NEW u \in HashThreads, NEW q, Stored(u, q) PROVE Stored(u, q)'
    <3>1. PICK g \in 1..Len(hashes) : \E j \in Slots(g) :
            hashes[g].keys[j] = u /\ hashes[g].values[j] = q
      BY <2>1 DEF Stored
    <3>2. PICK j \in Slots(g) : hashes[g].keys[j] = u /\ hashes[g].values[j] = q
      BY <3>1
    <3>3. g # h \/ j # i
      BY <1>5, <3>2, HashNumbers DEF Filled
    <3> QED  BY <1>11, <1>12, <1>13, <3>2, <3>3 DEF Stored
  <2>2. ASSUME NEW u \in HashThreads, NEW q, Stored(u, q)'
        PROVE  Stored(u, q) \/ (u = t /\ q = p)
    <3>1. PICK g \in 1..Len(hashes) : \E j \in Slots(g) :
            hashes'[g].keys[j] = u /\ hashes'[g].values[j] = q
      BY <1>11, <1>12, <2>2 DEF Stored
    <3> QED  BY <1>13, <3>1 DEF Stored
  <2>3. Stored(t, p)'
    BY <1>11, <1>12, <1>13 DEF Stored
  <2> QED  BY <2>1, <2>2, <2>3
<1>20. \A u \in HashThreads : \A q \in 1..Len(next) : Owns(u, q)' <=> Owns(u, q)
  BY <1>3, <1>4, <1>6, <1>19 DEF Owns
<1>21. OwnersOk'
  <2>1. next' \in Seq(Nat) /\ got' \in [HashThreads -> SUBSET Nat] /\ next' = next
    BY <1>4, <1>5, HashThreadFacts, TailIs
  <2>2. \A g \in 1..Len(hashes') : \A j \in Slots(g)' :
          /\ hashes'[g].values[j] \in 0..Len(next')
          /\ Filled(g, j)' => hashes'[g].values[j] # NoProducer
    BY <1>4, <1>11, <1>12, <1>13, <2>1 DEF HashInv, OwnersOk
  <2>3. \A u \in HashThreads : inHash'[u].producer \in 0..Len(next')
    BY <1>4, <1>6, <2>1 DEF HashInv, OwnersOk, NoProducer
  <2>4. \A u, v \in HashThreads : \A q, s \in 1..Len(next') :
          Owns(u, q)' /\ Owns(v, s)' => (u = v <=> q = s)
    BY <1>20, <2>1 DEF HashInv, OwnersOk
  <2>5. \A u \in HashThreads : \A q \in got'[u] : Stored(u, q)'
    <3> SUFFICES ASSUME NEW u \in HashThreads, NEW q \in got'[u] PROVE Stored(u, q)'
      OBVIOUS
    <3>1. q \in got[u] \/ (u = t /\ q = p)
      BY <1>5, HashThreadFacts
    <3>2. q \in Nat
      BY <2>1
    <3> QED  BY <1>19, <3>1, <3>2, HashThreadFacts
  <2> QED  BY <2>1, <2>2, <2>3, <2>4, <2>5 DEF OwnersOk
<1>22. ListOk'
  BY <1>5, <1>6, <1>20, ListSame DEF ListPcs
<1>23. ResizeOk'
  BY <1>5, <1>6, <1>11 DEF HashInv, ResizeOk, Resizing
<1>24. CountsOk'
  <2>1. \A g \in 1..Len(hashes) : Room(g)' = Room(g)
    BY <1>12 DEF Room
  <2>2. \A u \in HashThreads : u # t => (InNoTable(u)' <=> InNoTable(u))
    BY <1>11, <1>18 DEF InNoTable
  <2>3. ~InNoTable(t)'
    BY <1>11, <1>18 DEF InNoTable
  <2>4. Counted' = Counted
    <3>1. inHash[t].producer # NoProducer
      BY <1>3, <1>4
    <3>2. \A u \in HashThreads :
            (inHash[u].pc \in CountPcs \/ inHash[u].producer # NoProducer \/ ~InNoTable(u))
              <=> (inHash'[u].pc \in CountPcs \/ inHash'[u].producer # NoProducer \/ ~InNoTable(u)')
      BY <1>6, <2>2, <2>3, <3>1
    <3> QED  BY <3>2 DEF Counted
  <2>5. ASSUME NEW b \in Nat, NEW u \in HashThreads, Within(u, b)' PROVE Within(u, b)
    <3>1. CASE u = t
      <4>1. PICK g \in 1..Len(hashes) : Room(g) <= b /\ InTable(t, g)'
        BY <1>6, <1>11, <2>1, <2>5, <3>1 DEF Within, CountPcs
      <4>2. InTable(t, g) \/ g = h
        BY <1>18, <4>1
      <4> QED  BY <1>2, <1>3, <1>4, <3>1, <4>1, <4>2 DEF Within
    <3>2. CASE u # t
      <4>1. inHash'[u] = inHash[u] /\ \A g \in 1..Len(hashes) : InTable(u, g)' <=> InTable(u, g)
        BY <1>6, <1>18, <3>2
      <4> QED  BY <1>11, <2>1, <2>5, <4>1 DEF Within
    <3> QED  BY <3>1, <3>2
  <2>6. \A b \in Nat : Users(b)' \subseteq Users(b)
    BY <2>5 DEF Users
  <2> QED  BY <1>5, <2>4, <2>6, CountsNotMore DEF HashInv
<1> QED  BY <1>6, <1>16, <1>17, <1>21, <1>22, <1>23, <1>24 DEF HashInv

-----------------------------------------------------------------------------
(* The size of the next table.                                             *)

(* What doubling makes of c: the least set with c that doubling stays in.  *)
ClosedFrom(c, S) == c \in S /\ \A x \in S : 2 * x \in S
Doublings(c) == {m \in Nat : \A S \in SUBSET Nat : ClosedFrom(c, S) => m \in S}

LEMMA DoublingsAre ==
  ASSUME NEW c \in Nat \ {0}
  PROVE  /\ c \in Doublings(c) /\ \A m \in Doublings(c) : m >= c /\ 2 * m \in Doublings(c)
         /\ Doublings(c) = {c} \cup Doublings(2 * c)
<1>1. c \in Doublings(c)
  BY DEF Doublings, ClosedFrom
<1>2. ASSUME NEW m \in Doublings(c) PROVE m >= c
  <2>1. ClosedFrom(c, {x \in Nat : x >= c})
    BY DEF ClosedFrom
  <2>2. {x \in Nat : x >= c} \in SUBSET Nat
    OBVIOUS
  <2> QED  BY <2>1, <2>2 DEF Doublings
<1>3. ASSUME NEW m \in Doublings(c) PROVE 2 * m \in Doublings(c)
  <2>1. m \in Nat /\ 2 * m \in Nat
    BY DEF Doublings
  <2>2. ASSUME NEW S \in SUBSET Nat, ClosedFrom(c, S) PROVE 2 * m \in S
    <3>1. m \in S
      BY <2>2 DEF Doublings
    <3> QED  BY <2>2, <3>1 DEF ClosedFrom
  <2> QED  BY <2>1, <2>2 DEF Doublings
<1>4. ASSUME NEW m \in Doublings(2 * c) PROVE m \in Doublings(c)
  <2>1. ClosedFrom(2 * c, Doublings(c)) /\ Doublings(c) \in SUBSET Nat
    BY <1>1, <1>3 DEF ClosedFrom, Doublings
  <2> QED  BY <2>1 DEF Doublings
<1>5. ASSUME NEW m \in Doublings(c), m # c PROVE m \in Doublings(2 * c)
  <2>1. m \in Nat
    BY DEF Doublings
  <2>2. ASSUME NEW S \in SUBSET Nat, ClosedFrom(2 * c, S) PROVE m \in S
    <3>1. ClosedFrom(c, S \cup {c}) /\ S \cup {c} \in SUBSET Nat
      BY <2>2 DEF ClosedFrom
    <3>2. m \in S \cup {c}
      BY <3>1 DEF Doublings
    <3> QED  BY <1>5, <3>2
  <2> QED  BY <2>1, <2>2 DEF Doublings
<1> QED  BY <1>1, <1>2, <1>3, <1>4, <1>5

LEMMA DoublingsGrow ==
  ASSUME NEW c \in Nat \ {0}, NEW n \in Nat
  PROVE  \E m \in Doublings(c) : n < m \div 2
<1> SUFFICES ASSUME \A m \in Doublings(c) : ~(n < m \div 2) PROVE FALSE
  OBVIOUS
<1>1. \A m \in Doublings(c) : m \in Nat /\ m >= 1 /\ m <= 2 * n + 1 /\ 2 * m \in Doublings(c)
  <2> SUFFICES ASSUME NEW m \in Doublings(c)
               PROVE  m \in Nat /\ m >= 1 /\ m <= 2 * n + 1 /\ 2 * m \in Doublings(c)
    OBVIOUS
  <2>1. m \in Nat /\ m >= c /\ 2 * m \in Doublings(c)
    BY DoublingsAre DEF Doublings
  <2> QED  BY <2>1
<1> DEFINE S == {k \in Nat : 2 * n + 1 - k \in Doublings(c)}
<1>2. PICK k \in S : \A l \in S : k <= l
  <2>1. 2 * n + 1 - c \in S
    BY <1>1, DoublingsAre
  <2>2. S \in SUBSET Nat /\ S # {}
    BY <2>1
  <2> HIDE DEF S
  <2> QED  BY <2>2, Smallest
<1>3. PICK m \in Doublings(c) : m = 2 * n + 1 - k /\ k \in Nat
  OBVIOUS
<1>4. 2 * m \in Doublings(c) /\ 2 * m <= 2 * n + 1 /\ m \in Nat /\ m >= 1
  BY <1>1
<1>5. 2 * n + 1 - 2 * m \in S
  BY <1>4
<1> QED  BY <1>2, <1>3, <1>4, <1>5

LEMMA NewCapacityIs ==
  ASSUME NEW t, inHash[t].newCount \in Nat, CapacityOf(inHash[t].mainHash) \in Nat \ {0}
  PROVE  /\ NewCapacity(t) \in Nat \ {0}
         /\ NewCapacity(t) >= 2 * CapacityOf(inHash[t].mainHash)
<1>1. PICK n \in Nat : n = inHash[t].newCount
  OBVIOUS
<1>2. PICK from \in Nat \ {0} : from = 2 * CapacityOf(inHash[t].mainHash)
  OBVIOUS
<1> DEFINE E(f, c) == IF n >= c \div 2 THEN f[2 * c] ELSE c
           Least(c) == CHOOSE m \in Doublings(c) :
                         n < m \div 2 /\ \A l \in Doublings(c) : n < l \div 2 => m <= l
           g == [c \in Nat |-> IF c = 0 THEN 0 ELSE Least(c)]
<1>3. \A c \in Nat \ {0} : \E m \in Doublings(c) :
        n < m \div 2 /\ \A l \in Doublings(c) : n < l \div 2 => m <= l
  <2> SUFFICES ASSUME NEW c \in Nat \ {0}
               PROVE  \E m \in Doublings(c) :
                        n < m \div 2 /\ \A l \in Doublings(c) : n < l \div 2 => m <= l
    OBVIOUS
  <2> DEFINE S == {m \in Doublings(c) : n < m \div 2}
  <2>1. S \in SUBSET Nat /\ S # {}
    BY DoublingsGrow DEF Doublings
  <2>2. PICK m \in S : \A l \in S : m <= l
    <3> HIDE DEF S
    <3> QED  BY <2>1, Smallest
  <2> QED  BY <2>2
<1>4. ASSUME NEW c \in Nat \ {0}
      PROVE  /\ Least(c) \in Doublings(c) /\ n < Least(c) \div 2
             /\ \A l \in Doublings(c) : n < l \div 2 => Least(c) <= l
  BY <1>3
<1> HIDE DEF Least
<1>5. ASSUME NEW c \in Nat PROVE g[c] = E(g, c)
  <2>1. CASE c = 0
    BY <2>1
  <2>2. CASE c # 0 /\ n >= c \div 2
    <3>1. 2 * c \in Nat \ {0}
      BY <2>2
    <3>2. Doublings(c) = {c} \cup Doublings(2 * c)
      BY <2>2, DoublingsAre
    <3>3. Least(c) \in Doublings(2 * c) /\ Least(2 * c) \in Doublings(c)
      BY <1>4, <2>2, <3>1, <3>2
    <3>4. Least(c) <= Least(2 * c) /\ Least(2 * c) <= Least(c)
      BY <1>4, <2>2, <3>1, <3>3
    <3>5. Least(c) \in Nat /\ Least(2 * c) \in Nat
      BY <3>3 DEF Doublings
    <3>6. Least(c) = Least(2 * c)
      BY <3>4, <3>5
    <3> QED  BY <2>2, <3>1, <3>6
  <2>3. CASE c # 0 /\ ~(n >= c \div 2)
    <3>1. c \in Doublings(c) /\ n < c \div 2
      BY <2>3, DoublingsAre
    <3>2. Least(c) <= c /\ Least(c) >= c /\ Least(c) \in Nat
      BY <1>4, <2>3, <3>1, DoublingsAre DEF Doublings
    <3> QED  BY <2>3, <3>2
  <2> QED  BY <2>1, <2>2, <2>3
<1>6. g = [c \in Nat |-> g[c]]
  OBVIOUS
<1> HIDE DEF g
<1>7. g = [c \in Nat |-> E(g, c)]
  BY <1>5, <1>6
<1> DEFINE f == CHOOSE f : f = [c \in Nat |-> E(f, c)]
<1>8. f = [c \in Nat |-> E(f, c)]
  BY <1>7
<1>9. NewCapacity(t) = f[from]
  BY <1>1, <1>2 DEF NewCapacity
<1> HIDE DEF f
<1>10. f[from] \in Nat /\ f[from] >= from
  <2> SUFFICES ASSUME ~(f[from] \in Nat /\ f[from] >= from) PROVE FALSE
    OBVIOUS
  <2> DEFINE Wrong(c) == c \in Nat \ {0} /\ ~(f[c] \in Nat /\ f[c] >= c)
             S == {k \in Nat : Wrong(2 * n + 1 - k)}
  <2>1. ASSUME NEW c, Wrong(c) PROVE c <= 2 * n + 1 /\ Wrong(2 * c)
    <3>1. f[c] = E(f, c)
      BY <1>8, <2>1
    <3>2. n >= c \div 2 /\ f[c] = f[2 * c]
      BY <2>1, <3>1
    <3> QED  BY <2>1, <3>2
  <2>2. Wrong(from)
    OBVIOUS
  <2>3. 2 * n + 1 - from \in S
    <3>1. 2 * n + 1 - from \in Nat /\ 2 * n + 1 - (2 * n + 1 - from) = from
      BY <2>1, <2>2
    <3> QED  BY <2>2, <3>1
  <2>4. PICK k \in S : \A l \in S : k <= l
    <3>1. S \in SUBSET Nat /\ S # {}
      BY <2>3
    <3> HIDE DEF S
    <3> QED  BY <3>1, Smallest
  <2>5. PICK c : c = 2 * n + 1 - k /\ Wrong(c) /\ k \in Nat
    BY <2>4
  <2>6. c \in Nat \ {0} /\ Wrong(2 * c) /\ 2 * c <= 2 * n + 1
    BY <2>1, <2>5
  <2>7. 2 * n + 1 - 2 * c \in S
    <3>1. 2 * n + 1 - 2 * c \in Nat /\ 2 * n + 1 - (2 * n + 1 - 2 * c) = 2 * c
      BY <2>6
    <3> QED  BY <2>6, <3>1
  <2> QED  BY <2>4, <2>5, <2>6, <2>7
<1> QED  BY <1>2, <1>9, <1>10

LEMMA ResizeDone ==
  ASSUME HashInv, NEW t \in HashThreads, Resize(t), HalfFull(t, inHash[t].mainHash)
  PROVE  HashInv'
<1>1. PICK n \in Nat \ {0} : n = Len(hashes)
  BY HashThreadFacts
<1>2. PICK c : c = NewCapacity(t)
  OBVIOUS
<1>3. /\ inHash[t].pc = "resize" /\ inHash[t].producer = NoProducer /\ InNoTable(t)
      /\ inHash[t].mainHash = n /\ inHash[t] \in HashLocals
      /\ hashes' = Append(hashes, Table(c))
      /\ HashSet(t, [inHash[t] EXCEPT !.pc = "clear", !.mainHash = n + 1])
      /\ UNCHANGED <<implicitProducerHashCount, implicitProducerHashResizeInProgress, next,
                     producerListTail, got>>
  BY <1>1, <1>2, CountingFacts DEF Resize, HashAt, CountPcs, HashInv, ResizeOk
<1>4. n \in 1..Len(hashes) /\ CapacityOf(n) \in Nat \ {0} /\ inHash[t].newCount \in Nat
  <2>1. n \in 1..Len(hashes)
    BY <1>1
  <2> QED  BY <1>3, <2>1, HashThreadFacts, Tables DEF HashLocals
<1>5. c \in Nat \ {0} /\ c >= CapacityOf(n)
  <2>1. c \in Nat \ {0} /\ c >= 2 * CapacityOf(n)
    BY <1>2, <1>3, <1>4, NewCapacityIs
  <2> QED  BY <1>4, <2>1
<1>6. PICK r : r = [inHash[t] EXCEPT !.pc = "clear", !.mainHash = n + 1]
  OBVIOUS
<1>7. inHash' = [inHash EXCEPT ![t] = r]
  BY <1>3, <1>6 DEF HashSet
<1>8. /\ r \in HashLocals /\ r.pc = "clear" /\ r.producer = NoProducer
      /\ r.mainHash = n + 1 /\ r.newCount = inHash[t].newCount
  <2>1. n + 1 \in Nat /\ "clear" \in HashPcs
    BY DEF HashPcs, CountPcs
  <2> QED  BY <1>3, <1>6, <2>1 DEF HashLocals
<1>9. /\ inHash' \in [HashThreads -> HashLocals] /\ inHash'[t] = r
      /\ \A u \in HashThreads : u # t => inHash'[u] = inHash[u]
  BY <1>7, <1>8 DEF HashInv
<1>10. PICK T \in TableSet :
         /\ T = Table(c) /\ Cardinality(DOMAIN T.keys) = c
         /\ \A i \in 0..(c - 1) : T.keys[i] = invalid_thread_id /\ T.values[i] = NoProducer
  BY <1>5, NewTable
<1>11. /\ hashes' \in Seq(TableSet) /\ Len(hashes') = n + 1 /\ hashes'[n + 1] = T
       /\ \A h \in 1..n : hashes'[h] = hashes[h]
  <2>1. hashes \in Seq(TableSet)
    BY HashThreadFacts DEF TablesOk
  <2> QED  BY <1>1, <1>3, <1>10, <2>1
<1>12. \A h \in 1..(n + 1) : h \in 1..n \/ h = n + 1
  OBVIOUS
<1>13. /\ \A h \in 1..n : CapacityOf(h)' = CapacityOf(h) /\ Slots(h)' = Slots(h)
       /\ CapacityOf(n + 1)' = c /\ Slots(n + 1)' = 0..(c - 1)
  BY <1>10, <1>11 DEF CapacityOf, Slots
<1>14. \A h \in 1..n : \A i \in Slots(h) : Filled(h, i)' <=> Filled(h, i)
  BY <1>11 DEF Filled
<1>15. /\ \A i \in Slots(n + 1)' : ~Filled(n + 1, i)'
       /\ \A u \in HashThreads : ~InTable(u, n + 1)'
  BY <1>10, <1>11, <1>13, HashNumbers DEF Filled, InTable
<1>16. \A u : \A h \in 1..n : InTable(u, h)' <=> InTable(u, h)
  BY <1>11, <1>13 DEF InTable
<1>17. \A u : \A h \in 1..n : Start(u, h)' = Start(u, h) /\ \A i : Dist(u, h, i)' = Dist(u, h, i)
  BY <1>13 DEF Start, Dist
<1>18. Grown(t)
  <2>1. \A h \in 1..Len(hashes') : h > n => h = n + 1
    BY <1>11
  <2> QED  BY <1>1, <1>11, <1>13, <1>15, <2>1 DEF Grown
<1>19. TablesOk'
  <2>1. \A h, g \in 1..n : h <= g => CapacityOf(h) <= CapacityOf(g)
    BY <1>1, HashThreadFacts DEF TablesOk
  <2>2. ASSUME NEW h \in 1..n PROVE CapacityOf(h)' <= c
    <3>1. CapacityOf(h) <= CapacityOf(n) /\ CapacityOf(h) \in Nat
      <4>1. h \in 1..Len(hashes) /\ n \in 1..n /\ h <= n
        BY <1>1
      <4>2. CapacityOf(h) \in Nat
        BY <4>1, HashThreadFacts, Tables
      <4> QED  BY <2>1, <4>1, <4>2
    <3> QED  BY <1>4, <1>5, <1>13, <3>1
  <2>3. \A h, g \in 1..(n + 1) : h <= g => CapacityOf(h)' <= CapacityOf(g)'
    <3> SUFFICES ASSUME NEW h \in 1..(n + 1), NEW g \in 1..(n + 1), h <= g
                 PROVE  CapacityOf(h)' <= CapacityOf(g)'
      OBVIOUS
    <3>1. CASE g \in 1..n
      <4>1. h \in 1..n
        BY <3>1
      <4> QED  BY <1>13, <2>1, <3>1, <4>1
    <3>2. CASE g = n + 1 /\ h \in 1..n
      BY <1>13, <2>2, <3>2
    <3>3. CASE g = n + 1 /\ h = n + 1
      BY <1>5, <1>13, <3>3
    <3> QED  BY <1>12, <3>1, <3>2, <3>3
  <2>4. ASSUME NEW h \in 1..n, NEW i \in Slots(h), NEW j \in Slots(h), Filled(h, i)',
               NEW u, hashes'[h].keys[i] = u
        PROVE  /\ hashes'[h].keys[i] = hashes'[h].keys[j] => i = j
               /\ Dist(u, h, j)' < Dist(u, h, i)' => Filled(h, j)'
    <3>1. hashes'[h] = hashes[h] /\ Filled(h, i) /\ hashes[h].keys[i] = u
      BY <1>11, <1>14, <2>4
    <3>2. /\ hashes[h].keys[i] = hashes[h].keys[j] => i = j
          /\ Dist(u, h, j) < Dist(u, h, i) => Filled(h, j)
      BY <1>1, <3>1, HashThreadFacts DEF TablesOk
    <3> QED  BY <1>14, <1>17, <3>1, <3>2
  <2>5. n + 1 # 0
    OBVIOUS
  <2> QED  BY <1>11, <1>12, <1>13, <1>15, <2>3, <2>4, <2>5 DEF TablesOk
<1>20. \A u \in HashThreads : InNoTable(u)' <=> InNoTable(u)
  <2>1. 1..n \subseteq 1..(n + 1)
    OBVIOUS
  <2> QED  BY <1>1, <1>11, <1>12, <1>15, <1>16, <2>1 DEF InNoTable
<1>21. (\A u \in HashThreads : ThreadOk(u))'
  <2>1. n + 1 \in 1..Len(hashes')
    BY <1>11
  <2>2. ThreadOk(t)'
    BY <1>3, <1>8, <1>9, <1>20, <2>1 DEF ThreadOk, Knows, CountPcs, ListPcs
  <2> QED  BY <1>7, <1>8, <1>18, <2>2, ThreadsOk
<1>22. \A u \in HashThreads : \A p : Stored(u, p)' <=> Stored(u, p)
  <2>1. ASSUME NEW u \in HashThreads, NEW p, Stored(u, p)' PROVE Stored(u, p)
    <3>1. PICK h \in 1..(n + 1) : \E i \in Slots(h)' :
            hashes'[h].keys[i] = u /\ hashes'[h].values[i] = p
      BY <1>11, <2>1 DEF Stored
    <3>2. h \in 1..n
      BY <1>12, <1>15, <3>1 DEF InTable
    <3> QED  BY <1>1, <1>11, <1>13, <3>1, <3>2 DEF Stored
  <2>2. ASSUME NEW u \in HashThreads, NEW p, Stored(u, p) PROVE Stored(u, p)'
    <3>1. PICK h \in 1..n : \E i \in Slots(h) : hashes[h].keys[i] = u /\ hashes[h].values[i] = p
      BY <1>1, <2>2 DEF Stored
    <3>2. h \in 1..Len(hashes') /\ \E i \in Slots(h)' : hashes'[h].keys[i] = u /\ hashes'[h].values[i] = p
      BY <1>11, <1>13, <3>1
    <3> QED  BY <3>2 DEF Stored
  <2> QED  BY <2>1, <2>2
<1>23. \A u \in HashThreads : \A p \in 1..Len(next) : Owns(u, p)' <=> Owns(u, p)
  BY <1>3, <1>8, <1>9, <1>22 DEF Owns
<1>24. OwnersOk'
  <2>1. next' \in Seq(Nat) /\ next' = next /\ 0 \in 0..Len(next)
    BY <1>3, TailIs
  <2>2. /\ got' \in [HashThreads -> SUBSET Nat]
        /\ \A u \in HashThreads : \A p \in got'[u] : Stored(u, p)'
    BY <1>3, <1>22, HashThreadFacts
  <2>3. \A h \in 1..n : \A i \in Slots(h) :
          /\ hashes'[h].values[i] \in 0..Len(next')
          /\ Filled(h, i)' => hashes'[h].values[i] # NoProducer
    BY <1>1, <1>11, <1>14, <2>1 DEF HashInv, OwnersOk
  <2>4. \A i \in Slots(n + 1)' : hashes'[n + 1].values[i] \in 0..Len(next')
    BY <1>10, <1>11, <1>13, <2>1 DEF NoProducer
  <2>5. \A h \in 1..Len(hashes') : \A i \in Slots(h)' :
          /\ hashes'[h].values[i] \in 0..Len(next')
          /\ Filled(h, i)' => hashes'[h].values[i] # NoProducer
    BY <1>11, <1>12, <1>13, <1>15, <2>3, <2>4
  <2>6. \A u \in HashThreads : inHash'[u].producer \in 0..Len(next')
    BY <1>8, <1>9, <2>1 DEF HashInv, OwnersOk, NoProducer
  <2>7. \A u, v \in HashThreads : \A q, s \in 1..Len(next') :
          Owns(u, q)' /\ Owns(v, s)' => (u = v <=> q = s)
    BY <1>23, <2>1 DEF HashInv, OwnersOk
  <2> QED  BY <2>1, <2>2, <2>5, <2>6, <2>7 DEF OwnersOk
<1>25. ListOk'
  BY <1>3, <1>7, <1>8, <1>23, ListSame DEF ListPcs
<1>26. ResizeOk'
  BY <1>3, <1>8, <1>9 DEF HashInv, ResizeOk, Resizing
<1>27. CountsOk'
  <2>1. \A h \in 1..n : Room(h)' = Room(h)
    BY <1>13 DEF Room
  <2>2. Counted' = Counted
    BY <1>3, <1>8, <1>9, <1>20 DEF Counted, CountPcs
  <2>3. ASSUME NEW b \in Nat, NEW u \in HashThreads, Within(u, b)' PROVE Within(u, b)
    <3>1. CASE inHash'[u].pc \in CountPcs /\ inHash'[u].newCount < b
      BY <1>3, <1>8, <1>9, <3>1 DEF Within, CountPcs
    <3>2. CASE ~(inHash'[u].pc \in CountPcs /\ inHash'[u].newCount < b)
      <4>1. PICK h \in 1..(n + 1) :
              /\ Room(h)' <= b
              /\ InTable(u, h)' \/ (inHash'[u].producer # NoProducer /\ inHash'[u].mainHash = h)
        BY <1>11, <2>3, <3>2 DEF Within
      <4>2. CASE InTable(u, h)'
        <5>1. h \in 1..n /\ InTable(u, h)
          BY <1>12, <1>15, <1>16, <4>2
        <5> QED  BY <1>1, <2>1, <4>1, <5>1 DEF Within
      <4>3. CASE inHash'[u].producer # NoProducer /\ inHash'[u].mainHash = h
        <5>1. u # t /\ inHash'[u] = inHash[u]
          BY <1>8, <1>9, <4>3
        <5>2. inHash[u].mainHash \in 1..n
          BY <1>1, <4>3, <5>1, HashThreadFacts DEF Knows, ListPcs
        <5> QED  BY <1>1, <2>1, <4>1, <4>3, <5>1, <5>2 DEF Within
      <4> QED  BY <4>1, <4>2, <4>3
    <3> QED  BY <3>1, <3>2
  <2>4. \A b \in Nat : Users(b)' \subseteq Users(b)
    BY <2>3 DEF Users
  <2> QED  BY <1>3, <2>2, <2>4, CountsNotMore DEF HashInv
<1> QED  BY <1>9, <1>19, <1>21, <1>24, <1>25, <1>26, <1>27 DEF HashInv

-----------------------------------------------------------------------------
(* The invariant, and what follows from it.                                *)

LEMMA HashStart == HashInit => HashInv
<1> SUFFICES ASSUME HashInit PROVE HashInv
  OBVIOUS
<1>1. PICK c \in Nat \ {0} : c = INITIAL_IMPLICIT_PRODUCER_HASH_SIZE
  BY HashNumbers
<1>2. PICK T \in TableSet :
         /\ T = Table(c) /\ Cardinality(DOMAIN T.keys) = c
         /\ \A i \in 0..(c - 1) : T.keys[i] = invalid_thread_id /\ T.values[i] = NoProducer
  BY NewTable
<1>3. hashes = <<T>> /\ hashes \in Seq(TableSet) /\ Len(hashes) = 1 /\ hashes[1] = T
  BY <1>1, <1>2 DEF HashInit
<1>4. \A h \in 1..Len(hashes) : h = 1
  BY <1>3
<1>5. CapacityOf(1) = c /\ Slots(1) = 0..(c - 1)
  BY <1>2, <1>3 DEF CapacityOf, Slots
<1>6. \A i \in Slots(1) : ~Filled(1, i) /\ hashes[1].values[i] = NoProducer
  BY <1>2, <1>3, <1>5 DEF Filled
<1>7. TablesOk
  <2>1. \A h, g \in 1..Len(hashes) : h <= g => CapacityOf(h) <= CapacityOf(g)
    BY <1>4, <1>5
  <2> QED  BY <1>3, <1>4, <1>6, <2>1 DEF TablesOk
<1>8. \A t \in HashThreads : inHash[t] = HashIdle
  BY DEF HashInit
<1>9. inHash \in [HashThreads -> HashLocals] /\ (\A t \in HashThreads : ThreadOk(t))
  BY <1>8, HashIdleOk DEF HashInit, ThreadOk
<1>10. \A t \in HashThreads : InNoTable(t) /\ \A p : ~Stored(t, p) /\ ~Owns(t, p)
  BY <1>4, <1>6, <1>8, HashNumbers, HashIdleOk DEF InNoTable, InTable, Stored, Owns, Filled
<1>11. OwnersOk
  <2>1. next \in Seq(Nat) /\ Len(next) = 0 /\ got \in [HashThreads -> SUBSET Nat]
    BY DEF HashInit
  <2>2. \A t \in HashThreads : inHash[t].producer \in 0..Len(next) /\ got[t] = {}
    BY <1>8, <2>1, HashIdleOk DEF HashInit, NoProducer
  <2>3. \A h \in 1..Len(hashes) : \A i \in Slots(h) :
          /\ hashes[h].values[i] \in 0..Len(next)
          /\ Filled(h, i) => hashes[h].values[i] # NoProducer
    BY <1>4, <1>6, <2>1 DEF NoProducer
  <2> QED  BY <1>10, <2>1, <2>2, <2>3 DEF OwnersOk
<1>12. CountsOk
  <2>1. Counted = {} /\ \A b : Users(b) = {}
    BY <1>8, <1>10, HashIdleOk DEF Counted, Users, Within, InNoTable, CountPcs
  <2> QED  BY <2>1, FS_EmptySet DEF CountsOk, HashInit
<1>13. ResizeOk
  BY <1>8, HashIdleOk DEF ResizeOk, Resizing, HashInit
<1>14. ListOk
  <2> DEFINE L == [i \in {0} |-> NoProducer]
  <2>1. IsStack(L, 0, producerListTail, next, NoProducer) /\ Members(L, 0) = {}
    BY DEF HashInit, IsStack, Members
  <2>2. ListOf(L, 0) /\ 0 \in Nat
    BY <1>10, <2>1 DEF ListOf
  <2> QED  BY <1>8, <2>2, HashIdleOk DEF ListOk
<1> QED  BY <1>7, <1>9, <1>11, <1>12, <1>13, <1>14 DEF HashInv

LEMMA EveryHashStep ==
  ASSUME HashInv, [HashNext]_hashVars
  PROVE  HashInv'
<1>1. ASSUME NEW t \in HashThreads, GetOrAdd(t) \/ HashStep(t) PROVE HashInv'
  <2>1. CASE Insert(t)
    BY <2>1, InsertNext, InsertDone
  <2>2. CASE Resize(t)
    BY <2>2, ResizeDone, ClearStep
  <2> QED
    BY <1>1, <2>1, <2>2, GetOrAddStep, FoundStep, NotHereStep, ProbeNextStep, CountStep, GrowStep,
       ClearStep, FailsStep, FailStep, CreateStep, SetNextStep, PushStep DEF HashStep
<1>2. CASE UNCHANGED hashVars
  <2>1. UNCHANGED <<hashes, implicitProducerHashCount, implicitProducerHashResizeInProgress,
                    producerListTail, next, inHash, got>>
    BY <1>2 DEF hashVars
  <2>2. TablesOk'
    BY <2>1, SameTables DEF HashInv
  <2>3. (\A t \in HashThreads : ThreadOk(t))'
    BY <2>1, KnowsSame DEF HashInv, ThreadOk
  <2>4. /\ \A u, h : (InTable(u, h)' <=> InTable(u, h))
        /\ \A u : (InNoTable(u)' <=> InNoTable(u))
        /\ \A h : Room(h)' = Room(h) /\ Slots(h)' = Slots(h)
        /\ \A u, p : (Stored(u, p)' <=> Stored(u, p)) /\ (Owns(u, p)' <=> Owns(u, p))
        /\ \A h, i : Filled(h, i)' <=> Filled(h, i)
    BY <2>1, SameTables DEF HashInv, Room, Owns, Filled
  <2>5. OwnersOk'
    BY <2>1, <2>4 DEF HashInv, OwnersOk
  <2>6. CountsOk'
    <3>1. Counted' = Counted /\ \A b : Users(b)' = Users(b)
      BY <2>1, <2>4 DEF Counted, Users, Within
    <3> QED  BY <2>1, <3>1 DEF HashInv, CountsOk
  <2>7. ResizeOk'
    BY <2>1 DEF HashInv, ResizeOk, Resizing
  <2>8. ListOk'
    <3>1. \A L, k : ListOf(L, k)' <=> ListOf(L, k)
      BY <2>1, <2>4 DEF ListOf
    <3> QED  BY <2>1, <3>1 DEF HashInv, ListOk
  <2> QED  BY <2>1, <2>2, <2>3, <2>5, <2>6, <2>7, <2>8 DEF HashInv
<1> QED  BY <1>1, <1>2 DEF HashNext

LEMMA HashInvariance == HashSpec => []HashInv
<1>1. HashInit => HashInv
  BY HashStart
<1>2. HashInv /\ [HashNext]_hashVars => HashInv'
  BY EveryHashStep
<1> QED  BY <1>1, <1>2, PTL DEF HashSpec

LEMMA HashInvKept == HashInv => OneProducerEach
<1> SUFFICES ASSUME HashInv PROVE OneProducerEach
  OBVIOUS
<1>1. SlotFree
  <2>0. \A h \in 1..Len(hashes) : DOMAIN hashes[h].keys = Slots(h)
    BY Tables DEF HashInv
  <2> SUFFICES ASSUME NEW h \in 1..Len(hashes), \A i \in Slots(h) : Filled(h, i) PROVE FALSE
    BY <2>0 DEF SlotFree, Filled, Range
  <2>1. PICK c \in Nat \ {0} : c = CapacityOf(h)
    BY Tables DEF HashInv
  <2>2. Slots(h) = 0..(c - 1) /\ Room(h) \in Nat /\ Room(h) <= c
    BY <2>1 DEF Slots, Room
  <2>3. \A i \in Slots(h) : hashes[h].keys[i] \in Users(Room(h))
    <3> SUFFICES ASSUME NEW i \in Slots(h) PROVE hashes[h].keys[i] \in Users(Room(h))
      OBVIOUS
    <3>1. hashes[h].keys[i] \in HashThreads /\ InTable(hashes[h].keys[i], h)
      BY Tables DEF HashInv, Filled, InTable
    <3> QED  BY <2>2, <3>1 DEF Users, Within
  <2> DEFINE f == [i \in 0..(c - 1) |-> hashes[h].keys[i]]
  <2>4. f \in Injection(0..(c - 1), Users(Room(h)))
    <3>1. \A i, j \in Slots(h) : hashes[h].keys[i] = hashes[h].keys[j] => i = j
      BY DEF HashInv, TablesOk
    <3> QED  BY <2>2, <2>3, <3>1 DEF Injection, IsInjective
  <2>5. c <= Cardinality(Users(Room(h)))
    BY <2>4, CountedIs, SlotsOf, FS_Injection
  <2>6. Users(Room(h)) # {}
    <3>1. 0 \in Slots(h)
      BY <2>1, <2>2
    <3> QED  BY <2>3, <3>1
  <2>7. Cardinality(Users(Room(h))) < Room(h)
    BY <2>2, <2>6 DEF HashInv, CountsOk
  <2> QED  BY <2>2, <2>5, <2>7, CountedIs
<1>2. HashTypeOK
  <2>1. ASSUME NEW h \in 1..Len(hashes)
        PROVE  /\ Range(hashes[h].keys) \subseteq HashThreads \cup {invalid_thread_id}
               /\ Range(hashes[h].values) \subseteq 0..Len(next)
    <3>1. DOMAIN hashes[h].keys = Slots(h) /\ DOMAIN hashes[h].values = Slots(h)
      BY Tables DEF HashInv
    <3>2. \A i \in Slots(h) : /\ hashes[h].keys[i] \in HashThreads \cup {invalid_thread_id}
                              /\ hashes[h].values[i] \in 0..Len(next)
      <4>1. \A i \in Slots(h) : hashes[h].values[i] \in 0..Len(next)
        BY DEF HashInv, OwnersOk
      <4>2. hashes[h].keys \in [Slots(h) -> HashThreads \cup {invalid_thread_id}]
        BY Tables DEF HashInv
      <4> QED  BY <4>1, <4>2
    <3> QED  BY <3>1, <3>2 DEF Range
  <2>2. implicitProducerHashCount \in 0..Cardinality(HashThreads)
    BY CountedIs, HashNumbers DEF HashInv, CountsOk
  <2>3. producerListTail \in 0..Len(next) /\ implicitProducerHashResizeInProgress \in BOOLEAN
    BY TailIs DEF HashInv, ResizeOk
  <2>4. \A t \in HashThreads : inHash[t].producer \in 0..Len(next)
    BY DEF HashInv, OwnersOk
  <2> QED  BY <2>1, <2>2, <2>3, <2>4 DEF HashTypeOK
<1>3. ASSUME NEW t \in HashThreads, NEW p \in got[t]
      PROVE  p \in 1..Len(next) /\ Owns(t, p) /\ inHash[t].pc \notin ListPcs
  <2>1. Stored(t, p)
    BY HashThreadFacts
  <2>2. ~InNoTable(t)
    BY <2>1, OwnedIs
  <2> QED  BY <2>1, <2>2, HashThreadFacts, OwnedIs DEF Knows, Owns
<1>4. NotShared
  <2>1. ASSUME NEW t \in HashThreads PROVE Cardinality(got[t]) <= 1
    <3>1. CASE got[t] = {}
      BY <3>1, FS_EmptySet
    <3>2. CASE got[t] # {}
      <4>1. PICK p : p \in got[t]
        BY <3>2
      <4>2. got[t] = {p}
        BY <1>3, <4>1 DEF HashInv, OwnersOk
      <4> QED  BY <4>2, FS_Singleton
    <3> QED  BY <3>1, <3>2
  <2>2. ASSUME NEW t \in HashThreads, NEW u \in HashThreads, t # u PROVE got[t] \cap got[u] = {}
    BY <1>3, <2>2 DEF HashInv, OwnersOk
  <2> QED  BY <2>1, <2>2 DEF NotShared
<1>5. Listed
  <2>1. PICK L : \E k \in Nat : ListOf(L, k)
    BY DEF HashInv, ListOk
  <2>2. PICK k \in Nat : ListOf(L, k)
    BY <2>1
  <2>3. Linked(producerListTail, next, NoProducer, Len(next)) = Members(L, k)
    <3>1. Len(next) \in Nat
      BY TailIs
    <3>2. IsFiniteSet(1..Len(next)) /\ Cardinality(1..Len(next)) = Len(next)
      <4>1. \A n \in Nat : IsFiniteSet(1..n) /\ Cardinality(1..n) = n
        BY FS_Interval
      <4> QED  BY <3>1, <4>1
    <3>3. k <= Len(next)
      BY <2>2, <3>2, StackLength DEF ListOf
    <3> QED  BY <2>2, <3>1, <3>3, LinkedIsStack DEF ListOf
  <2>4. \A t \in HashThreads : got[t] \subseteq Members(L, k)
    BY <1>3, <2>2 DEF ListOf
  <2> QED  BY <2>3, <2>4 DEF Listed
<1> QED  BY <1>1, <1>2, <1>4, <1>5 DEF OneProducerEach

(* A thread is given the same sub-queue by every call, it is the only one  *)
(* to be given it, and consumers find it on the producers' list, whatever  *)
(* tables are added and whenever memory is exhausted; and no table fills   *)
(* up, on which the probing for a free slot relies.                        *)
THEOREM ThreadsHaveProducers == HashSpec => []OneProducerEach
BY HashInvariance, HashInvKept, PTL
=============================================================================
