------------------------ MODULE CyclicBarrier_proofs ------------------------
(***************************************************************************)
(* Proofs about CyclicBarrier, for every set of threads and every use.     *)
(***************************************************************************)
EXTENDS CyclicBarrier, FiniteSetTheorems, TLAPS

-----------------------------------------------------------------------------
(* What current_waits counts.                                              *)
Inside == Waiting \ released

Counted == current_waits = Cardinality(Inside)

(* Without spurious wakeups nobody wakes in the round that still goes on.  *)
AwakeReleased == Waiting \ asleep \subseteq released

(* Between the unlock of the last one to arrive and its notify_all, all    *)
(* the others are asleep and their round is over: nobody can arrive, hence *)
(* nobody of a new round is woken by the notification of the old one.      *)
AllStayForNotify ==
  \A t \in Threads : pc[t] = "notify" =>
    Waiting = Threads \ {t} /\ released = Waiting /\ asleep = Waiting

UseInv == ForAll => Counted /\ AwakeReleased /\ AllStayForNotify

BarrierInv == BarrierTypeOK /\ NoLostRelease /\ UseInv

-----------------------------------------------------------------------------
(* The sets of threads are finite.                                         *)
LEMMA ThreadsFinite == ASSUME NEW S \in SUBSET Threads PROVE IsFiniteSet(S)
BY BarrierAssumption, FS_Subset

(* A thread that is not inside is one more than are.                       *)
LEMMA OneMore ==
  ASSUME NEW S \in SUBSET Threads, NEW t \in Threads \ S
  PROVE  /\ Cardinality(S) \in Nat
         /\ Cardinality(S \cup {t}) = Cardinality(S) + 1
         /\ Cardinality(S) + 1 <= Cardinality(Threads)
         /\ S \cup {t} = Threads <=> Cardinality(S) + 1 >= Cardinality(Threads)
<1>1. IsFiniteSet(S) /\ Cardinality(S) \in Nat
  BY ThreadsFinite, FS_CardinalityType
<1>2. Cardinality(S \cup {t}) = Cardinality(S) + 1
  BY <1>1, FS_AddElement
<1>3. /\ IsFiniteSet(Threads) /\ S \cup {t} \in SUBSET Threads
      /\ Cardinality(Threads) \in Nat
  BY BarrierAssumption, FS_CardinalityType
<1>4. /\ Cardinality(S \cup {t}) <= Cardinality(Threads)
      /\ Cardinality(S \cup {t}) = Cardinality(Threads) => S \cup {t} = Threads
  BY <1>3, FS_Subset
<1> QED  BY <1>1, <1>2, <1>3, <1>4

-----------------------------------------------------------------------------
(* Whatever the use, the types are kept and no release is lost.            *)
LEMMA BarrierTypeStep ==
  ASSUME BarrierTypeOK, NoLostRelease, [BarrierNext]_barrierVars
  PROVE  BarrierTypeOK' /\ NoLostRelease'
<1>0. /\ use.parties \in Nat \ {0} /\ current_waits \in Nat
      /\ Waiting \subseteq Threads
  BY BarrierAssumption DEF BarrierTypeOK, Waiting
<1> USE <1>0 DEF BarrierTypeOK, NoLostRelease, Waiting
<1>1. ASSUME NEW t \in Threads, Arrive(t) PROVE BarrierTypeOK' /\ NoLostRelease'
  BY <1>1 DEF Arrive
<1>2. ASSUME NEW t \in Threads, pc[t] = "outside", EndRound(t)
      PROVE  BarrierTypeOK' /\ NoLostRelease'
  BY <1>2 DEF EndRound
<1>3. ASSUME NEW t \in Threads, NotifyAll(t) PROVE BarrierTypeOK' /\ NoLostRelease'
  BY <1>3 DEF NotifyAll
<1>4. ASSUME NEW t \in Threads, WakeAlone(t) PROVE BarrierTypeOK' /\ NoLostRelease'
  BY <1>4 DEF WakeAlone
<1>5. ASSUME NEW t \in Threads, Return(t) PROVE BarrierTypeOK' /\ NoLostRelease'
  BY <1>5 DEF Return
<1>6. CASE UNCHANGED barrierVars
  BY <1>6 DEF barrierVars
<1> QED
  BY <1>1, <1>2, <1>3, <1>4, <1>5, <1>6 DEF BarrierNext, Open, Reset

(* As the CommController uses the barrier, the last one to arrive finds    *)
(* all others asleep in this round.                                        *)
LEMMA LastFindsAll ==
  ASSUME BarrierInv, ForAll, NEW t \in Threads, Open(t)
  PROVE  Inside \cup {t} = Threads /\ released = {} /\ asleep = Waiting
<1>1. t \notin Inside /\ Inside \in SUBSET Threads
  BY DEF Inside, Waiting, Open
<1>2. Cardinality(Inside) + 1 >= Cardinality(Threads)
  BY DEF BarrierInv, UseInv, Counted, ForAll, Open
<1>3. Inside \cup {t} = Threads
  BY <1>1, <1>2, OneMore
<1>4. released = {}
  BY <1>1, <1>3 DEF Inside, BarrierInv, BarrierTypeOK, Waiting, Open
<1> QED
  BY <1>3, <1>4 DEF BarrierInv, UseInv, AwakeReleased, BarrierTypeOK

(* The barrier keeps its count, and nobody arrives or leaves between the   *)
(* unlock and notify_all.                                                  *)
LEMMA BarrierUseStep ==
  ASSUME BarrierInv, [BarrierNext]_barrierVars
  PROVE  UseInv'
<1>0. ForAll' => ForAll
  BY DEF BarrierNext, barrierVars, Arrive, Open, Reset, EndRound, NotifyAll, WakeAlone, Return, ForAll
<1> SUFFICES ASSUME ForAll PROVE (Counted /\ AwakeReleased /\ AllStayForNotify)'
  BY <1>0 DEF UseInv
<1>1. /\ BarrierTypeOK /\ Counted /\ AwakeReleased /\ AllStayForNotify
      /\ Inside \in SUBSET Threads
  BY DEF BarrierInv, UseInv, Inside, Waiting
<1>2. ASSUME NEW t \in Threads, Arrive(t)
      PROVE  (Counted /\ AwakeReleased /\ AllStayForNotify)'
  <2>1. t \notin Waiting /\ Waiting' = Waiting \cup {t}
    BY <1>1, <1>2 DEF Arrive, BarrierTypeOK, Waiting
  <2>2. t \notin Inside /\ Inside' = Inside \cup {t}
    BY <1>1, <1>2, <2>1 DEF Arrive, BarrierTypeOK, Inside
  <2>3. Counted'
    BY <1>1, <1>2, <2>2, OneMore DEF Arrive, Counted
  <2>4. AwakeReleased'
    BY <1>1, <1>2, <2>1 DEF Arrive, AwakeReleased
  <2>5. \A u \in Threads : pc[u] # "notify"
    BY <1>1, <1>2, <2>1 DEF Arrive, AllStayForNotify, Waiting
  <2> QED
    BY <1>1, <1>2, <2>3, <2>4, <2>5 DEF Arrive, BarrierTypeOK, AllStayForNotify
<1>3. ASSUME NEW t \in Threads, Open(t)
      PROVE  (Counted /\ AwakeReleased /\ AllStayForNotify)'
  <2>1. Waiting' = Waiting /\ t \notin Waiting
    BY <1>1, <1>3 DEF Open, EndRound, BarrierTypeOK, Waiting
  <2>2. Inside \cup {t} = Threads /\ released = {} /\ asleep = Waiting
    BY <1>3, LastFindsAll
  <2>3. Inside' = {} /\ Waiting = Threads \ {t}
    BY <1>3, <2>1, <2>2 DEF Open, EndRound, Inside
  <2>4. Counted'
    BY <1>3, <2>3, FS_EmptySet DEF Open, EndRound, Counted
  <2>5. AwakeReleased'
    BY <1>3, <2>1 DEF Open, EndRound, AwakeReleased
  <2>6. \A u \in Threads : pc'[u] = "notify" => u = t
    BY <1>1, <1>3, <2>3 DEF Open, EndRound, BarrierTypeOK, Waiting
  <2>7. released' = Waiting' /\ asleep' = Waiting' /\ Waiting' = Threads \ {t}
    BY <1>3, <2>1, <2>2, <2>3 DEF Open, EndRound
  <2> QED  BY <2>4, <2>5, <2>6, <2>7 DEF AllStayForNotify
<1>4. ASSUME NEW t \in Threads, NotifyAll(t)
      PROVE  (Counted /\ AwakeReleased /\ AllStayForNotify)'
  <2>1. Waiting = Threads \ {t} /\ released = Waiting
    BY <1>1, <1>4 DEF NotifyAll, AllStayForNotify
  <2>2. Waiting' = Waiting
    BY <1>1, <1>4 DEF NotifyAll, BarrierTypeOK, Waiting
  <2>3. Inside' = Inside
    BY <1>4, <2>2 DEF NotifyAll, Inside
  <2>4. \A u \in Threads : pc'[u] # "notify"
    BY <1>1, <1>4, <2>1 DEF NotifyAll, BarrierTypeOK, Waiting
  <2> QED
    BY <1>1, <1>4, <2>1, <2>2, <2>3, <2>4
       DEF NotifyAll, Counted, AwakeReleased, AllStayForNotify
<1>5. ASSUME NEW t \in Threads, Return(t)
      PROVE  (Counted /\ AwakeReleased /\ AllStayForNotify)'
  <2>1. t \in Waiting /\ Waiting' = Waiting \ {t}
    BY <1>1, <1>5 DEF Return, BarrierTypeOK, Waiting
  <2>2. t \in released
    BY <1>1, <1>5, <2>1 DEF Return, AwakeReleased
  <2>3. Inside' = Inside
    BY <1>5, <2>1, <2>2 DEF Return, Inside
  <2>4. \A u \in Threads : pc'[u] # "notify"
    BY <1>1, <1>5, <2>1 DEF Return, BarrierTypeOK, AllStayForNotify
  <2> QED
    BY <1>1, <1>5, <2>1, <2>3, <2>4 DEF Return, Counted, AwakeReleased, AllStayForNotify
<1>6. ASSUME NEW t \in Threads PROVE ~WakeAlone(t) /\ ~Reset(t)
  BY DEF WakeAlone, Reset, ForAll
<1>7. CASE UNCHANGED barrierVars
  BY <1>1, <1>7
     DEF barrierVars, Counted, AwakeReleased, AllStayForNotify, Inside, Waiting
<1> QED  BY <1>2, <1>3, <1>4, <1>5, <1>6, <1>7 DEF BarrierNext

(* The barrier's invariant holds whoever arrives when.                     *)
LEMMA BarrierInvariance == BarrierSpec => []BarrierInv
<1>1. BarrierInit => BarrierInv
  <2> SUFFICES ASSUME BarrierInit PROVE BarrierInv
    OBVIOUS
  <2>1. use \in Uses /\ use.parties \in Nat \ {0}
    BY BarrierAssumption DEF BarrierInit
  <2>2. Waiting = {} /\ Inside = {}
    BY DEF BarrierInit, Waiting, Inside
  <2>3. BarrierTypeOK /\ NoLostRelease
    BY <2>1, <2>2 DEF BarrierInit, BarrierTypeOK, NoLostRelease
  <2>4. Counted /\ AwakeReleased /\ AllStayForNotify
    BY <2>2, FS_EmptySet DEF BarrierInit, Counted, AwakeReleased, AllStayForNotify
  <2> QED  BY <2>3, <2>4 DEF BarrierInv, UseInv
<1>2. BarrierInv /\ [BarrierNext]_barrierVars => BarrierInv'
  BY BarrierTypeStep, BarrierUseStep DEF BarrierInv
<1> QED  BY <1>1, <1>2, PTL DEF BarrierSpec

(* The barrier's types hold, a released sleeper is still notified, and     *)
(* get_current_waiting is the number of those waiting in this round, for   *)
(* any number of threads that all are parties.                             *)
THEOREM BarrierWaitersCounted == BarrierSpec => []WaitersCounted
<1>1. BarrierInv => WaitersCounted
  BY DEF BarrierInv, UseInv, Counted, Inside, WaitersCounted, CurrentWaiting
<1> QED  BY <1>1, BarrierInvariance, PTL

(* No thread returns from await before its round is over.                  *)
THEOREM BarrierNoEarlyReturn == BarrierSpec => NoEarlyReturn
<1> DEFINE Returned == ForAll => \A t \in Threads : Return(t) => t \in released
<1>1. BarrierInv => Returned
  BY DEF BarrierInv, UseInv, AwakeReleased, Return, Waiting
<1>2. BarrierInv /\ [BarrierNext]_barrierVars => [Returned]_barrierVars
  BY <1>1
<1> QED  BY <1>2, BarrierInvariance, PTL DEF BarrierSpec, NoEarlyReturn

(* The barrier implements that of module Barrier: every step is an entry   *)
(* that is not the last, the opening for all at once, or none of its.      *)
THEOREM BarrierImplementsAbstract == BarrierSpec => ImplementsBarrier
<1>1. BarrierInit => AbstractBarrier!Init
  BY DEF BarrierInit, AbstractBarrier!Init, Waiting
<1>2. BarrierInv /\ [BarrierNext]_barrierVars => [ForAll => AbstractBarrier!Next]_(Waiting \ released)
  <2> SUFFICES ASSUME BarrierInv, BarrierNext, ForAll, Inside' # Inside
               PROVE  AbstractBarrier!Next
    BY DEF barrierVars, Inside, Waiting
  <2>1. /\ BarrierTypeOK /\ Counted /\ AwakeReleased /\ Inside \in SUBSET Threads
    BY DEF BarrierInv, UseInv, Inside, Waiting
  <2>2. ASSUME NEW t \in Threads, Arrive(t) PROVE AbstractBarrier!Enter(t)
    <3>1. t \notin Inside /\ Inside' = Inside \cup {t}
      BY <2>1, <2>2 DEF Arrive, BarrierTypeOK, Inside, Waiting
    <3>2. Cardinality(Inside) + 1 < Cardinality(Threads)
      BY <2>1, <2>2 DEF Arrive, Counted, ForAll
    <3>3. Inside \cup {t} # Threads
      <4>1. Cardinality(Inside) \in Nat /\ Cardinality(Threads) \in Nat
        BY <2>1, BarrierAssumption, ThreadsFinite, FS_CardinalityType
      <4> QED  BY <2>1, <3>1, <3>2, <4>1, OneMore
    <3> QED  BY <3>1, <3>3 DEF AbstractBarrier!Enter, Inside
  <2>3. ASSUME NEW t \in Threads, Open(t) PROVE AbstractBarrier!Open(t)
    <3>1. Waiting' = Waiting
      BY <2>1, <2>3 DEF Open, EndRound, BarrierTypeOK, Waiting
    <3>2. Inside' = {} /\ t \notin Inside
      BY <2>3, <3>1 DEF Open, EndRound, Inside, Waiting
    <3> QED  BY <2>3, <3>2, LastFindsAll DEF AbstractBarrier!Open, Inside
  <2>4. ASSUME NEW t \in Threads, NotifyAll(t) PROVE Inside' = Inside
    BY <2>1, <2>4 DEF NotifyAll, BarrierTypeOK, Inside, Waiting
  <2>5. ASSUME NEW t \in Threads, Return(t) PROVE Inside' = Inside
    BY <2>1, <2>5 DEF Return, BarrierTypeOK, Inside, Waiting, AwakeReleased
  <2>6. ASSUME NEW t \in Threads PROVE ~WakeAlone(t) /\ ~Reset(t)
    BY DEF WakeAlone, Reset, ForAll
  <2> QED
    BY <2>2, <2>3, <2>4, <2>5, <2>6 DEF BarrierNext, AbstractBarrier!Next
<1> QED  BY <1>1, <1>2, BarrierInvariance, PTL DEF BarrierSpec, ImplementsBarrier
=============================================================================
