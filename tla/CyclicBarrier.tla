--------------------------- MODULE CyclicBarrier ---------------------------
(***************************************************************************)
(* cbar::CyclicBarrier, on which the receiver threads of a CommController  *)
(* meet at the end of an epoch.  await and reset hold the mutex except for *)
(* their last statement, notify_all: each is an action up to it, and       *)
(* notify_all is an action of its own.                                     *)
(***************************************************************************)
EXTENDS Naturals, FiniteSets

CONSTANTS
  Threads,    \* the threads that call await
  Uses        \* how the barrier may be used: records of
              \*   parties   how many threads it waits for,
              \*   spurious  whether a wait may end without a notification,
              \*   timed     whether await is called with a timeout,
              \*   resets    whether threads call reset

ASSUME BarrierAssumption ==
  /\ IsFiniteSet(Threads)
  /\ Uses \subseteq [parties : Nat \ {0}, spurious : BOOLEAN,
                     timed : BOOLEAN, resets : BOOLEAN]

VARIABLES
  use,        \* the use of this barrier, fixed
  current_waits,
  pc,         \* where each thread is
  asleep,     \* the threads blocked on the condition variable
  released    \* history: the waiting threads whose round is over

barrierVars == <<use, current_waits, pc, asleep, released>>

Waiting == {t \in Threads : pc[t] = "waiting"}

BarrierInit ==
  /\ use \in Uses
  /\ current_waits = 0
  /\ pc = [t \in Threads |-> "outside"]
  /\ asleep = {}
  /\ released = {}

-----------------------------------------------------------------------------
\* Fewer than `parties' have arrived: the thread waits.
MutantArrivalUncounted(t) ==
  /\ pc[t] = "outside"
  /\ current_waits + 1 < use.parties
  /\ pc' = [pc EXCEPT ![t] = "waiting"]
  /\ asleep' = asleep \cup {t}
  /\ current_waits' = IF current_waits = 0 THEN 1 ELSE current_waits
  /\ UNCHANGED <<use, released>>
Arrive(t) ==
  /\ pc[t] = "outside"
  /\ current_waits + 1 < use.parties
  /\ current_waits' = current_waits + 1
  /\ pc' = [pc EXCEPT ![t] = "waiting"]
  /\ asleep' = asleep \cup {t}
  /\ UNCHANGED <<use, released>>

\* The callback, current_waits = 0 and unlock: the round is over.
EndRound(t) ==
  /\ current_waits' = 0
  /\ pc' = [pc EXCEPT ![t] = "notify"]
  /\ released' = Waiting
  /\ UNCHANGED <<use, asleep>>

\* The last one to arrive opens the barrier.
MutantOpenEarly(t) ==
  /\ pc[t] = "outside"
  /\ current_waits + 2 >= use.parties
  /\ EndRound(t)
Open(t) ==
  /\ pc[t] = "outside"
  /\ current_waits + 1 >= use.parties
  /\ EndRound(t)

Reset(t) ==
  /\ use.resets
  /\ pc[t] = "outside"
  /\ EndRound(t)

\* cv.notify_all(), without the mutex.
NotifyAll(t) ==
  /\ pc[t] = "notify"
  /\ asleep' = {}
  /\ pc' = [pc EXCEPT ![t] = "outside"]
  /\ UNCHANGED <<use, current_waits, released>>

\* The wait of t ends although nobody has notified: wait has no predicate
\* that would send t back to sleep, and wait_for does not tell a timeout from
\* a notification.
WakeAlone(t) ==
  /\ use.spurious \/ use.timed
  /\ t \in asleep
  /\ asleep' = asleep \ {t}
  /\ UNCHANGED <<use, current_waits, pc, released>>

\* t returns from await.  It does not look at current_waits.
MutantReturnAsleep(t) ==
  /\ pc[t] = "waiting"
  /\ pc' = [pc EXCEPT ![t] = "outside"]
  /\ released' = released \ {t}
  /\ UNCHANGED <<use, current_waits, asleep>>
Return(t) ==
  /\ pc[t] = "waiting"
  /\ t \notin asleep
  /\ pc' = [pc EXCEPT ![t] = "outside"]
  /\ released' = released \ {t}
  /\ UNCHANGED <<use, current_waits, asleep>>

BarrierNext == \E t \in Threads :
  \/ Arrive(t) \/ Open(t) \/ Reset(t) \/ NotifyAll(t)
  \/ WakeAlone(t) \/ Return(t)

(* The scheduler runs every thread that can run.  Nothing makes a thread   *)
(* call await.                                                             *)
BarrierFairness == \A t \in Threads : WF_barrierVars(NotifyAll(t)) /\ WF_barrierVars(Return(t))

BarrierSpec == BarrierInit /\ [][BarrierNext]_barrierVars /\ BarrierFairness

-----------------------------------------------------------------------------
\* Types, and current_waits stays below the number of parties.
BarrierTypeOK ==
  /\ use \in Uses
  /\ current_waits \in 0..(use.parties - 1)
  /\ pc \in [Threads -> {"outside", "waiting", "notify"}]
  /\ asleep \subseteq Waiting
  /\ released \subseteq Waiting

(* A thread that sleeps although its round is over will still be notified: *)
(* notify_all comes after the unlock, but nobody who waited at the unlock  *)
(* can be forgotten by it.                                                 *)
NoLostRelease ==
  released \cap asleep # {} => \E t \in Threads : pc[t] = "notify"

(* As the CommController uses it: all threads are parties, await has no    *)
(* timeout, nobody resets.  (Otherwise a party that has timed out or woken *)
(* up by itself stays counted, and one that arrives between the unlock and *)
(* notify_all of the round before is woken by it.)                         *)
ForAll ==
  /\ ~use.spurious /\ ~use.timed /\ ~use.resets
  /\ use.parties = Cardinality(Threads)

(* get_current_waiting `returns how many threads are currently waiting on  *)
(* the object': the count is that of the threads waiting in this round,    *)
(* so that a round needs as many arrivals as the one before.               *)
CurrentWaiting == ForAll => current_waits = Cardinality(Waiting \ released)

\* The barrier knows who waits, and forgets nobody.
WaitersCounted == BarrierTypeOK /\ NoLostRelease /\ CurrentWaiting

(* await holds a thread `for required number of parties to wait upon the   *)
(* barrier': nobody returns whose round is not over.                       *)
NoEarlyReturn ==
  [][ForAll => \A t \in Threads : Return(t) => t \in released]_barrierVars

(* The barrier is the one that the CommController expects.  A thread whose *)
(* round is over counts as outside already.                                *)
AbstractBarrier == INSTANCE Barrier WITH inside <- Waiting \ released
ImplementsBarrier ==
  AbstractBarrier!Init /\ [][ForAll => AbstractBarrier!Next]_(Waiting \ released)

\* Whoever waits when the round ends returns from await.
ReleasedReturn == \A t \in Threads : t \in released ~> t \notin released

\* A thread returns when its round is over, and not before.
ReturnsWhenReleased == NoEarlyReturn /\ ReleasedReturn
=============================================================================
