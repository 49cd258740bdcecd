------------------------- MODULE LightweightSemaphore -------------------------
(***************************************************************************)
(* moodycamel::LightweightSemaphore: an atomic counter in front of a       *)
(* kernel semaphore.  A negative counter is the number of threads that     *)
(* wait for the kernel's.  Every access to the counter and every call of   *)
(* the kernel semaphore is a step.                                         *)
(*                                                                         *)
(* waitMany(max, timeout) is modelled; wait(timeout) is the same with      *)
(* max = 1, returning whether a token was acquired.                        *)
(***************************************************************************)
EXTENDS Integers, FiniteSets

CONSTANTS
  Waiters,      \* threads that wait
  Signallers,   \* threads that signal
  MaxTokens,    \* bound: how many tokens are signalled
  MaxMany,      \* bound: the most that one wait asks for
  MaxSpins,     \* m_maxSpins
  Timeouts      \* subset of {"none", "zero", "some"}: < 0, 0, > 0

ASSUME SemaphoreAssumption ==
  /\ IsFiniteSet(Waiters) /\ IsFiniteSet(Signallers)
  /\ MaxTokens \in Nat /\ MaxMany \in Nat \ {0} /\ MaxSpins \in Nat
  /\ Timeouts \subseteq {"none", "zero", "some"}

VARIABLES
  m_count, m_sema,
  pc,           \* where each thread is
  max, timeout, \* the arguments of its wait
  oldCount,     \* what it last read of m_count
  spin,
  result,       \* the tokens its wait has got so far
  toRelease,    \* what its signal still has to post
  signalled     \* history: tokens signalled

semaphoreVars ==
  <<m_count, m_sema, pc, max, timeout, oldCount, spin, result, toRelease, signalled>>

Threads == Waiters \cup Signallers

Init ==
  /\ m_count = 0 /\ m_sema = 0
  /\ pc = [t \in Threads |-> "idle"]
  /\ max = [t \in Waiters |-> 0] /\ timeout = [t \in Waiters |-> "none"]
  /\ oldCount = [t \in Waiters |-> 0] /\ spin = [t \in Waiters |-> 0]
  /\ result = [t \in Waiters |-> 0]
  /\ toRelease = [t \in Signallers |-> 0] /\ signalled = 0

Goto(t, p) == pc' = [pc EXCEPT ![t] = p]
Read(t) == oldCount' = [oldCount EXCEPT ![t] = m_count]
Lower(a, b) == IF a < b THEN a ELSE b

-----------------------------------------------------------------------------
\* waitMany: tryWaitMany first.
Wait(t) ==
  /\ pc[t] = "idle"
  /\ \E n \in 1..MaxMany : max' = [max EXCEPT ![t] = n]
  /\ \E o \in Timeouts : timeout' = [timeout EXCEPT ![t] = o]
  /\ spin' = [spin EXCEPT ![t] = MaxSpins]
  /\ result' = [result EXCEPT ![t] = 0]
  /\ Goto(t, "try")
  /\ UNCHANGED <<m_count, m_sema, oldCount, toRelease, signalled>>

\* tryWaitMany has found no token: before or after the wait proper.
GiveUp(t) == Goto(t, IF result[t] = 0 THEN "spin" ELSE "idle")

Try(t) ==
  /\ pc[t] = "try"
  /\ Read(t)
  /\ IF m_count > 0 THEN Goto(t, "tryExchange") ELSE GiveUp(t)
  /\ UNCHANGED <<m_count, m_sema, max, timeout, spin, result, toRelease, signalled>>

\* An exchange takes as many tokens as there are, up to max.
Exchange(t, n) ==
  /\ m_count = oldCount[t]
  /\ m_count' = m_count - Lower(m_count, n)
  /\ result' = [result EXCEPT ![t] = @ + Lower(m_count, n)]
  /\ Goto(t, "idle")
  /\ UNCHANGED oldCount

\* compare_exchange_weak, which may fail for no reason.
TryExchange(t) ==
  /\ pc[t] = "tryExchange"
  /\ \/ Exchange(t, max[t] - result[t])
     \/ /\ Read(t)
        /\ IF m_count > 0 THEN UNCHANGED pc ELSE GiveUp(t)
        /\ UNCHANGED <<m_count, result>>
  /\ UNCHANGED <<m_sema, max, timeout, spin, toRelease, signalled>>

\* waitManyWithPartialSpinning
Spin(t) ==
  /\ pc[t] = "spin" /\ spin[t] > 0
  /\ Read(t)
  /\ spin' = [spin EXCEPT ![t] = @ - 1]
  /\ IF m_count > 0 THEN Goto(t, "spinExchange") ELSE UNCHANGED pc
  /\ UNCHANGED <<m_count, m_sema, max, timeout, result, toRelease, signalled>>

SpinExchange(t) ==
  /\ pc[t] = "spinExchange"
  /\ IF m_count = oldCount[t]
     THEN Exchange(t, max[t])
     ELSE Goto(t, "spin") /\ UNCHANGED <<m_count, oldCount, result>>
  /\ UNCHANGED <<m_sema, max, timeout, spin, toRelease, signalled>>

\* A token is there: the first one of the wait, then tryWaitMany(max - 1).
First(t) ==
  /\ result' = [result EXCEPT ![t] = 1]
  /\ Goto(t, IF max[t] > 1 THEN "try" ELSE "idle")

FetchSub(t) ==
  /\ pc[t] = "spin" /\ spin[t] = 0
  /\ Read(t)
  /\ m_count' = m_count - 1
  /\ IF m_count > 0 THEN First(t)
     ELSE /\ Goto(t, IF timeout[t] = "zero" THEN "adjust" ELSE "kernel")
          /\ UNCHANGED result
  /\ UNCHANGED <<m_sema, max, timeout, spin, toRelease, signalled>>

\* wait and timed_wait on the kernel semaphore take a post that is there; else
\* the thread sleeps until there is one, or until its time is over.
KernelWait(t) ==
  /\ pc[t] = "kernel"
  /\ IF m_sema > 0 THEN m_sema' = m_sema - 1 /\ First(t)
     ELSE Goto(t, "asleep") /\ UNCHANGED <<m_sema, result>>
  /\ UNCHANGED <<m_count, max, timeout, oldCount, spin, toRelease, signalled>>

Wake(t) ==
  /\ pc[t] = "asleep" /\ m_sema > 0
  /\ m_sema' = m_sema - 1
  /\ First(t)
  /\ UNCHANGED <<m_count, max, timeout, oldCount, spin, toRelease, signalled>>

TimeOut(t) ==
  /\ pc[t] = "asleep" /\ timeout[t] = "some"
  /\ Goto(t, "adjust")
  /\ UNCHANGED <<m_count, m_sema, max, timeout, oldCount, spin, result,
                 toRelease, signalled>>

(* After a timeout the count is still decremented: take that back, unless  *)
(* the semaphore was signalled for this thread as well; then take the      *)
(* signal.                                                                 *)
Adjust(t) ==
  /\ pc[t] = "adjust"
  /\ Read(t)
  /\ Goto(t, IF m_count >= 0 THEN "tryKernel" ELSE "restore")
  /\ UNCHANGED <<m_count, m_sema, max, timeout, spin, result, toRelease, signalled>>

TryKernel(t) ==
  /\ pc[t] = "tryKernel"
  /\ IF m_sema > 0 THEN m_sema' = m_sema - 1 /\ First(t)
     ELSE Goto(t, "adjust") /\ UNCHANGED <<m_sema, result>>
  /\ UNCHANGED <<m_count, max, timeout, oldCount, spin, toRelease, signalled>>

Restore(t) ==
  /\ pc[t] = "restore"
  /\ IF m_count = oldCount[t]
     THEN m_count' = m_count + 1 /\ Goto(t, "idle")
     ELSE Goto(t, "adjust") /\ UNCHANGED m_count
  /\ UNCHANGED <<m_sema, max, timeout, oldCount, spin, result, toRelease, signalled>>

-----------------------------------------------------------------------------
\* signal: as many posts to the kernel semaphore as there were threads waiting.
MutantOwed(n) == IF m_count < 0 THEN n ELSE 0
Owed(n) == IF m_count >= 0 THEN 0 ELSE Lower(-m_count, n)
Signal(t) ==
  /\ pc[t] = "idle"
  /\ \E n \in 1..(MaxTokens - signalled) :
       /\ m_count' = m_count + n
       /\ toRelease' = [toRelease EXCEPT ![t] = Owed(n)]
       /\ signalled' = signalled + n
       /\ Goto(t, IF Owed(n) > 0 THEN "post" ELSE "idle")
  /\ UNCHANGED <<m_sema, max, timeout, oldCount, spin, result>>

MutantPost(t) ==
  /\ pc[t] = "post"
  /\ m_sema' = m_sema + 1
  /\ toRelease' = [toRelease EXCEPT ![t] = 0]
  /\ Goto(t, "idle")
  /\ UNCHANGED <<m_count, max, timeout, oldCount, spin, result, signalled>>
Post(t) ==
  /\ pc[t] = "post"
  /\ m_sema' = m_sema + 1
  /\ toRelease' = [toRelease EXCEPT ![t] = @ - 1]
  /\ Goto(t, IF toRelease[t] > 1 THEN "post" ELSE "idle")
  /\ UNCHANGED <<m_count, max, timeout, oldCount, spin, result, signalled>>

Waiting(t) ==
  \/ Try(t) \/ TryExchange(t) \/ Spin(t) \/ SpinExchange(t) \/ FetchSub(t)
  \/ KernelWait(t) \/ Wake(t) \/ Adjust(t) \/ TryKernel(t) \/ Restore(t)

Next ==
  \/ \E t \in Waiters : Wait(t) \/ Waiting(t) \/ TimeOut(t)
  \/ \E t \in Signallers : Signal(t) \/ Post(t)

(* Threads run.  Nothing makes a thread wait or signal, a timeout need not *)
(* come, and a weak exchange need not ever succeed.                        *)
Fairness ==
  /\ \A t \in Waiters : WF_semaphoreVars(Waiting(t))
  /\ \A t \in Signallers : WF_semaphoreVars(Post(t))

Spec == Init /\ [][Next]_semaphoreVars /\ Fairness

-----------------------------------------------------------------------------
\* The threads that have decremented the counter for a token they have not got.
Pending == {t \in Waiters : pc[t] \in 
  {"kernel", "asleep", "adjust", "tryKernel", "restore"}}

TypeOK ==
  /\ m_count \in (-Cardinality(Waiters))..MaxTokens /\ m_sema \in Nat
  /\ pc \in [Threads -> {"idle", "try", "tryExchange", "spin", "spinExchange",
                         "kernel", "asleep", "adjust", "tryKernel", "restore",
                         "post"}]
  /\ \A t \in Waiters : result[t] \in 0..max[t] /\ spin[t] \in 0..MaxSpins
  /\ \A t \in Signallers : toRelease[t] > 0 <=> pc[t] = "post"

\* The posts that signallers have still to make: of each, the so many-th.
Owing == {post \in Signallers \X (1..MaxTokens) : post[2] <= toRelease[post[1]]}

(* The kernel semaphore gets a post for every waiting thread that the      *)
(* counter no longer shows as waiting, and no other, whether threads time  *)
(* out or not.                                                             *)
PostsMatchWaiters ==
  m_sema + Cardinality(Owing)
    = Cardinality(Pending) - (IF m_count < 0 THEN -m_count ELSE 0)

\* Nobody is posted to, or left waiting, beside the counter.
SemaphoreKept == TypeOK /\ PostsMatchWaiters

\* It is a semaphore: the tokens are those of the counter, and one for each
\* thread that has counted itself out before it got one.
Abstract == INSTANCE Semaphore WITH tokens <- m_count + Cardinality(Pending)
ImplementsSemaphore == Abstract!Spec

(* No token lies idle while a thread sleeps for one: it is taken, or       *)
(* nobody sleeps any more.                                                 *)
SleepsBeside ==
  (\E t \in Waiters : pc[t] = "asleep") /\ m_count + Cardinality(Pending) > 0
NoTokenIdle == SleepsBeside ~> ~SleepsBeside
=============================================================================
