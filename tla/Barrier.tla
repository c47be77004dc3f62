------------------------------- MODULE Barrier -------------------------------
(***************************************************************************)
(* barrier_queue of src/libmicro.c: a cyclic barrier made of a mutex, a    *)
(* condition variable, a counter of waiters and a phase number, shared by  *)
(* the threads of every worker process.  One action per point where        *)
(* another thread can run in between: the call, taking ba_lock, the body   *)
(* of the critical section up to pthread_cond_wait or the final unlock, a  *)
(* wakeup, retaking the lock (and testing the phase again), the unlock.    *)
(***************************************************************************)
EXTENDS Integers, FiniteSets

CONSTANTS
  Threads,    \* the threads that call barrier_queue
  Hwm,        \* ba_hwm: arrivals that open the barrier
  PhaseMod,   \* ba_phase is an int: it counts modulo 2^32, here modulo PhaseMod
  NoThread    \* owner of a free lock

ASSUME BarrierAssumption ==
  /\ IsFiniteSet(Threads)
  /\ Hwm \in Nat
  /\ PhaseMod \in Nat /\ PhaseMod > 1
  /\ NoThread \notin Threads

VARIABLES
  lock,      \* ba_lock: its owner
  waiters,   \* ba_waiters
  phase,     \* ba_phase
  bpc,       \* where each thread is in barrier_queue
  seen       \* the local variable "phase" of each thread

vars == <<lock, waiters, phase, bpc, seen>>

\* out: not in the barrier; lock: wants ba_lock; body: owns it, before the
\* count; wait: blocked in pthread_cond_wait; relock: woken, wants the lock
\* again; unlock: owns the lock and has left the while loop.
Place == {"out", "lock", "body", "wait", "relock", "unlock"}

TypeOK ==
  /\ lock \in Threads \cup {NoThread}
  /\ waiters \in Nat
  /\ phase \in 0..(PhaseMod - 1)
  /\ bpc \in [Threads -> Place]
  /\ seen \in [Threads -> 0..(PhaseMod - 1)]

Init ==
  /\ lock = NoThread
  /\ waiters = 0
  /\ phase = 0
  /\ bpc = [t \in Threads |-> "out"]
  /\ seen = [t \in Threads |-> 0]

Call(t) ==
  /\ bpc[t] = "out"
  /\ bpc' = [bpc EXCEPT ![t] = "lock"]
  /\ UNCHANGED <<lock, waiters, phase, seen>>

Lock(t) ==
  /\ bpc[t] = "lock"
  /\ lock = NoThread
  /\ lock' = t
  /\ bpc' = [bpc EXCEPT ![t] = "body"]
  /\ UNCHANGED <<waiters, phase, seen>>

\* Seeded faults: the phase never wraps around; the phase is not advanced.
NextPhaseNoWrap(p) == p + 1
NextPhaseStuck(p)  == p

\* ba_phase++, wrapping around.
NextPhase(p) == IF p + 1 = PhaseMod THEN 0 ELSE p + 1

\* Seeded fault: the broadcast is forgotten.
WokenNobody(place) == place

\* The waiters are woken by pthread_cond_broadcast.
Woken(place) == IF place = "wait" THEN "relock" ELSE place

\* Not the last arrival: the while test holds at once, and
\* pthread_cond_wait gives the lock up and blocks in one step.
QueueWait(t) ==
  /\ bpc[t] = "body"
  /\ waiters + 1 # Hwm
  /\ seen' = [seen EXCEPT ![t] = phase]
  /\ waiters' = waiters + 1
  /\ bpc' = [bpc EXCEPT ![t] = "wait"]
  /\ lock' = NoThread
  /\ UNCHANGED phase

\* The last arrival: reset the count, open the next phase, wake the others.
QueueOpen(t) ==
  /\ bpc[t] = "body"
  /\ waiters + 1 = Hwm
  /\ seen' = [seen EXCEPT ![t] = phase]
  /\ waiters' = 0
  /\ phase' = NextPhase(phase)
  /\ bpc' = [u \in Threads |-> IF u = t THEN "unlock" ELSE Woken(bpc[u])]
  /\ UNCHANGED lock

Queue(t) == QueueWait(t) \/ QueueOpen(t)

\* pthread_cond_wait may return although nobody called broadcast.
Spurious(t) ==
  /\ bpc[t] = "wait"
  /\ bpc' = [bpc EXCEPT ![t] = "relock"]
  /\ UNCHANGED <<lock, waiters, phase, seen>>

\* Seeded fault: "if" in the place of "while", the phase is not tested again.
RelockNoTest(t) ==
  /\ bpc[t] = "relock"
  /\ lock = NoThread
  /\ lock' = t /\ bpc' = [bpc EXCEPT ![t] = "unlock"]
  /\ UNCHANGED <<waiters, phase, seen>>

\* pthread_cond_wait returns with the lock; while (ba_phase == phase).
Relock(t) ==
  /\ bpc[t] = "relock"
  /\ lock = NoThread
  /\ IF seen[t] = phase
       THEN lock' = NoThread /\ bpc' = [bpc EXCEPT ![t] = "wait"]
       ELSE lock' = t        /\ bpc' = [bpc EXCEPT ![t] = "unlock"]
  /\ UNCHANGED <<waiters, phase, seen>>

Unlock(t) ==
  /\ bpc[t] = "unlock"
  /\ lock' = NoThread
  /\ bpc' = [bpc EXCEPT ![t] = "out"]
  /\ UNCHANGED <<waiters, phase, seen>>

\* The steps a thread takes by itself inside the call.
Inside(t) == Lock(t) \/ Queue(t) \/ Relock(t)

Next == \E t \in Threads : Call(t) \/ Inside(t) \/ Spurious(t) \/ Unlock(t)

Spec == Init /\ [][Next]_vars

\* The scheduler runs every thread; the mutex is not assumed to be fair, a
\* thread that keeps asking for it gets it if it is free again and again.
\* Calls and spurious wakeups are never required.
Fairness ==
  \A t \in Threads : SF_vars(Lock(t)) /\ WF_vars(Queue(t))
                     /\ SF_vars(Relock(t)) /\ WF_vars(Unlock(t))

FairSpec == Spec /\ Fairness

------------------------------------------------------------------------------
\* Threads counted in the current phase, and threads it has let go.
InWait(t) == bpc[t] \in {"wait", "relock"}
Arrived  == {t \in Threads : InWait(t) /\ seen[t] = phase}
Released == {t \in Threads : (InWait(t) /\ seen[t] # phase) \/ bpc[t] = "unlock"}

\* ba_lock is owned by exactly the thread that is in the critical section.
LockOwner ==
  \A t \in Threads : (lock = t) <=> bpc[t] \in {"body", "unlock"}

\* No wakeup is lost, whatever the order of the broadcast and of the wait: a
\* thread blocked in pthread_cond_wait is never one that was let go.
NoLostWakeup == \A t \in Threads : bpc[t] = "wait" => seen[t] = phase

\* The mutex and the condition variable do their work (for every ba_hwm).
MutexInv == LockOwner /\ NoLostWakeup

\* ba_waiters counts the threads of the current phase, and a barrier that is
\* full is never left closed.
CountExact == waiters = Cardinality(Arrived) /\ waiters < Hwm

\* A thread that was let go is exactly one phase behind, so the test
\* ba_phase == phase cannot be fooled by the int wrapping around.
OneBehind == \A t \in Released : phase = NextPhase(seen[t])

\* The count and the phase do theirs, with one arrival per thread and phase.
CountInv == CountExact /\ OneBehind

\* barrier_create is given one arrival per worker thread.
FullHwm == Hwm = Cardinality(Threads) /\ Hwm > 0

Abstract == INSTANCE Rendezvous WITH arrived <- Arrived, released <- Released
\* With one arrival per thread, barrier_queue implements the rendezvous.
ImplementsRendezvous == Abstract!Spec

\* A generation that is complete, all of it called and none of it let go yet,
\* gets everybody out again.
Complete == \A t \in Threads : bpc[t] \in {"lock", "body"} \/ t \in Arrived
Opens == \A t \in Threads : Complete ~> bpc[t] = "out"
=============================================================================
