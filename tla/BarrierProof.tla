---------------------------- MODULE BarrierProof ----------------------------
(***************************************************************************)
(* Proofs about Barrier for every set of threads and every width of        *)
(* ba_phase.  The mutex discipline and the absence of lost wakeups hold    *)
(* for every high-water mark; the count and the rendezvous hold when one   *)
(* generation is one arrival of every thread (FullHwm).                    *)
(***************************************************************************)
EXTENDS Barrier, TLAPS, FiniteSetTheorems

USE DEF Place, InWait

LEMMA NextPhaseType ==
  ASSUME NEW p \in 0..(PhaseMod - 1)
  PROVE  NextPhase(p) \in 0..(PhaseMod - 1) /\ NextPhase(p) # p
  BY BarrierAssumption DEF NextPhase

LEMMA InitType == Init => TypeOK
  BY BarrierAssumption DEF Init, TypeOK

LEMMA NextType == TypeOK /\ [Next]_vars => TypeOK'
<1> SUFFICES ASSUME TypeOK, [Next]_vars PROVE TypeOK'
  OBVIOUS
<1> USE BarrierAssumption DEF TypeOK
<1>1. CASE UNCHANGED vars
  BY <1>1 DEF vars
<1>2. ASSUME NEW t \in Threads, Call(t) PROVE TypeOK'
  BY <1>2 DEF Call
<1>3. ASSUME NEW t \in Threads, Lock(t) PROVE TypeOK'
  BY <1>3 DEF Lock
<1>4. ASSUME NEW t \in Threads, QueueWait(t) PROVE TypeOK'
  BY <1>4 DEF QueueWait
<1>5. ASSUME NEW t \in Threads, QueueOpen(t) PROVE TypeOK'
  BY <1>5, NextPhaseType DEF QueueOpen, Woken
<1>6. ASSUME NEW t \in Threads, Spurious(t) PROVE TypeOK'
  BY <1>6 DEF Spurious
<1>7. ASSUME NEW t \in Threads, Relock(t) PROVE TypeOK'
  BY <1>7 DEF Relock
<1>8. ASSUME NEW t \in Threads, Unlock(t) PROVE TypeOK'
  BY <1>8 DEF Unlock
<1> QED
  BY <1>1, <1>2, <1>3, <1>4, <1>5, <1>6, <1>7, <1>8 DEF Next, Inside, Queue

(***************************************************************************)
(* barrier_queue keeps its state well typed: the phase stays within the    *)
(* width of an int and ba_waiters never goes negative.                     *)
(***************************************************************************)
THEOREM BarrierType == Spec => []TypeOK
<1>1. Init => TypeOK
  BY InitType
<1>2. TypeOK /\ [Next]_vars => TypeOK'
  BY NextType
<1> QED
  BY <1>1, <1>2, PTL DEF Spec

(***************************************************************************)
(* The mutex and the condition variable, whatever the high-water mark.     *)
(***************************************************************************)
LEMMA InitMutex == Init => MutexInv
  BY BarrierAssumption DEF Init, MutexInv, LockOwner, NoLostWakeup

LEMMA NextMutex == TypeOK /\ MutexInv /\ [Next]_vars => MutexInv'
<1> SUFFICES ASSUME TypeOK, MutexInv, [Next]_vars PROVE MutexInv'
  OBVIOUS
<1> USE BarrierAssumption DEF TypeOK, MutexInv, LockOwner, NoLostWakeup
<1>1. CASE UNCHANGED vars
  BY <1>1 DEF vars
<1>2. ASSUME NEW t \in Threads, Call(t) PROVE MutexInv'
  BY <1>2 DEF Call
<1>3. ASSUME NEW t \in Threads, Lock(t) PROVE MutexInv'
  BY <1>3 DEF Lock
<1>4. ASSUME NEW t \in Threads, QueueWait(t) PROVE MutexInv'
  BY <1>4 DEF QueueWait
<1>5. ASSUME NEW t \in Threads, QueueOpen(t) PROVE MutexInv'
  BY <1>5 DEF QueueOpen, Woken
<1>6. ASSUME NEW t \in Threads, Spurious(t) PROVE MutexInv'
  BY <1>6 DEF Spurious
<1>7. ASSUME NEW t \in Threads, Relock(t) PROVE MutexInv'
  BY <1>7 DEF Relock
<1>8. ASSUME NEW t \in Threads, Unlock(t) PROVE MutexInv'
  BY <1>8 DEF Unlock
<1> QED
  BY <1>1, <1>2, <1>3, <1>4, <1>5, <1>6, <1>7, <1>8 DEF Next, Inside, Queue

(***************************************************************************)
(* ba_lock is owned by exactly the thread inside the critical section, and *)
(* no thread stays blocked in pthread_cond_wait once its phase is over:    *)
(* for any high-water mark and any number of threads.                      *)
(***************************************************************************)
THEOREM BarrierMutex == Spec => []MutexInv
<1>1. Init => TypeOK /\ MutexInv
  BY InitType, InitMutex
<1>2. TypeOK /\ MutexInv /\ [Next]_vars => (TypeOK /\ MutexInv)'
  BY NextType, NextMutex
<1> QED
  BY <1>1, <1>2, PTL DEF Spec

(***************************************************************************)
(* One generation is one arrival of every thread.                          *)
(***************************************************************************)
\* The set of threads of the current phase is finite, and when it lacks only
\* the one that is counted next it is everybody else.
LEMMA ArrivedFinite ==
  /\ IsFiniteSet(Arrived)
  /\ Cardinality(Arrived) \in Nat
  BY BarrierAssumption, FS_Subset, FS_CardinalityType DEF Arrived

LEMMA LastArrival ==
  ASSUME FullHwm, CountExact, NEW t \in Threads, t \notin Arrived,
         waiters + 1 = Hwm
  PROVE  Arrived \cup {t} = Threads
<1>1. Cardinality(Arrived \cup {t}) = Cardinality(Arrived) + 1
  BY ArrivedFinite, FS_AddElement
<1>2. Arrived \cup {t} \subseteq Threads
  BY DEF Arrived
<1>3. Cardinality(Threads) = Cardinality(Arrived \cup {t})
  BY <1>1 DEF FullHwm, CountExact
<1> HIDE DEF Arrived
<1> QED
  BY <1>2, <1>3, FS_Subset, BarrierAssumption

LEMMA InitCount == FullHwm /\ Init => CountInv
<1> SUFFICES ASSUME FullHwm, Init PROVE CountInv
  OBVIOUS
<1>1. Arrived = {} /\ Released = {}
  BY DEF Init, Arrived, Released
<1>2. waiters = Cardinality(Arrived)
  BY <1>1, FS_EmptySet DEF Init
<1> QED
  BY <1>1, <1>2 DEF Init, CountInv, CountExact, OneBehind, FullHwm

\* A step that leaves the count, the phase and the two sets alone.
LEMMA CountStutter ==
  ASSUME CountInv, UNCHANGED <<waiters, phase>>, Arrived' = Arrived,
         \A t \in Released' : t \in Released /\ seen'[t] = seen[t]
  PROVE  CountInv'
  BY DEF CountInv, CountExact, OneBehind, NextPhase

LEMMA NextCount ==
  ASSUME FullHwm, TypeOK, MutexInv, CountInv, [Next]_vars
  PROVE  CountInv'
<1> USE BarrierAssumption DEF TypeOK
<1>1. CASE UNCHANGED vars
  BY <1>1, CountStutter DEF vars, Arrived, Released
<1>2. ASSUME NEW t \in Threads, Call(t) PROVE CountInv'
  BY <1>2, CountStutter DEF Call, Arrived, Released
<1>3. ASSUME NEW t \in Threads, Lock(t) PROVE CountInv'
  BY <1>3, CountStutter DEF Lock, Arrived, Released
<1>4. ASSUME NEW t \in Threads, QueueWait(t) PROVE CountInv'
  <2>1. t \notin Arrived /\ Arrived' = Arrived \cup {t}
    BY <1>4 DEF QueueWait, Arrived
  <2>2. waiters' = Cardinality(Arrived')
    BY <1>4, <2>1, ArrivedFinite, FS_AddElement
       DEF QueueWait, CountInv, CountExact
  <2>3. waiters' < Hwm
    BY <1>4, ArrivedFinite DEF QueueWait, CountInv, CountExact
  <2>4. OneBehind'
    BY <1>4 DEF QueueWait, CountInv, OneBehind, Released, NextPhase
  <2> QED
    BY <2>2, <2>3, <2>4 DEF CountInv, CountExact
<1>5. ASSUME NEW t \in Threads, QueueOpen(t) PROVE CountInv'
  <2>1. t \notin Arrived
    BY <1>5 DEF QueueOpen, Arrived
  <2>2. Arrived \cup {t} = Threads
    BY <1>5, <2>1, LastArrival DEF QueueOpen, CountInv
  <2>3. \A u \in Threads : seen'[u] = phase
    BY <1>5, <2>2 DEF QueueOpen, Arrived
  <2>4. phase' = NextPhase(phase) /\ phase' # phase
    BY <1>5, NextPhaseType DEF QueueOpen
  <2>5. Arrived' = {}
    BY <2>3, <2>4 DEF Arrived
  <2>6. CountExact'
    BY <1>5, <2>5, FS_EmptySet DEF QueueOpen, CountExact, FullHwm
  <2>7. OneBehind'
    BY <2>3, <2>4 DEF OneBehind, Released, NextPhase
  <2> QED
    BY <2>6, <2>7 DEF CountInv
<1>6. ASSUME NEW t \in Threads, Spurious(t) PROVE CountInv'
  BY <1>6, CountStutter DEF Spurious, Arrived, Released
<1>7. ASSUME NEW t \in Threads, Relock(t) PROVE CountInv'
  BY <1>7, CountStutter DEF Relock, Arrived, Released
<1>8. ASSUME NEW t \in Threads, Unlock(t) PROVE CountInv'
  BY <1>8, CountStutter DEF Unlock, Arrived, Released
<1> QED
  BY <1>1, <1>2, <1>3, <1>4, <1>5, <1>6, <1>7, <1>8 DEF Next, Inside, Queue

(***************************************************************************)
(* ba_waiters is exactly the number of threads that wait in the current    *)
(* phase and never stays at the high-water mark; a thread that was let go  *)
(* is one phase behind, so the wrap-around of ba_phase cannot trap it.     *)
(***************************************************************************)
THEOREM BarrierCount ==
  ASSUME FullHwm
  PROVE  Spec => []CountInv
<1>1. Init => TypeOK /\ MutexInv /\ CountInv
  BY InitType, InitMutex, InitCount
<1>2. TypeOK /\ MutexInv /\ CountInv /\ [Next]_vars
        => (TypeOK /\ MutexInv /\ CountInv)'
  BY NextType, NextMutex, NextCount
<1> QED
  BY <1>1, <1>2, PTL DEF Spec

(***************************************************************************)
(* barrier_queue is a rendezvous: every step of the code is an arrival, a  *)
(* departure or a step the rendezvous does not see.                        *)
(***************************************************************************)
LEMMA RefineInit == Init => Abstract!Init
  BY DEF Init, Abstract!Init, Arrived, Released

LEMMA RefineNext ==
  ASSUME FullHwm, TypeOK, MutexInv, CountInv, [Next]_vars
  PROVE  [Abstract!Next]_(Abstract!vars)
<1> USE BarrierAssumption DEF TypeOK, Abstract!vars
<1>1. CASE UNCHANGED vars
  BY <1>1 DEF vars, Arrived, Released
<1>2. ASSUME NEW t \in Threads, Call(t)
      PROVE  UNCHANGED <<Arrived, Released>>
  BY <1>2 DEF Call, Arrived, Released
<1>3. ASSUME NEW t \in Threads, Lock(t)
      PROVE  UNCHANGED <<Arrived, Released>>
  BY <1>3 DEF Lock, Arrived, Released
<1>4. ASSUME NEW t \in Threads, QueueWait(t)
      PROVE  Abstract!ArriveEarly(t)
  <2>1. t \notin Arrived \cup Released
    BY <1>4 DEF QueueWait, Arrived, Released
  <2>2. Arrived' = Arrived \cup {t} /\ Released' = Released
    BY <1>4 DEF QueueWait, Arrived, Released
  <2>3. Cardinality(Arrived') # Cardinality(Threads)
    <3>1. Cardinality(Arrived') = waiters + 1
      BY <2>1, <2>2, ArrivedFinite, FS_AddElement DEF CountInv, CountExact
    <3> QED
      BY <1>4, <3>1 DEF QueueWait, FullHwm
  <2> QED
    BY <2>1, <2>2, <2>3 DEF Abstract!ArriveEarly
<1>5. ASSUME NEW t \in Threads, QueueOpen(t)
      PROVE  Abstract!ArriveLast(t)
  <2>1. t \notin Arrived \cup Released
    BY <1>5 DEF QueueOpen, Arrived, Released
  <2>2. Arrived \cup {t} = Threads
    BY <1>5, <2>1, LastArrival DEF QueueOpen, CountInv
  <2>3. \A u \in Threads : seen'[u] = phase /\ phase' # phase
    BY <1>5, <2>2, NextPhaseType DEF QueueOpen, Arrived
  <2>4. \A u \in Threads : bpc'[u] \in {"relock", "unlock"}
    BY <1>5, <2>2 DEF QueueOpen, Woken, Arrived
  <2>5. Arrived' = {} /\ Released' = Threads
    BY <2>3, <2>4 DEF Arrived, Released
  <2> QED
    BY <2>1, <2>2, <2>5 DEF Abstract!ArriveLast
<1>6. ASSUME NEW t \in Threads, Spurious(t)
      PROVE  UNCHANGED <<Arrived, Released>>
  BY <1>6 DEF Spurious, Arrived, Released
<1>7. ASSUME NEW t \in Threads, Relock(t)
      PROVE  UNCHANGED <<Arrived, Released>>
  BY <1>7 DEF Relock, Arrived, Released
<1>8. ASSUME NEW t \in Threads, Unlock(t)
      PROVE  Abstract!Leave(t)
  <2>1. t \in Released
    BY <1>8 DEF Unlock, Released
  <2>2. Released' = Released \ {t} /\ Arrived' = Arrived
    BY <1>8 DEF Unlock, Arrived, Released
  <2> QED
    BY <2>1, <2>2 DEF Abstract!Leave
<1> QED
  BY <1>1, <1>2, <1>3, <1>4, <1>5, <1>6, <1>7, <1>8
     DEF Next, Inside, Queue, Abstract!Next

(***************************************************************************)
(* With one arrival per thread, barrier_queue implements Rendezvous:       *)
(* nobody leaves before everybody came, and the last arrival lets all go.  *)
(***************************************************************************)
THEOREM BarrierRefinement ==
  ASSUME FullHwm
  PROVE  Spec => ImplementsRendezvous
<1>1. Init => TypeOK /\ MutexInv /\ CountInv /\ Abstract!Init
  BY InitType, InitMutex, InitCount, RefineInit
<1>2. TypeOK /\ MutexInv /\ CountInv /\ [Next]_vars
        => (TypeOK /\ MutexInv /\ CountInv)'
  BY NextType, NextMutex, NextCount
<1>3. TypeOK /\ MutexInv /\ CountInv /\ [Next]_vars
        => [Abstract!Next]_(Abstract!vars)
  BY RefineNext
<1> QED
  BY <1>1, <1>2, <1>3, PTL DEF Spec, ImplementsRendezvous, Abstract!Spec
=============================================================================
