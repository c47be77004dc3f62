---------------------------- MODULE HarnessProof ----------------------------
(***************************************************************************)
(* Proofs about Harness for every value of -P, -T and -C, with and without *)
(* failures.  The barrier is not looked into again: what BarrierProof says *)
(* of any set of threads holds of the worker threads.  The second part is  *)
(* about the report on the samples (module Stats), for arrays of every     *)
(* size and samples of every magnitude.                                    *)
(***************************************************************************)
EXTENDS Harness, Stats, TLAPS, FiniteSetTheorems, SequenceTheorems

(***************************************************************************)
(* The workers as the threads of the barrier.                              *)
(***************************************************************************)
Proved == INSTANCE BarrierProof WITH Threads <- Worker, Hwm <- P * OptT

LEMMA PType == P \in Nat /\ P > 0 /\ OptT \in Nat /\ OptT > 0
  BY HarnessAssumption DEF P

\* barrier_create is given the number of worker threads.
LEMMA WorkersCounted ==
  /\ IsFiniteSet(Worker) /\ Cardinality(Worker) = P * OptT
  /\ P * OptT \in Nat /\ P * OptT > 0
<1>1. IsFiniteSet(Proc) /\ Cardinality(Proc) = P
  BY PType, FS_Interval DEF Proc
<1>2. IsFiniteSet(Thread) /\ Cardinality(Thread) = OptT
  BY PType, FS_Interval DEF Thread
<1>3. P * OptT \in Nat /\ P * OptT > 0
  BY PType
<1> QED
  BY <1>1, <1>2, <1>3, FS_Product DEF Worker

LEMMA BarrierFacts ==
  /\ IsFiniteSet(Worker)
  /\ P * OptT \in Nat
  /\ PhaseMod \in Nat /\ PhaseMod > 1
  /\ NoThread \notin Worker
  BY HarnessAssumption, WorkersCounted

LEMMA WorkersFull == Proved!FullHwm
  BY WorkersCounted DEF Proved!FullHwm, Proved!Cardinality, Cardinality,
     Proved!IsFiniteSet, IsFiniteSet

BarrierOK == B!TypeOK /\ B!MutexInv /\ B!CountInv

\* The barrier of the harness is the one of the proofs.
LEMMA SameState ==
  /\ B!TypeOK <=> Proved!TypeOK
  /\ B!MutexInv <=> Proved!MutexInv
  /\ B!CountInv <=> Proved!CountInv
<1>1. B!TypeOK <=> Proved!TypeOK
  BY DEF B!TypeOK, Proved!TypeOK, B!Place, Proved!Place
<1>2. B!MutexInv <=> Proved!MutexInv
  BY DEF B!MutexInv, Proved!MutexInv, B!LockOwner, Proved!LockOwner,
     B!NoLostWakeup, Proved!NoLostWakeup
<1>3. B!CountInv <=> Proved!CountInv
  <2>1. B!Arrived = Proved!Arrived /\ B!Released = Proved!Released
    BY DEF B!Arrived, Proved!Arrived, B!Released, Proved!Released,
       B!InWait, Proved!InWait
  <2>2. B!Cardinality(B!Arrived) = Proved!Cardinality(B!Arrived)
    BY DEF B!Cardinality, Proved!Cardinality
  <2>3. B!CountExact <=> Proved!CountExact
    BY <2>1, <2>2 DEF B!CountExact, Proved!CountExact
  <2>4. B!OneBehind <=> Proved!OneBehind
    BY <2>1 DEF B!OneBehind, Proved!OneBehind, B!NextPhase,
       Proved!NextPhase
  <2> QED
    BY <2>3, <2>4 DEF B!CountInv, Proved!CountInv
<1> QED
  BY <1>1, <1>2, <1>3

LEMMA SameStep == [B!Next]_(B!vars) <=> [Proved!Next]_(Proved!vars)
<1>1. B!vars = Proved!vars
  BY DEF B!vars, Proved!vars
<1>2. B!Next <=> Proved!Next
  BY DEF B!Next, Proved!Next, B!Call, Proved!Call, B!Inside, Proved!Inside,
     B!Lock, Proved!Lock, B!Queue, Proved!Queue, B!QueueWait,
     Proved!QueueWait, B!QueueOpen, Proved!QueueOpen, B!Woken,
     Proved!Woken, B!NextPhase, Proved!NextPhase, B!Spurious,
     Proved!Spurious, B!Relock, Proved!Relock, B!Unlock, Proved!Unlock
<1> QED
  BY <1>1, <1>2 DEF B!vars, Proved!vars

LEMMA BarrierInit == B!Init => BarrierOK
<1>1. B!Init <=> Proved!Init
  BY DEF B!Init, Proved!Init
<1>2. Proved!Init => Proved!TypeOK
  BY Proved!InitType, BarrierFacts DEF Proved!IsFiniteSet, IsFiniteSet
<1>3. Proved!Init => Proved!MutexInv
  BY Proved!InitMutex, BarrierFacts DEF Proved!IsFiniteSet, IsFiniteSet
<1>4. Proved!Init => Proved!CountInv
  BY Proved!InitCount, BarrierFacts, WorkersFull DEF Proved!IsFiniteSet, IsFiniteSet
<1> QED
  BY <1>1, <1>2, <1>3, <1>4, SameState DEF BarrierOK

LEMMA BarrierNext == BarrierOK /\ [B!Next]_(B!vars) => BarrierOK'
<1> SUFFICES ASSUME BarrierOK, [B!Next]_(B!vars) PROVE BarrierOK'
  OBVIOUS
<1>1. [Proved!Next]_(Proved!vars)
  BY SameStep
<1>2. Proved!TypeOK /\ Proved!MutexInv /\ Proved!CountInv
  BY SameState DEF BarrierOK
<1>3. Proved!TypeOK'
  BY <1>1, <1>2, Proved!NextType, BarrierFacts DEF Proved!IsFiniteSet, IsFiniteSet
<1>4. Proved!MutexInv'
  BY <1>1, <1>2, Proved!NextMutex, BarrierFacts DEF Proved!IsFiniteSet, IsFiniteSet
<1>5. Proved!CountInv'
  BY <1>1, <1>2, Proved!NextCount, BarrierFacts, WorkersFull DEF Proved!IsFiniteSet, IsFiniteSet
<1>6. (B!TypeOK <=> Proved!TypeOK)' /\ (B!MutexInv <=> Proved!MutexInv)' /\ (B!CountInv <=> Proved!CountInv)'
  BY SameState, PTL
<1> QED
  BY <1>3, <1>4, <1>5, <1>6 DEF BarrierOK

(***************************************************************************)
(* A thread is inside barrier_queue exactly at its two calls of it, and    *)
(* the states of parent, processes and threads fit together.               *)
(***************************************************************************)
BarrierPc ==
  \A w \in Worker : (bpc[w] = "out") <=> wpc[w] \notin {"sync", "record"}

SystemInv ==
  /\ parent = "fork" => \A p \in Proc : p >= cursor => proc[p] = "unborn"
  /\ parent = "wait" => \A p \in Proc : p < cursor => proc[p] = "exited"
  /\ parent = "done" => \A p \in Proc : proc[p] = "exited"
  /\ \A w \in Worker :
       /\ proc[w[1]] = "unborn" => wpc[w] = "unborn"
       /\ proc[w[1]] = "exited" => wpc[w] = "done"

BaseInv == TypeOK /\ B!MutexInv /\ B!CountInv /\ BarrierPc /\ SystemInv

ParentStep == Fork \/ ForkFails \/ StartWaiting \/ Wait \/ Report
ProcessStep(p) ==
  StartMain(p) \/ Exit(p) \/ \E i \in Thread : CreateThread(p, i)
\* The steps of a thread outside the barrier, and those into, through and
\* out of it.
OuterStep(w) ==
  InitWorker(w) \/ TestFlag(w) \/ Benchmark(w) \/ Post(w) \/ FiniWorker(w)
CallStep(w)  == Pre(w) \/ Check(w) \/ Clear(w)
InnerStep(w) == Sync(w) \/ RecordQueue(w) \/ RecordBlock(w) \/ Wakeup(w)
LeaveStep(w) == Synced(w) \/ Recorded(w)

LEMMA NextCases ==
  ASSUME [Next]_vars
  PROVE  \/ UNCHANGED vars
         \/ ParentStep
         \/ \E p \in Proc : ProcessStep(p)
         \/ \E w \in Worker :
              \/ Fail(w)
              \/ OuterStep(w) \/ CallStep(w) \/ InnerStep(w) \/ LeaveStep(w)
         \/ Expire
  BY DEF Next, Finished, ParentStep, ProcessStep, OuterStep, CallStep,
     InnerStep, LeaveStep, ThreadStep

\* The two components of a worker's name.
LEMMA WorkerName ==
  /\ \A p \in Proc, i \in Thread : <<p, i>> \in Worker
  /\ \A p \in Proc : Main(p) \in Worker
  /\ \A w \in Worker : w[1] \in Proc /\ w[2] \in Thread /\ w = <<w[1], w[2]>>
  /\ \A p \in Proc, i \in Thread : <<p, i>>[1] = p /\ Main(p)[1] = p
  BY PType DEF Worker, Thread, Main

\* To the barrier, a step of the harness is a step of barrier_queue or none.
LEMMA StepBarrier == [Next]_vars => [B!Next]_(B!vars)
<1> SUFFICES ASSUME [Next]_vars PROVE [B!Next]_(B!vars)
  OBVIOUS
<1> USE DEF barrier, B!vars
<1>1. CASE UNCHANGED vars
  BY <1>1 DEF vars
<1>2. CASE ParentStep
  BY <1>2 DEF ParentStep, Fork, ForkFails, StartWaiting, Wait, Report
<1>3. ASSUME NEW p \in Proc, ProcessStep(p) PROVE UNCHANGED barrier
  BY <1>3 DEF ProcessStep, StartMain, Exit, CreateThread
<1>4. ASSUME NEW w \in Worker, Fail(w) \/ OuterStep(w) PROVE UNCHANGED barrier
  BY <1>4 DEF Fail, OuterStep, InitWorker, TestFlag, Benchmark, Post,
     FiniWorker
<1>5. ASSUME NEW w \in Worker, CallStep(w)
      PROVE  B!Call(w) \/ UNCHANGED barrier
  BY <1>5 DEF CallStep, Pre, Check, Clear
<1>6. ASSUME NEW w \in Worker, InnerStep(w)
      PROVE  B!Inside(w) \/ B!Spurious(w)
  BY <1>6 DEF InnerStep, Sync, RecordQueue, RecordBlock, Wakeup, B!Inside
<1>7. ASSUME NEW w \in Worker, LeaveStep(w) PROVE B!Unlock(w)
  BY <1>7 DEF LeaveStep, Synced, Recorded
<1>8. CASE Expire
  BY <1>8 DEF Expire
<1> HIDE DEF barrier, B!vars
<1> QED
  BY NextCases, <1>1, <1>2, <1>3, <1>4, <1>5, <1>6, <1>7, <1>8
     DEF B!Next, barrier, B!vars

LEMMA InitBase == Init => BaseInv
<1> SUFFICES ASSUME Init PROVE BaseInv
  OBVIOUS
<1>1. BarrierOK
  BY BarrierInit DEF Init
<1>2. TypeOK
  <2>1. flag \in BOOLEAN /\ expired \in BOOLEAN
    BY DEF Init
  <2>2. late \in [Worker -> BOOLEAN]
    BY DEF Init
  <2>3. wpc \in [Worker -> WorkerPc] /\ proc \in [Proc -> ProcState]
    BY DEF Init, WorkerPc, ProcState
  <2>4. samples \in Nat /\ recorded \in [Worker -> Nat] /\ calls \in [Worker -> Nat]
    BY DEF Init
  <2>5. cursor \in 0..P
    BY PType DEF Init
  <2>6. parent \in {"fork", "wait", "done", "failed"}
    BY DEF Init
  <2> QED
    BY <1>1, <2>1, <2>2, <2>3, <2>4, <2>5, <2>6 DEF TypeOK, BarrierOK
<1>3. BarrierPc
  BY DEF Init, B!Init, BarrierPc
<1>4. SystemInv
  BY WorkerName DEF Init, SystemInv
<1> QED
  BY <1>1, <1>2, <1>3, <1>4 DEF BaseInv, BarrierOK

LEMMA NextBarrier == BaseInv /\ [Next]_vars => BarrierOK'
  BY StepBarrier, BarrierNext DEF BaseInv, TypeOK, BarrierOK

LEMMA NextTyped == BaseInv /\ [Next]_vars => TypeOK'
<1> SUFFICES ASSUME BaseInv, [Next]_vars PROVE TypeOK'
  OBVIOUS
<1> DEFINE Typed ==
      /\ flag \in BOOLEAN /\ expired \in BOOLEAN /\ samples \in Nat
      /\ wpc \in [Worker -> WorkerPc]
      /\ late \in [Worker -> BOOLEAN]
      /\ recorded \in [Worker -> Nat] /\ calls \in [Worker -> Nat]
      /\ proc \in [Proc -> ProcState]
      /\ parent \in {"fork", "wait", "done", "failed"}
      /\ cursor \in 0..P
<1>1. Typed
  BY DEF BaseInv, TypeOK
<1>2. SUFFICES Typed'
  BY NextBarrier DEF TypeOK, BarrierOK
<1> USE PType DEF run, worker, system, WorkerPc, Callback, ProcState
<1>3. CASE UNCHANGED vars
  BY <1>1, <1>3 DEF vars
<1>4. CASE ParentStep
  <2>1. CASE Fork
    <3>1. cursor \in Proc /\ cursor' \in 0..P
      BY <1>1, <2>1 DEF Fork, Proc
    <3> QED
      BY <1>1, <2>1, <3>1, WorkerName DEF Fork
  <2>2. CASE ForkFails
    BY <1>1, <2>2 DEF ForkFails
  <2>3. CASE StartWaiting
    BY <1>1, <2>3 DEF StartWaiting
  <2>4. CASE Wait
    BY <1>1, <2>4 DEF Wait
  <2>5. CASE Report
    BY <1>1, <2>5 DEF Report
  <2> QED
    BY <1>4, <2>1, <2>2, <2>3, <2>4, <2>5 DEF ParentStep
<1>5. ASSUME NEW p \in Proc, ProcessStep(p) PROVE Typed'
  <2>1. CASE StartMain(p)
    BY <1>1, <2>1, WorkerName DEF StartMain
  <2>2. CASE Exit(p)
    BY <1>1, <2>2 DEF Exit
  <2>3. ASSUME NEW i \in Thread, CreateThread(p, i) PROVE Typed'
    BY <1>1, <2>3, WorkerName DEF CreateThread
  <2> QED
    BY <1>5, <2>1, <2>2, <2>3 DEF ProcessStep
<1>6. ASSUME NEW w \in Worker, Fail(w) PROVE Typed'
  BY <1>1, <1>6, WorkerName DEF Fail
<1>7. ASSUME NEW w \in Worker, OuterStep(w) PROVE Typed'
  BY <1>1, <1>7 DEF OuterStep, InitWorker, TestFlag, Benchmark, Post,
     FiniWorker, Goto
<1>8. ASSUME NEW w \in Worker, CallStep(w) PROVE Typed'
  BY <1>1, <1>8 DEF CallStep, Pre, Check, Clear, Goto
<1>9. ASSUME NEW w \in Worker, InnerStep(w) PROVE Typed'
  BY <1>1, <1>9 DEF InnerStep, Sync, RecordQueue, RecordBlock, Wakeup,
     AddSample
<1>10. ASSUME NEW w \in Worker, LeaveStep(w) PROVE Typed'
  BY <1>1, <1>10 DEF LeaveStep, Synced, Recorded, Goto
<1>11. CASE Expire
  BY <1>1, <1>11 DEF Expire
<1> QED
  BY NextCases, <1>3, <1>4, <1>5, <1>6, <1>7, <1>8, <1>9, <1>10, <1>11

LEMMA NextBarrierPc == BaseInv /\ [Next]_vars => BarrierPc'
<1> SUFFICES ASSUME BaseInv, [Next]_vars PROVE BarrierPc'
  OBVIOUS
<1>1. /\ BarrierPc /\ SystemInv
      /\ bpc \in [Worker -> B!Place] /\ wpc \in [Worker -> WorkerPc]
  BY DEF BaseInv, TypeOK, B!TypeOK
<1> USE DEF BarrierPc, barrier, run, worker, system
<1>2. CASE UNCHANGED vars
  BY <1>1, <1>2 DEF vars
<1>3. CASE ParentStep
  <2>1. CASE Fork
    <3>1. cursor \in Proc /\ proc[cursor] = "unborn"
      BY <1>1, <2>1, PType DEF Fork, Proc, SystemInv, BaseInv, TypeOK
    <3>2. wpc[Main(cursor)] = "unborn"
      BY <1>1, <3>1, WorkerName DEF SystemInv
    <3> QED
      BY <1>1, <2>1, <3>1, <3>2, WorkerName DEF Fork
  <2> QED
    BY <1>1, <1>3, <2>1 DEF ParentStep, ForkFails, StartWaiting, Wait, Report
<1>4. ASSUME NEW p \in Proc, ProcessStep(p) PROVE BarrierPc'
  <2>1. CASE StartMain(p)
    BY <1>1, <2>1, WorkerName DEF StartMain
  <2>2. CASE Exit(p)
    BY <1>1, <2>2 DEF Exit
  <2>3. ASSUME NEW i \in Thread, CreateThread(p, i) PROVE BarrierPc'
    BY <1>1, <2>3, WorkerName DEF CreateThread, Created
  <2> QED
    BY <1>4, <2>1, <2>2, <2>3 DEF ProcessStep
<1>5. ASSUME NEW w \in Worker, Fail(w) \/ OuterStep(w) PROVE BarrierPc'
  BY <1>1, <1>5 DEF Fail, OuterStep, InitWorker, TestFlag, Benchmark, Post,
     FiniWorker, Goto
<1>6. ASSUME NEW w \in Worker, CallStep(w) PROVE BarrierPc'
  BY <1>1, <1>6 DEF CallStep, Pre, Check, Clear, Goto, B!Call
<1>7. ASSUME NEW w \in Worker, InnerStep(w) PROVE BarrierPc'
  BY <1>1, <1>7 DEF InnerStep, Sync, RecordQueue, RecordBlock, Wakeup,
     B!Inside, B!Lock, B!Queue, B!QueueWait, B!QueueOpen, B!Woken, B!Relock,
     B!Spurious
<1>8. ASSUME NEW w \in Worker, LeaveStep(w) PROVE BarrierPc'
  BY <1>1, <1>8 DEF LeaveStep, Synced, Recorded, Goto, B!Unlock
<1>9. CASE Expire
  BY <1>1, <1>9 DEF Expire
<1> QED
  BY NextCases, <1>2, <1>3, <1>4, <1>5, <1>6, <1>7, <1>8, <1>9

LEMMA NextSystem == BaseInv /\ [Next]_vars => SystemInv'
<1> SUFFICES ASSUME BaseInv, [Next]_vars PROVE SystemInv'
  OBVIOUS
<1>1. /\ SystemInv /\ cursor \in 0..P
      /\ wpc \in [Worker -> WorkerPc] /\ proc \in [Proc -> ProcState]
  BY DEF BaseInv, TypeOK
<1> USE PType DEF SystemInv, barrier, run, worker, system
<1>2. CASE UNCHANGED vars
  BY <1>1, <1>2 DEF vars
<1>3. CASE ParentStep
  <2>1. CASE Fork
    <3>1. cursor \in Proc /\ proc[cursor] = "unborn"
      BY <1>1, <2>1 DEF Fork, Proc
    <3>2. \A p \in Proc : p >= cursor' => proc'[p] = "unborn"
      BY <1>1, <2>1, <3>1 DEF Fork, Proc
    <3>3. \A w \in Worker :
             /\ proc'[w[1]] = "unborn" => wpc'[w] = "unborn"
             /\ proc'[w[1]] = "exited" => wpc'[w] = "done"
      BY <1>1, <2>1, <3>1, WorkerName DEF Fork
    <3> QED
      BY <2>1, <3>2, <3>3 DEF Fork
  <2>2. CASE ForkFails
    BY <1>1, <2>2 DEF ForkFails
  <2>3. CASE StartWaiting
    BY <1>1, <2>3 DEF StartWaiting, Proc
  <2>4. CASE Wait
    BY <1>1, <2>4 DEF Wait, Proc
  <2>5. CASE Report
    BY <1>1, <2>5 DEF Report, Proc
  <2> QED
    BY <1>3, <2>1, <2>2, <2>3, <2>4, <2>5 DEF ParentStep
<1>4. ASSUME NEW p \in Proc, ProcessStep(p) PROVE SystemInv'
  <2>1. CASE StartMain(p)
    BY <1>1, <2>1, WorkerName DEF StartMain
  <2>2. CASE Exit(p)
    BY <1>1, <2>2, WorkerName DEF Exit
  <2>3. ASSUME NEW i \in Thread, CreateThread(p, i) PROVE SystemInv'
    BY <1>1, <2>3, WorkerName DEF CreateThread
  <2> QED
    BY <1>4, <2>1, <2>2, <2>3 DEF ProcessStep
<1>5. ASSUME NEW w \in Worker, Fail(w) PROVE SystemInv'
  BY <1>1, <1>5, WorkerName DEF Fail, Alive
<1>6. ASSUME NEW w \in Worker, OuterStep(w) PROVE SystemInv'
  BY <1>1, <1>6 DEF OuterStep, InitWorker, TestFlag, Benchmark, Post,
     FiniWorker, Goto
<1>7. ASSUME NEW w \in Worker, CallStep(w) PROVE SystemInv'
  BY <1>1, <1>7 DEF CallStep, Pre, Check, Clear, Goto
<1>8. ASSUME NEW w \in Worker, InnerStep(w) PROVE SystemInv'
  BY <1>1, <1>8 DEF InnerStep, Sync, RecordQueue, RecordBlock, Wakeup
<1>9. ASSUME NEW w \in Worker, LeaveStep(w) PROVE SystemInv'
  BY <1>1, <1>9 DEF LeaveStep, Synced, Recorded, Goto
<1>10. CASE Expire
  BY <1>1, <1>10 DEF Expire
<1> QED
  BY NextCases, <1>2, <1>3, <1>4, <1>5, <1>6, <1>7, <1>8, <1>9, <1>10

LEMMA NextBase == BaseInv /\ [Next]_vars => BaseInv'
  BY NextBarrier, NextTyped, NextBarrierPc, NextSystem DEF BaseInv, BarrierOK

(***************************************************************************)
(* Every variable of the harness keeps its type, for every -P, -T and -C.  *)
(***************************************************************************)
THEOREM HarnessType == Spec => []TypeOK
<1>1. Init => BaseInv
  BY InitBase
<1>2. BaseInv /\ [Next]_vars => BaseInv'
  BY NextBase
<1>3. BaseInv => TypeOK
  BY DEF BaseInv
<1> QED
  BY <1>1, <1>2, <1>3, PTL DEF Spec

------------------------------------------------------------------------------
(***************************************************************************)
(* The workers go through their rounds in lock-step (module Rounds), and   *)
(* nothing disturbs the timed part.                                        *)
(***************************************************************************)

(***************************************************************************)
(* What a step does to the stages.                                         *)
(***************************************************************************)
Others(w) == Worker \ {w}

\* The stage stays; the worker enters a round only if ba_flag lets it.
Steady(u) ==
  /\ StageOf(u)' = StageOf(u)
  /\ wpc'[u] \in {"pre", "sync"} => wpc[u] \in {"pre", "sync"} \/ flag

\* Only w changes its stage.
Moves(w, from, to) ==
  /\ StageOf(w) = from /\ StageOf(w)' = to
  /\ \A u \in Others(w) : Steady(u)

\* w opens the barrier, and those who wait there are let go.
LetGo(u) ==
  /\ wpc'[u] = wpc[u]
  /\ \/ StageOf(u) = "ready" /\ StageOf(u)' = "timed"
     \/ StageOf(u) = "measured" /\ StageOf(u)' = "between" /\ wpc[u] = "record"

StageStep ==
  \/ (\A u \in Worker : Steady(u)) /\ UNCHANGED flag
  \/ \E w \in Worker : Clear(w) /\ \A u \in Worker : Steady(u)
  \/ \E w \in Worker :
       TestFlag(w) /\ ~flag /\ UNCHANGED flag /\ Moves(w, "between", "stopped")
  \/ \E w \in Worker :
       Sync(w) /\ B!QueueWait(w) /\ UNCHANGED flag /\ Moves(w, "between", "ready")
  \/ \E w \in Worker :
       /\ Sync(w) /\ B!QueueOpen(w) /\ UNCHANGED flag
       /\ StageOf(w) = "between" /\ StageOf(w)' = "timed"
       /\ \A u \in Others(w) : LetGo(u)
  \/ \E w \in Worker :
       RecordQueue(w) /\ B!QueueWait(w) /\ Moves(w, "timed", "measured")
  \/ \E w \in Worker :
       /\ RecordQueue(w) /\ B!QueueOpen(w) /\ wpc'[w] = "record"
       /\ StageOf(w) = "timed" /\ StageOf(w)' = "between"
       /\ \A u \in Others(w) : LetGo(u)

\* StageOf, read off the variables.
StageFromPc(w) ==
  IF wpc[w] \in {"fini", "done"} THEN "stopped"
  ELSE IF wpc[w] \in {"bench", "check", "clear"} THEN "timed"
  ELSE IF wpc[w] = "sync" THEN
    IF bpc[w] = "unlock" THEN "timed"
    ELSE IF bpc[w] \notin {"wait", "relock"} THEN "between"
    ELSE IF seen[w] = phase THEN "ready" ELSE "timed"
  ELSE IF wpc[w] = "record" THEN
    IF bpc[w] = "unlock" THEN "between"
    ELSE IF bpc[w] \notin {"wait", "relock"} THEN "timed"
    ELSE IF seen[w] = phase THEN "measured" ELSE "between"
  ELSE "between"

LEMMA StageDef == \A w \in Worker : StageOf(w) = StageFromPc(w)
<1> SUFFICES ASSUME NEW w \in Worker PROVE StageOf(w) = StageFromPc(w)
  OBVIOUS
<1> USE DEF StageFromPc, StageOf, B!Arrived, B!Released, B!InWait
<1>1. CASE wpc[w] \in {"fini", "done"}
  BY <1>1
<1>2. CASE wpc[w] \in {"bench", "check", "clear"}
  BY <1>2
<1>3. CASE wpc[w] = "sync"
  BY <1>3
<1>4. CASE wpc[w] = "record"
  BY <1>4
<1>5. CASE wpc[w] \notin {"fini", "done", "bench", "check", "clear", "sync",
                          "record"}
  BY <1>5
<1> QED
  BY <1>1, <1>2, <1>3, <1>4, <1>5

LEMMA StageDefPrimed ==
  \A w \in Worker : StageOf(w)' = StageFromPc(w)'
<1>1. (\A w \in Worker : StageOf(w) = StageFromPc(w))'
  BY StageDef, PTL
<1> QED
  BY <1>1

\* Steps outside the barrier, into it and out of it, and the wakeups.
LEMMA SteadySteps ==
  ASSUME BaseInv, NEW w \in Worker,
         \/ InitWorker(w) \/ (TestFlag(w) /\ flag) \/ Benchmark(w) \/ Post(w)
         \/ FiniWorker(w) \/ CallStep(w) \/ LeaveStep(w)
         \/ (Sync(w) /\ ~B!Queue(w)) \/ RecordBlock(w) \/ Wakeup(w)
  PROVE  \A u \in Worker : Steady(u)
<1> SUFFICES ASSUME NEW u \in Worker PROVE Steady(u)
  OBVIOUS
<1>1. /\ BarrierPc /\ B!MutexInv
      /\ bpc \in [Worker -> B!Place] /\ wpc \in [Worker -> WorkerPc]
      /\ StageOf(u) = StageFromPc(u) /\ StageOf(u)' = StageFromPc(u)'
  BY StageDef, StageDefPrimed DEF BaseInv, TypeOK, B!TypeOK
<1> USE <1>1 DEF Steady, StageFromPc, barrier, BarrierPc, Goto
<1>2. CASE InitWorker(w)
  BY <1>2 DEF InitWorker
<1>3. CASE TestFlag(w) /\ flag
  BY <1>3 DEF TestFlag
<1>4. CASE Benchmark(w)
  BY <1>4 DEF Benchmark
<1>5. CASE Post(w)
  BY <1>5 DEF Post
<1>6. CASE FiniWorker(w)
  BY <1>6 DEF FiniWorker
<1>7. CASE Pre(w)
  BY <1>7 DEF Pre, B!Call
<1>8. CASE Check(w)
  BY <1>8 DEF Check, B!Call
<1>9. CASE Clear(w)
  BY <1>9 DEF Clear, B!Call
<1>10. CASE Synced(w)
  BY <1>10 DEF Synced, B!Unlock
<1>11. CASE Recorded(w)
  BY <1>11 DEF Recorded, B!Unlock
<1>12. CASE Sync(w) /\ ~B!Queue(w)
  BY <1>12 DEF Sync, B!Inside, B!Lock, B!Relock, worker
<1>13. CASE RecordBlock(w)
  BY <1>13 DEF RecordBlock, B!Lock, B!Relock, worker
<1>14. CASE Wakeup(w)
  BY <1>14 DEF Wakeup, B!Spurious, worker
<1> QED
  BY <1>2, <1>3, <1>4, <1>5, <1>6, <1>7, <1>8, <1>9, <1>10, <1>11, <1>12,
     <1>13, <1>14 DEF CallStep, LeaveStep

\* The parent and the main threads of the processes.
LEMMA SystemSteps ==
  ASSUME BaseInv,
         \/ UNCHANGED vars \/ ParentStep \/ Expire
         \/ \E p \in Proc : ProcessStep(p)
         \/ \E w \in Worker : Fail(w)
  PROVE  \A u \in Worker : Steady(u)
<1> SUFFICES ASSUME NEW u \in Worker PROVE Steady(u)
  OBVIOUS
<1>1. /\ SystemInv /\ wpc \in [Worker -> WorkerPc] /\ cursor \in 0..P
      /\ StageOf(u) = StageFromPc(u) /\ StageOf(u)' = StageFromPc(u)'
  BY StageDef, StageDefPrimed DEF BaseInv, TypeOK
<1> USE <1>1 DEF Steady, StageFromPc, barrier, worker
<1>2. CASE UNCHANGED vars
  BY <1>2 DEF vars
<1>3. CASE ParentStep
  <2>1. CASE Fork
    <3>1. cursor \in Proc /\ proc[cursor] = "unborn"
      BY <2>1, PType DEF Fork, Proc, SystemInv
    <3>2. wpc[Main(cursor)] = "unborn"
      BY <3>1, WorkerName DEF SystemInv
    <3> QED
      BY <2>1, <3>1, <3>2, WorkerName DEF Fork
  <2> QED
    BY <1>3, <2>1 DEF ParentStep, ForkFails, StartWaiting, Wait, Report
<1>4. CASE Expire
  BY <1>4 DEF Expire
<1>5. ASSUME NEW p \in Proc, ProcessStep(p) PROVE Steady(u)
  <2>1. CASE StartMain(p)
    BY <2>1, WorkerName DEF StartMain
  <2>2. CASE Exit(p)
    BY <2>2 DEF Exit
  <2>3. ASSUME NEW i \in Thread, CreateThread(p, i) PROVE Steady(u)
    BY <2>3, WorkerName DEF CreateThread, Created
  <2> QED
    BY <1>5, <2>1, <2>2, <2>3 DEF ProcessStep
<1>6. ASSUME NEW w \in Worker, Fail(w) PROVE Steady(u)
  BY <1>6 DEF Fail
<1> QED
  BY <1>2, <1>3, <1>4, <1>5, <1>6

\* The arrival that is not the last one.
LEMMA WaitStage ==
  ASSUME BaseInv, NEW w \in Worker, B!QueueWait(w), UNCHANGED wpc
  PROVE  \/ wpc[w] = "sync" /\ Moves(w, "between", "ready")
         \/ wpc[w] = "record" /\ Moves(w, "timed", "measured")
<1>1. /\ BarrierPc
      /\ bpc \in [Worker -> B!Place] /\ wpc \in [Worker -> WorkerPc]
      /\ seen \in [Worker -> 0..(PhaseMod - 1)]
  BY DEF BaseInv, TypeOK, B!TypeOK
<1>2. wpc[w] \in {"sync", "record"}
  BY <1>1 DEF B!QueueWait, BarrierPc
<1>3. \A u \in Worker : StageOf(u) = StageFromPc(u)
                        /\ StageOf(u)' = StageFromPc(u)'
  BY StageDef, StageDefPrimed
<1>4. ASSUME NEW u \in Others(w) PROVE Steady(u)
  BY <1>1, <1>3 DEF Steady, Others, StageFromPc, B!QueueWait
<1>5. CASE wpc[w] = "sync"
  BY <1>1, <1>3, <1>4, <1>5 DEF Moves, StageFromPc, B!QueueWait
<1>6. CASE wpc[w] = "record"
  BY <1>1, <1>3, <1>4, <1>6 DEF Moves, StageFromPc, B!QueueWait
<1> QED
  BY <1>2, <1>5, <1>6

\* The last arrival finds all the others waiting in the current phase.
LEMMA LastQueue ==
  ASSUME BaseInv, NEW w \in Worker, B!QueueOpen(w)
  PROVE  \A u \in Others(w) : u \in B!Arrived
<1>1. B!Arrived = Proved!Arrived /\ w \notin B!Arrived
  BY DEF B!Arrived, Proved!Arrived, B!InWait, Proved!InWait, B!QueueOpen
<1>2. Proved!CountExact /\ waiters + 1 = P * OptT
  BY SameState DEF BaseInv, Proved!CountInv, B!QueueOpen
<1>3. Proved!Arrived \cup {w} = Worker
  BY <1>1, <1>2, Proved!LastArrival, WorkersFull, BarrierFacts
     DEF Proved!IsFiniteSet, IsFiniteSet
<1> QED
  BY <1>1, <1>3 DEF Others

LEMMA OpenStage ==
  ASSUME BaseInv, NEW w \in Worker, B!QueueOpen(w), UNCHANGED wpc
  PROVE  /\ \A u \in Others(w) : LetGo(u)
         /\ \/ /\ wpc[w] = "sync"
               /\ StageOf(w) = "between" /\ StageOf(w)' = "timed"
            \/ /\ wpc[w] = "record"
               /\ StageOf(w) = "timed" /\ StageOf(w)' = "between"
<1>1. /\ BarrierPc /\ phase \in 0..(PhaseMod - 1)
      /\ bpc \in [Worker -> B!Place] /\ wpc \in [Worker -> WorkerPc]
      /\ seen \in [Worker -> 0..(PhaseMod - 1)]
  BY DEF BaseInv, TypeOK, B!TypeOK
<1>2. wpc[w] \in {"sync", "record"}
  BY <1>1 DEF B!QueueOpen, BarrierPc
<1>3. \A u \in Worker : StageOf(u) = StageFromPc(u)
                        /\ StageOf(u)' = StageFromPc(u)'
  BY StageDef, StageDefPrimed
<1>4. phase' # phase
  BY <1>1, BarrierFacts DEF B!QueueOpen, B!NextPhase
<1>5. ASSUME NEW u \in Others(w) PROVE LetGo(u)
  <2>1. u \in Worker /\ u # w /\ bpc[u] \in {"wait", "relock"} /\ seen[u] = phase
    BY LastQueue DEF Others, B!Arrived, B!InWait
  <2>2. wpc[u] \in {"sync", "record"}
    BY <1>1, <2>1 DEF BarrierPc
  <2>3. bpc'[u] = "relock" /\ seen'[u] = phase
    BY <1>1, <2>1 DEF B!QueueOpen, B!Woken
  <2>4. StageOf(u) = IF wpc[u] = "sync" THEN "ready" ELSE "measured"
    BY <1>3, <2>1, <2>2 DEF StageFromPc
  <2>5. StageOf(u)' = IF wpc[u] = "sync" THEN "timed" ELSE "between"
    BY <1>3, <1>4, <2>1, <2>2, <2>3 DEF StageFromPc
  <2> QED
    BY <2>2, <2>4, <2>5 DEF LetGo
<1>6. bpc[w] = "body" /\ bpc'[w] = "unlock"
  BY <1>1 DEF B!QueueOpen
<1>7. CASE wpc[w] = "sync"
  BY <1>3, <1>5, <1>6, <1>7 DEF StageFromPc
<1>8. CASE wpc[w] = "record"
  BY <1>3, <1>5, <1>6, <1>8 DEF StageFromPc
<1> QED
  BY <1>2, <1>7, <1>8

LEMMA NextStage == BaseInv /\ [Next]_vars => StageStep
<1> SUFFICES ASSUME BaseInv, [Next]_vars PROVE StageStep
  OBVIOUS
<1>1. CASE UNCHANGED vars \/ ParentStep \/ Expire \/ \E p \in Proc : ProcessStep(p)
  <2>1. UNCHANGED flag
    BY <1>1 DEF vars, run, ParentStep, Fork, ForkFails, StartWaiting, Wait,
       Report, Expire, ProcessStep, StartMain, Exit, CreateThread
  <2> QED
    BY <1>1, <2>1, SystemSteps DEF StageStep
<1>2. ASSUME NEW w \in Worker, Fail(w) PROVE StageStep
  <2>1. UNCHANGED flag
    BY <1>2 DEF Fail, run
  <2> QED
    BY <1>2, <2>1, SystemSteps DEF StageStep
<1>3. ASSUME NEW w \in Worker,
             \/ InitWorker(w) \/ (TestFlag(w) /\ flag) \/ Benchmark(w) \/ Post(w)
             \/ FiniWorker(w) \/ Pre(w) \/ Check(w) \/ LeaveStep(w)
             \/ (Sync(w) /\ ~B!Queue(w)) \/ RecordBlock(w) \/ Wakeup(w)
      PROVE  StageStep
  <2>1. UNCHANGED flag
    BY <1>3 DEF run, InitWorker, TestFlag, Benchmark, Post, FiniWorker, Pre,
       Check, LeaveStep, Synced, Recorded, Sync, RecordBlock, Wakeup
  <2> QED
    BY <1>3, <2>1, SteadySteps DEF StageStep, CallStep
<1>4. ASSUME NEW w \in Worker, Clear(w) PROVE StageStep
  BY <1>4, SteadySteps DEF StageStep, CallStep
<1>5. ASSUME NEW w \in Worker, TestFlag(w), ~flag PROVE StageStep
  <2>1. \A u \in Worker : StageOf(u) = StageFromPc(u)
                          /\ StageOf(u)' = StageFromPc(u)'
    BY StageDef, StageDefPrimed
  <2>2. Moves(w, "between", "stopped") /\ UNCHANGED flag
    BY <1>5, <2>1 DEF BaseInv, TypeOK, Moves, Others, Steady, StageFromPc,
       TestFlag, Goto, barrier, run
  <2> QED
    BY <1>5, <2>2 DEF StageStep
<1>6. ASSUME NEW w \in Worker, Sync(w), B!Queue(w) PROVE StageStep
  <2>1. wpc[w] = "sync" /\ UNCHANGED <<flag, wpc>>
    BY <1>6 DEF Sync, worker, run
  <2> QED
    BY <1>6, <2>1, WaitStage, OpenStage DEF B!Queue, StageStep
<1>7. ASSUME NEW w \in Worker, RecordQueue(w) PROVE StageStep
  <2>1. wpc[w] = "record" /\ UNCHANGED <<flag, wpc>> /\ B!Queue(w)
    BY <1>7 DEF RecordQueue
  <2> QED
    BY <1>7, <2>1, WaitStage, OpenStage DEF B!Queue, StageStep
<1> QED
  BY NextCases, <1>1, <1>2, <1>3, <1>4, <1>5, <1>6, <1>7
     DEF OuterStep, CallStep, InnerStep

(***************************************************************************)
(* The invariant: the workers are all outside the timed part or all in it, *)
(* a worker that goes for another round has the permission of ba_flag, and *)
(* one that left the loop has been denied it.                              *)
(***************************************************************************)
Untimed == \A w \in Worker : StageOf(w) \in {"between", "ready", "stopped"}
Timed   == \A w \in Worker : StageOf(w) \in {"timed", "measured"}

Permitted(w) ==
  /\ StageOf(w) \in {"between", "ready"} /\ wpc[w] \in {"pre", "sync"} => flag
  /\ StageOf(w) = "stopped" => ~flag

StageInv == (Untimed \/ Timed) /\ \A w \in Worker : Permitted(w)

LEMMA InitStage == Init => StageInv
  BY StageDef DEF Init, StageFromPc, StageInv, Untimed, Permitted

LEMMA NextStageInv == BaseInv /\ StageInv /\ [Next]_vars => StageInv'
<1> SUFFICES ASSUME BaseInv, StageInv, StageStep PROVE StageInv'
  BY NextStage
<1> USE DEF StageInv, Untimed, Timed, Permitted, Others
<1>1. CASE (\A u \in Worker : Steady(u)) /\ UNCHANGED flag
  BY <1>1 DEF Steady
<1>2. ASSUME NEW w \in Worker, Clear(w), \A u \in Worker : Steady(u)
      PROVE  StageInv'
  <2>1. StageOf(w) = "timed"
    BY <1>2, StageDef DEF Clear, StageFromPc
  <2>2. Timed
    BY <2>1
  <2> QED
    BY <1>2, <2>2 DEF Steady
<1>3. ASSUME NEW w \in Worker, ~flag, UNCHANGED flag,
             Moves(w, "between", "stopped")
      PROVE  StageInv'
  BY <1>3 DEF Moves, Steady
<1>4. ASSUME NEW w \in Worker, Sync(w), UNCHANGED flag,
             Moves(w, "between", "ready")
      PROVE  StageInv'
  <2>1. flag
    BY <1>4 DEF Moves, Sync
  <2> QED
    BY <1>4, <2>1 DEF Moves, Steady
<1>5. ASSUME NEW w \in Worker, StageOf(w) = "between", StageOf(w)' = "timed",
             \A u \in Others(w) : LetGo(u)
      PROVE  StageInv'
  <2>1. Timed'
    BY <1>5 DEF LetGo
  <2> QED
    BY <2>1
<1>6. ASSUME NEW w \in Worker, RecordQueue(w), Moves(w, "timed", "measured")
      PROVE  StageInv'
  BY <1>6 DEF Moves, Steady, RecordQueue
<1>7. ASSUME NEW w \in Worker, wpc'[w] = "record",
             StageOf(w) = "timed", StageOf(w)' = "between",
             \A u \in Others(w) : LetGo(u)
      PROVE  StageInv'
  <2>1. \A u \in Worker : StageOf(u)' = "between" /\ wpc'[u] = "record"
    BY <1>7 DEF LetGo
  <2> QED
    BY <2>1
<1> QED
  BY <1>1, <1>2, <1>3, <1>4, <1>5, <1>6, <1>7 DEF StageStep

LEMMA StageInvariant == Spec => [](BaseInv /\ StageInv)
<1>1. Init => BaseInv /\ StageInv
  BY InitBase, InitStage
<1>2. BaseInv /\ StageInv /\ [Next]_vars => (BaseInv /\ StageInv)'
  BY NextBase, NextStageInv
<1> QED
  BY <1>1, <1>2, PTL DEF Spec

(***************************************************************************)
(* While a worker may be inside benchmark, every other one has been let go *)
(* by the first barrier and not yet by the second: benchmark_pre and       *)
(* benchmark_post of no worker overlap a timed part, for any number of     *)
(* processes and threads and whoever of them fails.                        *)
(***************************************************************************)
THEOREM HarnessTiming == Spec => []TimingAlone
<1>1. BaseInv /\ StageInv => TimingAlone
  <2> SUFFICES ASSUME BaseInv, StageInv, NEW v \in Worker, NEW w \in Worker,
                      wpc[v] = "bench"
               PROVE  \/ wpc[w] \in {"bench", "check", "clear"}
                      \/ wpc[w] = "sync" /\ w \in B!Released
                      \/ wpc[w] = "record" /\ w \notin B!Released
    BY DEF TimingAlone
  <2>1. StageOf(v) = "timed"
    BY StageDef DEF StageFromPc
  <2>2. StageFromPc(w) \in {"timed", "measured"}
    BY <2>1, StageDef DEF StageInv, Untimed, Timed
  <2> QED
    BY <2>2 DEF StageFromPc, B!Released, B!InWait
<1> QED
  BY <1>1, StageInvariant, PTL

(***************************************************************************)
(* Lock-step rounds.                                                       *)
(***************************************************************************)
\* An arrival that is not the last one leaves somebody out.
LEMMA EarlyQueue ==
  ASSUME BaseInv, NEW w \in Worker, B!QueueWait(w)
  PROVE  \E u \in Others(w) : u \notin B!Arrived
<1> SUFFICES ASSUME \A u \in Others(w) : u \in B!Arrived PROVE FALSE
  OBVIOUS
<1>1. B!Arrived = Worker \ {w}
  BY DEF Others, B!Arrived, B!InWait, B!QueueWait
<1>2. Cardinality(Worker \ {w}) = P * OptT - 1
  BY WorkersCounted, FS_RemoveElement
<1>3. waiters = Cardinality(B!Arrived)
  <2>1. waiters = B!Cardinality(B!Arrived)
    BY DEF BaseInv, B!CountInv, B!CountExact
  <2> QED
    BY <2>1 DEF B!Cardinality, Cardinality
<1> QED
  BY <1>1, <1>2, <1>3, WorkersCounted DEF B!QueueWait

LEMMA RefineStep == BaseInv /\ StageInv /\ [Next]_vars => [Lockstep!Next]_(Lockstep!vars)
<1> SUFFICES ASSUME BaseInv, StageInv, [Next]_vars
             PROVE  [Lockstep!Next]_(Lockstep!vars)
  OBVIOUS
<1> DEFINE stage == [w \in Worker |-> StageOf(w)]
<1>1. CASE (\A u \in Worker : Steady(u)) /\ UNCHANGED flag
  BY <1>1 DEF Steady, Lockstep!vars
<1>2. ASSUME NEW w \in Worker, Clear(w), \A u \in Worker : Steady(u)
      PROVE  Lockstep!Halt(w)
  <2>1. StageOf(w) = "timed"
    BY <1>2, StageDef DEF Clear, StageFromPc
  <2> QED
    BY <1>2, <2>1 DEF Steady, Clear, Lockstep!Halt
<1>3. ASSUME NEW w \in Worker, ~flag, UNCHANGED flag,
             Moves(w, "between", "stopped")
      PROVE  Lockstep!Stop(w)
  BY <1>3 DEF Moves, Steady, Others, Lockstep!Stop
<1>4. ASSUME NEW w \in Worker, Sync(w), B!QueueWait(w), UNCHANGED flag,
             Moves(w, "between", "ready")
      PROVE  Lockstep!FinishPre(w)
  <2>1. flag
    BY <1>4 DEF Moves, Sync, StageInv, Permitted
  <2>2. PICK u \in Worker \ {w} : u \notin B!Arrived
    BY <1>4, EarlyQueue DEF Others
  <2>3. StageOf(u) # "ready"
    BY <2>2, StageDef DEF StageFromPc, B!Arrived, B!InWait
  <2>4. stage' = [stage EXCEPT ![w] = "ready"] /\ stage[w] = "between"
    BY <1>4 DEF Moves, Steady, Others
  <2> QED
    BY <1>4, <2>1, <2>2, <2>3, <2>4 DEF Lockstep!FinishPre, Lockstep!OthersAre
<1>5. ASSUME NEW w \in Worker, Sync(w), UNCHANGED flag,
             StageOf(w) = "between", StageOf(w)' = "timed",
             \A u \in Others(w) : LetGo(u)
      PROVE  Lockstep!FinishPre(w)
  <2>1. flag
    BY <1>5 DEF Sync, StageInv, Permitted
  <2>2. \A u \in Worker \ {w} : StageOf(u) = "ready" /\ StageOf(u)' = "timed"
    BY <1>5 DEF LetGo, Others, StageInv, Untimed, Timed
  <2>3. stage' = [v \in Worker |-> "timed"] /\ stage[w] = "between"
    BY <1>5, <2>2
  <2> QED
    BY <1>5, <2>1, <2>2, <2>3 DEF Lockstep!FinishPre, Lockstep!OthersAre
<1>6. ASSUME NEW w \in Worker, RecordQueue(w), B!QueueWait(w),
             Moves(w, "timed", "measured")
      PROVE  Lockstep!FinishBenchmark(w)
  <2>1. PICK u \in Worker \ {w} : u \notin B!Arrived
    BY <1>6, EarlyQueue DEF Others
  <2>2. StageOf(u) # "measured"
    BY <2>1, StageDef DEF StageFromPc, B!Arrived, B!InWait
  <2>3. stage' = [stage EXCEPT ![w] = "measured"] /\ stage[w] = "timed"
    BY <1>6 DEF Moves, Steady, Others
  <2> QED
    BY <1>6, <2>1, <2>2, <2>3
       DEF RecordQueue, Lockstep!FinishBenchmark, Lockstep!OthersAre
<1>7. ASSUME NEW w \in Worker, RecordQueue(w),
             StageOf(w) = "timed", StageOf(w)' = "between",
             \A u \in Others(w) : LetGo(u)
      PROVE  Lockstep!FinishBenchmark(w)
  <2>1. \A u \in Worker \ {w} : StageOf(u) = "measured" /\ StageOf(u)' = "between"
    BY <1>7 DEF LetGo, Others, StageInv, Untimed, Timed
  <2>2. stage' = [v \in Worker |-> "between"] /\ stage[w] = "timed"
    BY <1>7, <2>1
  <2> QED
    BY <1>7, <2>1, <2>2
       DEF RecordQueue, Lockstep!FinishBenchmark, Lockstep!OthersAre
<1> QED
  BY NextStage, <1>1, <1>2, <1>3, <1>4, <1>5, <1>6, <1>7
     DEF StageStep, Lockstep!Next

(***************************************************************************)
(* The harness implements Rounds: benchmark_pre is over for every worker   *)
(* before benchmark starts for any, benchmark is over for every worker     *)
(* before benchmark_post starts for any, and they agree on the last round. *)
(***************************************************************************)
THEOREM HarnessRefinement == Spec => ImplementsRounds
<1>1. Init => Lockstep!Init
  BY StageDef DEF Init, StageFromPc, Lockstep!Init
<1>2. BaseInv /\ StageInv /\ [Next]_vars => [Lockstep!Next]_(Lockstep!vars)
  BY RefineStep
<1> QED
  BY <1>1, <1>2, StageInvariant, PTL DEF Spec, ImplementsRounds, Lockstep!Spec
------------------------------------------------------------------------------
(***************************************************************************)
(* Proofs about what Harness records: the samples fit the room made for    *)
(* them, the workers contribute alike, nothing late is recorded and a      *)
(* report is about a complete run.                                         *)
(***************************************************************************)

(***************************************************************************)
(* The invariant: some number k of rounds is recorded by everybody, and    *)
(* the workers of the set Ahead have recorded the current one as well.     *)
(***************************************************************************)
Ahead(k) == {w \in Worker : recorded[w] = k + 1}

InUntimed(w) == StageOf(w) \in {"between", "ready", "stopped"}
InTimed(w)   == StageOf(w) \in {"timed", "measured"}

Tally(k, w) ==
  /\ InUntimed(w) => IF flag THEN recorded[w] = k /\ calls[w] = k
                             ELSE recorded[w] \in {k, k + 1} /\ calls[w] = k + 1
  /\ StageOf(w) = "timed" =>
       recorded[w] = k /\ calls[w] = IF wpc[w] = "sync" THEN k ELSE k + 1
  /\ StageOf(w) = "measured" =>
       /\ calls[w] = k + 1
       /\ IF flag THEN recorded[w] = k + 1 ELSE recorded[w] \in {k, k + 1}

\* Why a worker stops, and that it stops in time.
Reasons(k, w) ==
  /\ late[w] => expired
  /\ wpc[w] = "clear" => late[w] \/ k = OptC
  /\ wpc[w] = "record" /\ flag => ~late[w] /\ (InTimed(w) => k < OptC)

RoundInv(k) ==
  /\ samples = k * (P * OptT) + Cardinality(Ahead(k))
  /\ k = OptC => Ahead(k) = {}
  /\ ~flag => expired \/ k = OptC
  /\ \A w \in Worker : Tally(k, w) /\ Reasons(k, w)

SamplesInv == \E k \in 0..OptC : RoundInv(k)

HarnessInv == BaseInv /\ StageInv /\ SamplesInv

(***************************************************************************)
(* Arithmetic of the target.                                               *)
(***************************************************************************)
LEMMA AheadCounted ==
  ASSUME NEW k
  PROVE  /\ IsFiniteSet(Ahead(k)) /\ Cardinality(Ahead(k)) \in Nat
         /\ Cardinality(Ahead(k)) <= P * OptT
  BY WorkersCounted, FS_Subset, FS_CardinalityType DEF Ahead

LEMMA TargetIs == Target = OptC * (P * OptT) /\ Target \in Nat
  BY PType, HarnessAssumption DEF Target

LEMMA RoundFits ==
  ASSUME NEW k \in Nat, k < OptC
  PROVE  k * (P * OptT) + P * OptT <= Target
<1>1. OptC \in Nat /\ P * OptT \in Nat
  BY HarnessAssumption, WorkersCounted
<1>2. \A a, b, m \in Nat : a < b => a * m + m <= b * m
  OBVIOUS
<1> QED
  BY <1>1, <1>2, TargetIs

LEMMA RoundsDiffer ==
  ASSUME NEW k \in 0..OptC, NEW c \in Nat, c < P * OptT,
         k * (P * OptT) + c = Target
  PROVE  k = OptC
<1> SUFFICES ASSUME k < OptC PROVE FALSE
  BY HarnessAssumption
<1> QED
  BY RoundFits, WorkersCounted, TargetIs, HarnessAssumption

LEMMA InitSamples == Init => SamplesInv
<1> SUFFICES ASSUME Init PROVE RoundInv(0)
  BY HarnessAssumption DEF SamplesInv
<1>1. Ahead(0) = {} /\ Cardinality(Ahead(0)) = 0
  BY FS_EmptySet DEF Init, Ahead
<1>2. samples = 0 * (P * OptT) + Cardinality(Ahead(0))
  BY <1>1, WorkersCounted DEF Init
<1>3. ASSUME NEW w \in Worker PROVE Tally(0, w) /\ Reasons(0, w)
  BY StageDef DEF Init, StageFromPc, Tally, Reasons, InUntimed
<1> QED
  BY <1>1, <1>2, <1>3 DEF Init, RoundInv

(***************************************************************************)
(* The steps that record nothing.                                          *)
(***************************************************************************)
\* Nothing that counts changes for u.
Idle(u) ==
  /\ recorded'[u] = recorded[u] /\ calls'[u] = calls[u] /\ late'[u] = late[u]
  /\ StageOf(u)' = StageOf(u) \/ (InUntimed(u) /\ InUntimed(u)')
  /\ \/ wpc'[u] = wpc[u]
     \/ wpc'[u] \notin {"clear", "record", "sync"}
     \/ wpc'[u] = "sync" /\ InUntimed(u)'
  /\ wpc[u] # "sync" \/ wpc'[u] = "sync" \/ StageOf(u)' # "timed"

LEMMA RoundSame ==
  ASSUME NEW k, RoundInv(k), UNCHANGED <<samples, flag>>, expired => expired',
         UNCHANGED recorded,
         \A w \in Worker : Tally(k, w)' /\ Reasons(k, w)'
  PROVE  RoundInv(k)'
  BY DEF RoundInv, Ahead

LEMMA IdleTally ==
  ASSUME NEW k, NEW u \in Worker, Tally(k, u), Reasons(k, u), Idle(u),
         UNCHANGED flag, expired => expired'
  PROVE  Tally(k, u)' /\ Reasons(k, u)'
<1>1. Tally(k, u)'
  BY DEF Tally, Idle, InUntimed
<1>2. Reasons(k, u)'
  BY DEF Reasons, Idle, InUntimed, InTimed
<1> QED
  BY <1>1, <1>2

\* Every step but those that count a call, read the clock, decide or record.
LEMMA IdleSystemSteps ==
  ASSUME BaseInv,
         \/ UNCHANGED vars \/ ParentStep \/ Expire
         \/ \E p \in Proc : ProcessStep(p)
         \/ \E w \in Worker : Fail(w)
  PROVE  /\ UNCHANGED <<samples, flag, recorded>> /\ (expired => expired')
         /\ \A u \in Worker : Idle(u)
<1>1. UNCHANGED <<samples, flag, recorded, calls, late>>
      /\ (UNCHANGED expired \/ Expire)
  <2> USE DEF run, worker
  <2>1. CASE UNCHANGED vars
    BY <2>1 DEF vars
  <2>2. CASE ParentStep
    BY <2>2 DEF ParentStep, Fork, ForkFails, StartWaiting, Wait, Report
  <2>3. CASE Expire
    BY <2>3 DEF Expire
  <2>4. ASSUME NEW p \in Proc, ProcessStep(p)
        PROVE  UNCHANGED <<samples, flag, recorded, calls, late, expired>>
    BY <2>4 DEF ProcessStep, StartMain, Exit, CreateThread
  <2>5. ASSUME NEW w \in Worker, Fail(w)
        PROVE  UNCHANGED <<samples, flag, recorded, calls, late, expired>>
    BY <2>5 DEF Fail
  <2> QED
    BY <2>1, <2>2, <2>3, <2>4, <2>5
<1>2. \A u \in Worker : StageOf(u)' = StageOf(u)
  BY SystemSteps DEF Steady
<1>3. ASSUME NEW u \in Worker
      PROVE  \/ wpc'[u] = wpc[u]
             \/ wpc[u] \in {"unborn", "spawn"} /\ wpc'[u] \in {"spawn", "init"}
  <2>1. wpc \in [Worker -> WorkerPc] /\ SystemInv /\ cursor \in 0..P
    BY DEF BaseInv, TypeOK
  <2>2. CASE Fork
    <3>1. cursor \in Proc /\ proc[cursor] = "unborn"
      BY <2>1, <2>2, PType DEF Fork, Proc, SystemInv
    <3>2. wpc[Main(cursor)] = "unborn"
      BY <2>1, <3>1, WorkerName DEF SystemInv
    <3> QED
      BY <2>1, <2>2, <3>1, <3>2, WorkerName DEF Fork
  <2>3. ASSUME NEW p \in Proc, StartMain(p)
        PROVE  wpc'[u] = wpc[u] \/ (wpc[u] = "spawn" /\ wpc'[u] = "init")
    BY <2>1, <2>3, WorkerName DEF StartMain
  <2>4. ASSUME NEW p \in Proc, NEW i \in Thread, CreateThread(p, i)
        PROVE  wpc'[u] = wpc[u] \/ (wpc[u] = "unborn" /\ wpc'[u] = "init")
    BY <2>1, <2>4, WorkerName DEF CreateThread, Created
  <2>5. ASSUME NEW p \in Proc, Exit(p) PROVE wpc'[u] = wpc[u]
    BY <2>5 DEF worker, Exit
  <2>6. ASSUME NEW w \in Worker, Fail(w) PROVE wpc'[u] = wpc[u]
    BY <2>6 DEF worker, Fail
  <2>7. CASE UNCHANGED vars \/ ForkFails \/ StartWaiting \/ Wait \/ Report
             \/ Expire
    BY <2>7 DEF vars, worker, ForkFails, StartWaiting, Wait, Report, Expire
  <2> QED
    BY <2>2, <2>3, <2>4, <2>5, <2>6, <2>7 DEF ParentStep, ProcessStep
<1>4. expired => expired'
  BY <1>1 DEF Expire
<1> QED
  BY <1>1, <1>2, <1>3, <1>4 DEF Idle

LEMMA IdleWorkerSteps ==
  ASSUME BaseInv, NEW w \in Worker,
         \/ InitWorker(w) \/ TestFlag(w) \/ Post(w) \/ FiniWorker(w) \/ Pre(w)
         \/ RecordBlock(w) \/ Wakeup(w) \/ Recorded(w)
         \/ (Sync(w) /\ ~B!QueueOpen(w))
  PROVE  /\ UNCHANGED <<samples, flag, recorded>> /\ (expired => expired')
         /\ \A u \in Worker : Idle(u)
<1>1. UNCHANGED <<samples, flag, expired, recorded, calls, late>>
  BY DEF run, worker, InitWorker, TestFlag, Post, FiniWorker, Pre,
     RecordBlock, Wakeup, Recorded, Sync
<1>2. wpc \in [Worker -> WorkerPc]
  BY DEF BaseInv, TypeOK
<1>3. \A u \in Worker : StageOf(u) = StageFromPc(u)
                        /\ StageOf(u)' = StageFromPc(u)'
  BY StageDef, StageDefPrimed
<1>4. ASSUME NEW u \in Worker
      PROVE  StageOf(u)' = StageOf(u) \/ (InUntimed(u) /\ InUntimed(u)')
  <2>1. CASE TestFlag(w) /\ ~flag
    BY <1>2, <1>3, <2>1 DEF TestFlag, Goto, StageFromPc, barrier, InUntimed
  <2>2. CASE Sync(w) /\ B!QueueWait(w)
    <3>1. Moves(w, "between", "ready")
      BY <2>2, WaitStage DEF Sync, worker
    <3> QED
      BY <3>1 DEF Moves, Steady, Others, InUntimed
  <2>3. CASE ~(TestFlag(w) /\ ~flag) /\ ~(Sync(w) /\ B!QueueWait(w))
    BY <2>3, SteadySteps DEF Steady, CallStep, LeaveStep, B!Queue
  <2> QED
    BY <2>1, <2>2, <2>3
<1>5. ASSUME NEW u \in Worker
      PROVE  \/ wpc'[u] = wpc[u]
             \/ wpc[u] # "sync" /\ wpc'[u] \notin {"clear", "record", "sync"}
             \/ wpc[u] # "sync" /\ wpc'[u] = "sync" /\ InUntimed(u)'
  <2>1. CASE Pre(w)
    BY <1>2, <1>3, <2>1 DEF Pre, Goto, B!Call, BaseInv, TypeOK, B!TypeOK,
       StageFromPc, InUntimed
  <2> QED
    BY <1>2, <2>1 DEF InitWorker, TestFlag, Post, FiniWorker, RecordBlock,
       Wakeup, Recorded, Sync, Goto, worker
<1> QED
  BY <1>1, <1>4, <1>5 DEF Idle

LEMMA IdleRound ==
  ASSUME NEW k, RoundInv(k), UNCHANGED <<samples, flag, recorded>>,
         expired => expired', \A u \in Worker : Idle(u)
  PROVE  RoundInv(k)'
<1>1. \A u \in Worker : Tally(k, u)' /\ Reasons(k, u)'
  BY IdleTally DEF RoundInv
<1> QED
  BY <1>1, RoundSame

(***************************************************************************)
(* The steps that count.                                                   *)
(***************************************************************************)
\* benchmark is called: everybody in the timed part has k samples.
LEMMA SyncedRound ==
  ASSUME BaseInv, NEW k \in 0..OptC, RoundInv(k),
         NEW w \in Worker, Synced(w)
  PROVE  RoundInv(k)'
<1>1. /\ UNCHANGED <<flag, samples, expired, late, recorded>>
      /\ wpc[w] = "sync" /\ wpc' = [wpc EXCEPT ![w] = "bench"]
      /\ bpc[w] = "unlock"
      /\ calls' = [calls EXCEPT ![w] = @ + 1]
      /\ wpc \in [Worker -> WorkerPc] /\ calls \in [Worker -> Nat]
  BY DEF Synced, Goto, run, B!Unlock, BaseInv, TypeOK
<1>2. \A u \in Worker : StageOf(u)' = StageOf(u)
  BY SteadySteps DEF Steady, LeaveStep
<1>3. StageOf(w) = "timed"
  BY <1>1, StageDef DEF StageFromPc
<1>4. ASSUME NEW u \in Worker PROVE Tally(k, u)'
  <2>1. Tally(k, u)
    BY DEF RoundInv
  <2> QED
    BY <1>1, <1>2, <1>3, <2>1 DEF Tally, InUntimed
<1>5. ASSUME NEW u \in Worker PROVE Reasons(k, u)'
  <2>1. Reasons(k, u)
    BY DEF RoundInv
  <2> QED
    BY <1>1, <1>2, <2>1 DEF Reasons, InTimed
<1> QED
  BY <1>1, <1>4, <1>5, RoundSame

\* The clock is read.
LEMMA BenchmarkRound ==
  ASSUME BaseInv, NEW k \in 0..OptC, RoundInv(k),
         NEW w \in Worker, Benchmark(w)
  PROVE  RoundInv(k)'
<1>1. /\ UNCHANGED <<flag, samples, expired, recorded, calls>>
      /\ wpc[w] = "bench" /\ wpc' = [wpc EXCEPT ![w] = "check"]
      /\ late' = [late EXCEPT ![w] = expired]
      /\ wpc \in [Worker -> WorkerPc] /\ late \in [Worker -> BOOLEAN]
  BY DEF Benchmark, Goto, run, BaseInv, TypeOK
<1>2. \A u \in Worker : StageOf(u)' = StageOf(u)
  BY SteadySteps DEF Steady
<1>3. ASSUME NEW u \in Worker PROVE Tally(k, u)'
  <2>1. Tally(k, u)
    BY DEF RoundInv
  <2> QED
    BY <1>1, <1>2, <2>1 DEF Tally, InUntimed
<1>4. ASSUME NEW u \in Worker PROVE Reasons(k, u)'
  <2>1. Reasons(k, u)
    BY DEF RoundInv
  <2>2. CASE u = w
    BY <1>1, <2>2 DEF Reasons
  <2>3. CASE u # w
    BY <1>1, <1>2, <2>1, <2>3 DEF Reasons, InTimed
  <2> QED
    BY <2>2, <2>3
<1> QED
  BY <1>1, <1>3, <1>4, RoundSame

\* The decision.  The equality test of the target is exact: a worker that is
\* about to decide has not recorded this round, so the counter cannot have
\* reached the target through the others, and it cannot have passed it.
LEMMA TargetMet ==
  ASSUME BaseInv, NEW k \in 0..OptC, RoundInv(k),
         NEW w \in Worker, wpc[w] = "check"
  PROVE  samples = Target <=> k = OptC
<1>1. recorded[w] = k
  BY StageDef DEF StageFromPc, RoundInv, Tally
<1>2. Cardinality(Ahead(k)) < P * OptT
  <2>1. Ahead(k) \subseteq Worker \ {w}
    BY <1>1 DEF Ahead
  <2>2. IsFiniteSet(Worker \ {w}) /\ Cardinality(Worker \ {w}) = P * OptT - 1
    BY WorkersCounted, FS_RemoveElement
  <2>3. Cardinality(Ahead(k)) <= Cardinality(Worker \ {w})
    BY <2>1, <2>2, FS_Subset
  <2> QED
    BY <2>2, <2>3, AheadCounted, WorkersCounted
<1>3. ASSUME samples = Target PROVE k = OptC
  BY <1>2, <1>3, AheadCounted, RoundsDiffer DEF RoundInv
<1>4. ASSUME k = OptC PROVE samples = Target
  <2>1. Cardinality(Ahead(k)) = 0
    BY <1>4, FS_EmptySet DEF RoundInv
  <2> QED
    BY <1>4, <2>1, TargetIs DEF RoundInv
<1> QED
  BY <1>3, <1>4

LEMMA CheckRound ==
  ASSUME BaseInv, NEW k \in 0..OptC, RoundInv(k),
         NEW w \in Worker, Check(w)
  PROVE  RoundInv(k)'
<1>1. /\ UNCHANGED <<flag, samples, expired, recorded, calls, late>>
      /\ wpc[w] = "check"
      /\ wpc' = [wpc EXCEPT ![w] = IF MustStop(w) THEN "clear" ELSE "record"]
      /\ wpc \in [Worker -> WorkerPc]
  BY DEF Check, Goto, run, BaseInv, TypeOK
<1>2. \A u \in Worker : StageOf(u)' = StageOf(u)
  BY SteadySteps DEF Steady, CallStep
<1>3. ASSUME NEW u \in Worker PROVE Tally(k, u)'
  <2>1. Tally(k, u)
    BY DEF RoundInv
  <2> QED
    BY <1>1, <1>2, <2>1 DEF Tally, InUntimed
<1>4. ASSUME NEW u \in Worker PROVE Reasons(k, u)'
  <2>1. Reasons(k, u)
    BY DEF RoundInv
  <2>2. CASE u = w
    <3>1. MustStop(w) <=> late[w] \/ k = OptC
      BY <1>1, TargetMet DEF MustStop
    <3>2. k < OptC \/ k = OptC
      BY HarnessAssumption
    <3> QED
      BY <1>1, <2>1, <2>2, <3>1, <3>2 DEF Reasons
  <2>3. CASE u # w
    BY <1>1, <1>2, <2>1, <2>3 DEF Reasons, InTimed
  <2> QED
    BY <2>2, <2>3
<1> QED
  BY <1>1, <1>3, <1>4, RoundSame

\* ba_flag goes down: only in a timed part, so nobody is between two rounds.
LEMMA ClearRound ==
  ASSUME BaseInv, StageInv, NEW k \in 0..OptC, RoundInv(k),
         NEW w \in Worker, Clear(w)
  PROVE  RoundInv(k)'
<1>1. /\ UNCHANGED <<samples, expired, recorded, calls, late>> /\ flag' = FALSE
      /\ wpc[w] = "clear" /\ wpc' = [wpc EXCEPT ![w] = "record"]
      /\ wpc \in [Worker -> WorkerPc]
  BY DEF Clear, Goto, BaseInv, TypeOK
<1>2. \A u \in Worker : StageOf(u)' = StageOf(u)
  BY SteadySteps DEF Steady, CallStep
<1>3. \A u \in Worker : StageOf(u) \in {"timed", "measured"}
  <2>1. StageOf(w) = "timed"
    BY <1>1, StageDef DEF StageFromPc
  <2> QED
    BY <2>1 DEF StageInv, Untimed, Timed
<1>4. expired \/ k = OptC
  BY <1>1 DEF RoundInv, Reasons
<1>5. ASSUME NEW u \in Worker PROVE Tally(k, u)'
  <2>1. Tally(k, u)
    BY DEF RoundInv
  <2> QED
    BY <1>1, <1>2, <1>3, <2>1 DEF Tally, InUntimed
<1>6. ASSUME NEW u \in Worker PROVE Reasons(k, u)'
  <2>1. Reasons(k, u)
    BY DEF RoundInv
  <2> QED
    BY <1>1, <2>1 DEF Reasons
<1>7. Ahead(k)' = Ahead(k)
  BY <1>1 DEF Ahead
<1> QED
  BY <1>1, <1>4, <1>5, <1>6, <1>7 DEF RoundInv

\* The first barrier opens: everybody has the permission of ba_flag.
LEMMA SyncRound ==
  ASSUME BaseInv, StageInv, NEW k \in 0..OptC, RoundInv(k),
         NEW w \in Worker, Sync(w), B!QueueOpen(w)
  PROVE  RoundInv(k)'
<1>1. UNCHANGED <<flag, samples, expired, wpc, recorded, calls, late>>
      /\ wpc[w] = "sync"
  BY DEF Sync, run, worker
<1>2. /\ StageOf(w) = "between" /\ StageOf(w)' = "timed"
      /\ \A u \in Others(w) : LetGo(u)
  BY <1>1, OpenStage
<1>3. flag
  BY <1>1, <1>2 DEF StageInv, Permitted
<1>4. \A u \in Others(w) : StageOf(u) = "ready" /\ StageOf(u)' = "timed"
                           /\ wpc[u] = "sync"
  <2> SUFFICES ASSUME NEW u \in Others(w)
               PROVE  StageOf(u) = "ready" /\ StageOf(u)' = "timed"
                      /\ wpc[u] = "sync"
    OBVIOUS
  <2>1. StageOf(u) = "ready" /\ StageOf(u)' = "timed"
    BY <1>2 DEF LetGo, Others, StageInv, Untimed, Timed
  <2>2. wpc[u] = "sync"
    BY <2>1, StageDef DEF Others, StageFromPc
  <2> QED
    BY <2>1, <2>2
<1>5. ASSUME NEW u \in Worker PROVE Tally(k, u)'
  <2>1. Tally(k, u)
    BY DEF RoundInv
  <2>2. InUntimed(u) /\ StageOf(u)' = "timed" /\ wpc[u] = "sync"
    BY <1>1, <1>2, <1>4 DEF InUntimed, Others
  <2> QED
    BY <1>1, <1>3, <2>1, <2>2 DEF Tally, InUntimed
<1>6. ASSUME NEW u \in Worker PROVE Reasons(k, u)'
  <2>1. Reasons(k, u) /\ wpc[u] = "sync"
    BY <1>1, <1>4 DEF RoundInv, Others
  <2> QED
    BY <1>1, <2>1 DEF Reasons
<1> QED
  BY <1>1, <1>5, <1>6, RoundSame

\* Once ba_flag is down the second barrier records nothing.
LEMMA DiscardRound ==
  ASSUME BaseInv, StageInv, NEW k \in 0..OptC, RoundInv(k),
         NEW w \in Worker, RecordQueue(w), ~flag
  PROVE  RoundInv(k)'
<1>1. UNCHANGED <<flag, samples, expired, wpc, recorded, calls, late>>
      /\ wpc[w] = "record" /\ B!Queue(w)
  BY DEF RecordQueue, AddSample
<1>2. ASSUME NEW u \in Worker PROVE Tally(k, u)'
  <2>1. Tally(k, u)
    BY DEF RoundInv
  <2>2. \/ StageOf(u)' = StageOf(u)
        \/ StageOf(u) = "timed" /\ StageOf(u)' \in {"measured", "between"}
           /\ wpc[u] = "record"
        \/ StageOf(u) = "measured" /\ StageOf(u)' = "between"
    <3>1. CASE B!QueueWait(w)
      BY <1>1, <3>1, WaitStage DEF Moves, Steady, Others
    <3>2. CASE B!QueueOpen(w)
      BY <1>1, <3>2, OpenStage DEF LetGo, Others, StageInv, Untimed, Timed
    <3> QED
      BY <1>1, <3>1, <3>2 DEF B!Queue
  <2> QED
    BY <1>1, <2>1, <2>2 DEF Tally, InUntimed
<1>3. ASSUME NEW u \in Worker PROVE Reasons(k, u)'
  BY <1>1 DEF RoundInv, Reasons
<1> QED
  BY <1>1, <1>2, <1>3, RoundSame

\* A sample is recorded, not the last one of the round.
LEMMA RecordRound ==
  ASSUME BaseInv, StageInv, NEW k \in 0..OptC, RoundInv(k),
         NEW w \in Worker, RecordQueue(w), flag, B!QueueWait(w)
  PROVE  RoundInv(k)'
<1>1. /\ UNCHANGED <<flag, expired, wpc, calls, late>> /\ wpc[w] = "record"
      /\ samples' = samples + 1 /\ recorded' = [recorded EXCEPT ![w] = @ + 1]
      /\ recorded \in [Worker -> Nat] /\ samples \in Nat
  BY DEF RecordQueue, AddSample, BaseInv, TypeOK
<1>2. Moves(w, "timed", "measured")
  BY <1>1, WaitStage
<1>3. recorded[w] = k /\ k < OptC
  BY <1>1, <1>2 DEF RoundInv, Tally, Reasons, InTimed, Moves
<1>4. samples' = k * (P * OptT) + Cardinality(Ahead(k)')
  <2>1. Ahead(k)' = Ahead(k) \cup {w} /\ w \notin Ahead(k)
    BY <1>1, <1>3 DEF Ahead
  <2>2. Cardinality(Ahead(k)') = Cardinality(Ahead(k)) + 1
    BY <2>1, AheadCounted, FS_AddElement
  <2>3. k * (P * OptT) \in Nat
    BY WorkersCounted
  <2> QED
    BY <1>1, <2>2, <2>3, AheadCounted DEF RoundInv
<1>5. ASSUME NEW u \in Worker PROVE Tally(k, u)'
  <2>1. Tally(k, u)
    BY DEF RoundInv
  <2>2. CASE u = w
    <3>1. calls[w] = k + 1
      BY <1>1, <1>2, <2>1, <2>2 DEF Tally, Moves
    <3> QED
      BY <1>1, <1>2, <1>3, <2>2, <3>1 DEF Tally, InUntimed, Moves
  <2>3. CASE u # w
    BY <1>1, <1>2, <2>1, <2>3 DEF Tally, InUntimed, Moves, Steady, Others
  <2> QED
    BY <2>2, <2>3
<1>6. ASSUME NEW u \in Worker PROVE Reasons(k, u)'
  <2>1. Reasons(k, u)
    BY DEF RoundInv
  <2> QED
    BY <1>1, <1>3, <2>1 DEF Reasons
<1>7. k = OptC => Ahead(k)' = {}
  BY <1>3
<1> QED
  BY <1>1, <1>4, <1>5, <1>6, <1>7 DEF RoundInv

\* The last sample of the round: the next round starts from equal counts.
LEMMA CloseRound ==
  ASSUME BaseInv, StageInv, NEW k \in 0..OptC, RoundInv(k),
         NEW w \in Worker, RecordQueue(w), flag, B!QueueOpen(w)
  PROVE  k + 1 \in 0..OptC /\ RoundInv(k + 1)'
<1>1. /\ UNCHANGED <<flag, expired, wpc, calls, late>> /\ wpc[w] = "record"
      /\ samples' = samples + 1 /\ recorded' = [recorded EXCEPT ![w] = @ + 1]
      /\ recorded \in [Worker -> Nat] /\ samples \in Nat
  BY DEF RecordQueue, AddSample, BaseInv, TypeOK
<1>2. /\ StageOf(w) = "timed" /\ StageOf(w)' = "between"
      /\ \A u \in Others(w) : LetGo(u)
  BY <1>1, OpenStage
<1>3. \A u \in Others(w) : StageOf(u) = "measured" /\ StageOf(u)' = "between"
                           /\ wpc[u] = "record"
  BY <1>2 DEF LetGo, Others, StageInv, Untimed, Timed
<1>4. recorded[w] = k /\ calls[w] = k + 1 /\ k < OptC
  BY <1>1, <1>2 DEF RoundInv, Tally, Reasons, InTimed
<1>5. \A u \in Others(w) : recorded[u] = k + 1 /\ calls[u] = k + 1
  BY <1>3 DEF RoundInv, Tally, Others
<1>6. k + 1 \in 0..OptC
  BY <1>4, HarnessAssumption
<1>7. \A u \in Worker : recorded'[u] = k + 1 /\ calls'[u] = k + 1
  BY <1>1, <1>4, <1>5 DEF Others
<1>8. Ahead(k + 1)' = {}
  BY <1>7 DEF Ahead
<1>9. samples' = (k + 1) * (P * OptT) + Cardinality(Ahead(k + 1)')
  <2>1. Ahead(k) = Worker \ {w}
    BY <1>4, <1>5 DEF Ahead, Others
  <2>2. Cardinality(Ahead(k)) = P * OptT - 1
    BY <2>1, WorkersCounted, FS_RemoveElement
  <2>3. samples' = k * (P * OptT) + P * OptT
    BY <1>1, <2>2, WorkersCounted DEF RoundInv
  <2>4. (k + 1) * (P * OptT) = k * (P * OptT) + P * OptT
    BY WorkersCounted
  <2>5. Cardinality(Ahead(k + 1)') = 0
    BY <1>8, FS_EmptySet
  <2> QED
    BY <2>3, <2>4, <2>5, WorkersCounted
<1>10. ASSUME NEW u \in Worker PROVE Tally(k + 1, u)' /\ Reasons(k + 1, u)'
  <2>1. StageOf(u)' = "between" /\ wpc'[u] = "record"
    BY <1>1, <1>2, <1>3 DEF Others
  <2>2. Tally(k + 1, u)'
    BY <1>1, <1>7, <2>1 DEF Tally, InUntimed
  <2>3. Reasons(k + 1, u)'
    BY <1>1, <2>1 DEF RoundInv, Reasons, InTimed
  <2> QED
    BY <2>2, <2>3
<1> QED
  BY <1>1, <1>6, <1>8, <1>9, <1>10 DEF RoundInv

LEMMA NextSamples ==
  BaseInv /\ StageInv /\ SamplesInv /\ [Next]_vars => SamplesInv'
<1> SUFFICES ASSUME BaseInv, StageInv, [Next]_vars,
                    NEW k \in 0..OptC, RoundInv(k)
             PROVE  SamplesInv'
  BY DEF SamplesInv
<1>1. CASE \/ UNCHANGED vars \/ ParentStep \/ Expire
           \/ \E p \in Proc : ProcessStep(p)
           \/ \E w \in Worker : Fail(w)
  BY <1>1, IdleSystemSteps, IdleRound DEF SamplesInv
<1>2. ASSUME NEW w \in Worker,
             \/ InitWorker(w) \/ TestFlag(w) \/ Post(w) \/ FiniWorker(w)
             \/ Pre(w) \/ RecordBlock(w) \/ Wakeup(w) \/ Recorded(w)
             \/ (Sync(w) /\ ~B!QueueOpen(w))
      PROVE  SamplesInv'
  BY <1>2, IdleWorkerSteps, IdleRound DEF SamplesInv
<1>3. ASSUME NEW w \in Worker, Synced(w) PROVE SamplesInv'
  BY <1>3, SyncedRound DEF SamplesInv
<1>4. ASSUME NEW w \in Worker, Benchmark(w) PROVE SamplesInv'
  BY <1>4, BenchmarkRound DEF SamplesInv
<1>5. ASSUME NEW w \in Worker, Check(w) PROVE SamplesInv'
  BY <1>5, CheckRound DEF SamplesInv
<1>6. ASSUME NEW w \in Worker, Clear(w) PROVE SamplesInv'
  BY <1>6, ClearRound DEF SamplesInv
<1>7. ASSUME NEW w \in Worker, Sync(w), B!QueueOpen(w) PROVE SamplesInv'
  BY <1>7, SyncRound DEF SamplesInv
<1>8. ASSUME NEW w \in Worker, RecordQueue(w) PROVE SamplesInv'
  <2>1. CASE ~flag
    BY <1>8, <2>1, DiscardRound DEF SamplesInv
  <2>2. CASE flag /\ B!QueueWait(w)
    BY <1>8, <2>2, RecordRound DEF SamplesInv
  <2>3. CASE flag /\ B!QueueOpen(w)
    BY <1>8, <2>3, CloseRound DEF SamplesInv
  <2> QED
    BY <1>8, <2>1, <2>2, <2>3 DEF RecordQueue, B!Queue
<1> QED
  BY NextCases, <1>1, <1>2, <1>3, <1>4, <1>5, <1>6, <1>7, <1>8
     DEF OuterStep, CallStep, InnerStep, LeaveStep

LEMMA HarnessInvariant == Spec => []HarnessInv
<1>1. Init => HarnessInv
  BY InitBase, InitStage, InitSamples DEF HarnessInv
<1>2. HarnessInv /\ [Next]_vars => HarnessInv'
  BY NextBase, NextStageInv, NextSamples DEF HarnessInv
<1> QED
  BY <1>1, <1>2, PTL DEF Spec

(***************************************************************************)
(* add_sample never writes past ba_data, although the target is tested     *)
(* without the lock and with ==: for every -P, -T and -C.                  *)
(***************************************************************************)
THEOREM HarnessSamplesFit == Spec => []SamplesFit
<1>1. HarnessInv => SamplesFit
  <2> SUFFICES ASSUME NEW k \in 0..OptC, RoundInv(k) PROVE samples <= Target
    BY DEF HarnessInv, SamplesInv, SamplesFit
  <2>1. samples = k * (P * OptT) + Cardinality(Ahead(k))
    BY DEF RoundInv
  <2>2. CASE k = OptC
    <3>1. Cardinality(Ahead(k)) = 0
      BY <2>2, FS_EmptySet DEF RoundInv
    <3> QED
      BY <2>1, <2>2, <3>1, TargetIs
  <2>3. CASE k < OptC
    BY <2>1, <2>3, RoundFits, AheadCounted, WorkersCounted, TargetIs
  <2> QED
    BY <2>2, <2>3, HarnessAssumption
<1> QED
  BY <1>1, HarnessInvariant, PTL

(***************************************************************************)
(* The workers contribute the same number of samples but for one round,    *)
(* and at most one round is run in vain.                                   *)
(***************************************************************************)
THEOREM HarnessFairShare == Spec => []FairShare
<1>1. HarnessInv => FairShare
  <2> SUFFICES ASSUME HarnessInv, NEW k \in 0..OptC, RoundInv(k)
               PROVE  FairShare
    BY DEF HarnessInv, SamplesInv
  <2>1. ASSUME NEW w \in Worker
        PROVE  /\ recorded[w] \in {k, k + 1} /\ calls[w] \in {k, k + 1}
               /\ recorded[w] <= calls[w]
    <3>1. StageOf(w) \in {"between", "ready", "stopped", "timed", "measured"}
      BY StageDef DEF StageFromPc
    <3>2. Tally(k, w)
      BY DEF RoundInv
    <3>3. StageOf(w) = "measured" \/ StageOf(w) = "timed" \/ InUntimed(w)
      BY <3>1 DEF InUntimed
    <3> QED
      BY <3>2, <3>3 DEF Tally
  <2> QED
    BY <2>1, HarnessAssumption DEF FairShare
<1> QED
  BY <1>1, HarnessInvariant, PTL

(***************************************************************************)
(* The parent reports only when every thread of every process is through,  *)
(* and unless time ran out each of them recorded exactly -C samples.       *)
(***************************************************************************)
THEOREM HarnessReport == Spec => []ReportComplete
<1>1. HarnessInv => ReportComplete
  <2> SUFFICES ASSUME HarnessInv, NEW k \in 0..OptC, RoundInv(k),
                      parent = "done", NEW w \in Worker
               PROVE  wpc[w] = "done" /\ (~expired => recorded[w] = OptC)
    BY DEF HarnessInv, SamplesInv, ReportComplete
  <2>1. wpc[w] = "done"
    BY WorkerName DEF HarnessInv, BaseInv, SystemInv
  <2>2. StageOf(w) = "stopped"
    BY <2>1, StageDef DEF StageFromPc
  <2>3. ~flag
    BY <2>2 DEF HarnessInv, StageInv, Permitted
  <2>4. ASSUME ~expired PROVE recorded[w] = OptC
    <3>1. k = OptC /\ Ahead(k) = {}
      BY <2>3, <2>4 DEF RoundInv
    <3>2. recorded[w] \in {k, k + 1}
      BY <2>2, <2>3 DEF RoundInv, Tally, InUntimed
    <3> QED
      BY <3>1, <3>2 DEF Ahead
  <2> QED
    BY <2>1, <2>4
<1> QED
  BY <1>1, HarnessInvariant, PTL

(***************************************************************************)
(* No step records a sample of a benchmark that ended after the deadline,  *)
(* or one more than -C of the same worker.                                 *)
(***************************************************************************)
THEOREM HarnessLate == Spec => LateNotRecorded
<1> DEFINE OnTime == \A w \in Worker : recorded'[w] # recorded[w] =>
                       ~late[w] /\ recorded[w] < OptC
<1>1. HarnessInv /\ [Next]_vars => [OnTime]_vars
  <2> SUFFICES ASSUME HarnessInv, [Next]_vars,
                      NEW k \in 0..OptC, RoundInv(k),
                      NEW u \in Worker, recorded'[u] # recorded[u]
               PROVE  ~late[u] /\ recorded[u] < OptC
    BY DEF HarnessInv, SamplesInv
  <2>1. PICK w \in Worker : RecordQueue(w) /\ flag
    BY NextCases
       DEF vars, worker, ParentStep, Fork, ForkFails, StartWaiting, Wait,
           Report, ProcessStep, StartMain, Exit, CreateThread, Fail,
           OuterStep, InitWorker, TestFlag, Benchmark, Post, FiniWorker,
           CallStep, Pre, Check, Clear, InnerStep, Sync, RecordBlock, Wakeup,
           LeaveStep, Synced, Recorded, Expire, RecordQueue, AddSample
  <2>2. u = w /\ wpc[w] = "record"
    BY <2>1 DEF RecordQueue, AddSample, HarnessInv, BaseInv, TypeOK
  <2>3. StageOf(w) = "timed"
    BY <2>1, <2>2, WaitStage, OpenStage
       DEF RecordQueue, B!Queue, Moves, HarnessInv
  <2>4. ~late[w] /\ k < OptC /\ recorded[w] = k
    BY <2>1, <2>2, <2>3 DEF RoundInv, Tally, Reasons, InTimed
  <2> QED
    BY <2>2, <2>4
<1>2. Spec => [][OnTime]_vars
  BY <1>1, HarnessInvariant, PTL DEF Spec
<1> QED
  BY <1>2 DEF LateNotRecorded

(***************************************************************************)
(* The report.  What follows is about the variables of Stats only.         *)
(***************************************************************************)
LEMMA LeastNumber ==
  ASSUME NEW D \in SUBSET Nat, D # {}
  PROVE  \E m \in D : m = 0 \/ m - 1 \in Nat \ D
<1>1. PICK m \in D : \A y \in D : <<y, m>> \notin OpToRel(<, Nat)
  BY NatLessThanWellFounded, WFMin
<1>2. CASE m # 0
  <2>1. m - 1 \in Nat /\ m \in Nat
    BY <1>2
  <2>2. <<m - 1, m>> \in OpToRel(<, Nat)
    BY <2>1 DEF OpToRel
  <2> QED
    BY <1>1, <2>1, <2>2
<1> QED
  BY <1>2

\* What holds of 0, and of m if it holds of m - 1, holds of all numbers.
LEMMA AllNumbers ==
  ASSUME NEW C \in SUBSET Nat, 0 \in C, \A m \in Nat \ {0} : m - 1 \in C => m \in C
  PROVE  C = Nat
<1>1. ASSUME NEW m \in Nat \ C, m = 0 \/ m - 1 \in Nat \ (Nat \ C) PROVE FALSE
  BY <1>1
<1> QED
  BY <1>1, LeastNumber

(***************************************************************************)
(* Sorting.  Before(s, i) are the places of the samples that come before   *)
(* that at i, and its own.                                                 *)
(***************************************************************************)
Before(s, i) == {j \in DOMAIN s : s[j] < s[i] \/ (s[j] = s[i] /\ j <= i)}

LEMMA Places ==
  ASSUME NEW s \in Seq(Int)
  PROVE  /\ DOMAIN s = 1..Len(s) /\ Len(s) \in Nat
         /\ IsFiniteSet(DOMAIN s) /\ Cardinality(DOMAIN s) = Len(s)
         /\ \A i \in DOMAIN s : s[i] \in Int
<1>1. DOMAIN s = 1..Len(s) /\ Len(s) \in Nat /\ \A i \in DOMAIN s : s[i] \in Int
  OBVIOUS
<1> QED
  BY <1>1, FS_Interval

\* Of two samples one comes before the other and has the lower rank.
LEMMA RankOrder ==
  ASSUME NEW s \in Seq(Int), NEW i \in DOMAIN s, NEW k \in DOMAIN s,
         s[i] < s[k] \/ (s[i] = s[k] /\ i < k)
  PROVE  Rank(s)[i] < Rank(s)[k]
<1>1. Before(s, i) \subseteq Before(s, k) /\ k \in Before(s, k) \ Before(s, i)
  BY Places DEF Before
<1>2. IsFiniteSet(Before(s, k))
  BY Places, FS_Subset DEF Before
<1>3. /\ Cardinality(Before(s, i)) \in Nat /\ Cardinality(Before(s, k)) \in Nat
      /\ Cardinality(Before(s, i)) <= Cardinality(Before(s, k))
      /\ Cardinality(Before(s, i)) # Cardinality(Before(s, k))
  BY <1>1, <1>2, FS_Subset, FS_CardinalityType
<1>4. \A j \in DOMAIN s : Rank(s)[j] = Cardinality(Before(s, j))
  BY DEF Rank, Before
<1> QED
  BY <1>3, <1>4

LEMMA RankType ==
  ASSUME NEW s \in Seq(Int)
  PROVE  Rank(s) \in Bijection(DOMAIN s, DOMAIN s)
<1> DEFINE rank == Rank(s)
<1>1. ASSUME NEW i \in DOMAIN s PROVE rank[i] \in DOMAIN s
  <2>1. Before(s, i) \subseteq DOMAIN s /\ i \in Before(s, i)
    BY Places DEF Before
  <2>2. /\ IsFiniteSet(Before(s, i)) /\ Cardinality(Before(s, i)) \in Nat
        /\ Cardinality(Before(s, i)) <= Len(s)
    BY <2>1, Places, FS_Subset, FS_CardinalityType
  <2>3. Cardinality(Before(s, i)) # 0
    BY <2>1, <2>2, FS_EmptySet
  <2>4. rank[i] = Cardinality(Before(s, i))
    BY DEF Rank, Before
  <2> QED
    BY <2>2, <2>3, <2>4, Places
<1>2. rank \in [DOMAIN s -> DOMAIN s]
  BY <1>1 DEF Rank
<1>3. ASSUME NEW i \in DOMAIN s, NEW k \in DOMAIN s, i # k PROVE rank[i] # rank[k]
  <2>1. /\ s[i] \in Int /\ s[k] \in Int /\ i \in Nat /\ k \in Nat
        /\ rank[i] \in DOMAIN s /\ rank[k] \in DOMAIN s /\ DOMAIN s = 1..Len(s)
    <3>1. rank[i] \in DOMAIN s /\ rank[k] \in DOMAIN s
      BY <1>1
    <3>2. s[i] \in Int /\ s[k] \in Int /\ DOMAIN s = 1..Len(s) /\ Len(s) \in Nat
      BY Places
    <3>3. i \in Nat /\ k \in Nat
      BY <3>2
    <3> QED
      BY <3>1, <3>2, <3>3
  <2>2. \/ s[i] < s[k] \/ (s[i] = s[k] /\ i < k)
        \/ s[k] < s[i] \/ (s[k] = s[i] /\ k < i)
    BY <1>3, <2>1
  <2>3. rank[i] < rank[k] \/ rank[k] < rank[i]
    BY <2>2, RankOrder
  <2> QED
    BY <2>1, <2>3
<1> HIDE DEF rank
<1>4. rank \in Injection(DOMAIN s, DOMAIN s)
  BY <1>2, <1>3 DEF Injection, IsInjective
<1>5. rank \in Surjection(DOMAIN s, DOMAIN s)
  BY <1>4, Places, FS_Injection
<1> QED
  BY <1>4, <1>5 DEF Bijection, rank

\* The sample that sorting puts at k.
From(s, k) == CHOOSE i \in DOMAIN s : Rank(s)[i] = k

LEMMA FromRank ==
  ASSUME NEW s \in Seq(Int)
  PROVE  /\ \A k \in DOMAIN s : From(s, k) \in DOMAIN s /\ Rank(s)[From(s, k)] = k
         /\ \A i \in DOMAIN s : Rank(s)[i] \in DOMAIN s /\ From(s, Rank(s)[i]) = i
<1> DEFINE rank == Rank(s)
<1>1. /\ rank \in [DOMAIN s -> DOMAIN s]
      /\ \A i, k \in DOMAIN s : rank[i] = rank[k] => i = k
      /\ \A k \in DOMAIN s : \E i \in DOMAIN s : rank[i] = k
  BY RankType DEF Bijection, Injection, Surjection, IsInjective
<1> HIDE DEF rank
<1>2. \A k \in DOMAIN s : From(s, k) \in DOMAIN s /\ rank[From(s, k)] = k
  BY <1>1 DEF From, rank
<1> QED
  BY <1>1, <1>2 DEF rank

LEMMA SortedIs ==
  ASSUME NEW s \in Seq(Int)
  PROVE  /\ Sorted(s) \in Seq(Int) /\ DOMAIN Sorted(s) = DOMAIN s
         /\ Len(Sorted(s)) = Len(s)
         /\ \A k \in DOMAIN s : Sorted(s)[k] = s[From(s, k)]
<1> DEFINE t == Sorted(s)
<1>1. t = [k \in DOMAIN s |-> s[From(s, k)]]
  BY DEF Sorted, From
<1>2. \A k \in DOMAIN s : s[From(s, k)] \in Int
  BY FromRank, Places
<1>3. DOMAIN s = 1..Len(s) /\ Len(s) \in Nat
  BY Places
<1> HIDE DEF t
<1>4. t \in [1..Len(s) -> Int]
  BY <1>1, <1>2, <1>3
<1>5. t \in Seq(Int) /\ Len(t) = Len(s)
  BY <1>3, <1>4, SeqDef
<1> QED
  BY <1>1, <1>5 DEF t

Ascending(t) == \A k, l \in DOMAIN t : k <= l => t[k] <= t[l]

\* Sorted sorts.
LEMMA SortedAscends ==
  ASSUME NEW s \in Seq(Int)
  PROVE  Ascending(Sorted(s))
<1> DEFINE t == Sorted(s)
<1>1. ASSUME NEW k \in DOMAIN s, NEW l \in DOMAIN s, k <= l PROVE t[k] <= t[l]
  <2> DEFINE i == From(s, k)
             j == From(s, l)
  <2>1. i \in DOMAIN s /\ j \in DOMAIN s /\ Rank(s)[i] = k /\ Rank(s)[j] = l
    BY FromRank
  <2>2. t[k] = s[i] /\ t[l] = s[j]
    BY SortedIs
  <2> HIDE DEF t, i, j
  <2>3. s[i] \in Int /\ s[j] \in Int /\ k \in Nat /\ l \in Nat
    BY <2>1, Places
  <2>4. ~(s[j] < s[i])
    <3>1. s[j] < s[i] => l < k
      BY <2>1, RankOrder
    <3> QED
      BY <1>1, <2>3, <3>1
  <2> QED
    BY <2>2, <2>3, <2>4
<1> QED
  BY <1>1, SortedIs DEF Ascending

\* The samples among the values V.
Among(s, V) == {i \in DOMAIN s : s[i] \in V}
Count(s, V) == Cardinality(Among(s, V))

\* Sorting keeps all samples.
LEMMA SortedCounts ==
  ASSUME NEW s \in Seq(Int), NEW V
  PROVE  Count(Sorted(s), V) = Count(s, V)
<1> DEFINE t == Sorted(s)
           A == Among(t, V)
           D == Among(s, V)
           f == [k \in A |-> From(s, k)]
<1>1. DOMAIN t = DOMAIN s /\ \A k \in DOMAIN s : t[k] = s[From(s, k)]
  BY SortedIs
<1> HIDE DEF t
<1>2. ASSUME NEW k \in A PROVE From(s, k) \in D
  BY <1>1, FromRank DEF Among
<1>3. ASSUME NEW k \in A, NEW l \in A, From(s, k) = From(s, l) PROVE k = l
  <2>1. k \in DOMAIN s /\ l \in DOMAIN s
    BY <1>1 DEF Among
  <2>2. Rank(s)[From(s, k)] = k /\ Rank(s)[From(s, l)] = l
    BY <2>1, FromRank
  <2> QED
    BY <1>3, <2>2
<1>4. ASSUME NEW i \in D PROVE \E k \in A : From(s, k) = i
  <2>1. i \in DOMAIN s /\ s[i] \in V
    BY DEF Among
  <2>2. Rank(s)[i] \in DOMAIN s /\ From(s, Rank(s)[i]) = i
    BY <2>1, FromRank
  <2>3. Rank(s)[i] \in A
    BY <1>1, <2>1, <2>2 DEF Among
  <2> QED
    BY <2>2, <2>3
<1> HIDE DEF A, D
<1>5. f \in [A -> D]
  BY <1>2
<1>6. f \in Injection(A, D)
  BY <1>3, <1>5 DEF Injection, IsInjective
<1>7. f \in Surjection(A, D)
  BY <1>4, <1>5 DEF Surjection
<1>8. ExistsBijection(A, D)
  BY <1>6, <1>7 DEF ExistsBijection, Bijection
<1>9. IsFiniteSet(A)
  BY <1>1, Places, FS_Subset DEF A, Among
<1> QED
  BY <1>8, <1>9, FS_Bijection DEF Count, A, D, t

\* At place k of a sorted array at least k samples are at most as large as the
\* one there, and less than k are smaller.
UpTo(v)  == {x \in Int : x <= v}
Below(v) == {x \in Int : x < v}

LEMMA CountSorted ==
  ASSUME NEW t \in Seq(Int), Ascending(t), NEW k \in DOMAIN t
  PROVE  /\ Count(t, UpTo(t[k])) \in Nat /\ Count(t, UpTo(t[k])) >= k
         /\ Count(t, Below(t[k])) \in Nat /\ Count(t, Below(t[k])) < k
<1> DEFINE A == Among(t, UpTo(t[k]))
           D == Among(t, Below(t[k]))
<1>1. /\ DOMAIN t = 1..Len(t) /\ Len(t) \in Nat /\ IsFiniteSet(DOMAIN t)
      /\ \A i \in DOMAIN t : t[i] \in Int
  BY Places
<1>2. k \in Nat /\ k - 1 \in Nat /\ 1..k \subseteq DOMAIN t
  BY <1>1
<1>3. 1..k \subseteq A
  <2>1. ASSUME NEW i \in 1..k PROVE i \in A
    <3>1. i \in DOMAIN t /\ i <= k
      BY <1>2
    <3>2. t[i] <= t[k]
      BY <3>1 DEF Ascending
    <3> QED
      BY <1>1, <3>1, <3>2 DEF Among, UpTo
  <2> QED
    BY <2>1
<1>4. D \subseteq 1..(k - 1)
  <2>1. ASSUME NEW i \in D PROVE i \in 1..(k - 1)
    <3>1. i \in DOMAIN t /\ t[i] < t[k] /\ t[i] \in Int /\ t[k] \in Int
      BY <1>1 DEF Among, Below
    <3>2. ~(k <= i)
      BY <3>1 DEF Ascending
    <3> QED
      BY <1>1, <1>2, <3>1, <3>2
  <2> QED
    BY <2>1
<1>5. IsFiniteSet(A) /\ IsFiniteSet(D)
  BY <1>1, FS_Subset DEF Among
<1> HIDE DEF A, D
<1>6. /\ Cardinality(1..k) = k /\ Cardinality(1..(k - 1)) = k - 1
      /\ IsFiniteSet(1..(k - 1))
  <2>1. \A m \in Nat : IsFiniteSet(1..m) /\ Cardinality(1..m) = m
    BY FS_Interval
  <2> QED
    BY <1>2, <2>1
<1>7. Cardinality(A) \in Nat /\ Cardinality(A) >= k
  BY <1>2, <1>3, <1>5, <1>6, FS_Subset, FS_CardinalityType
<1>8. Cardinality(D) \in Nat /\ Cardinality(D) <= k - 1
  BY <1>2, <1>4, <1>5, <1>6, FS_Subset, FS_CardinalityType
<1> QED
  BY <1>2, <1>7, <1>8 DEF Count, A, D

LEMMA LargestIs ==
  ASSUME NEW X \in SUBSET Int, NEW x \in X, \A y \in X : y <= x
  PROVE  Max(X) = x
<1>1. \A z \in X : (\A y \in X : z >= y) => z = x
  OBVIOUS
<1>2. \A y \in X : x >= y
  OBVIOUS
<1> QED
  BY <1>1, <1>2 DEF Max

LEMMA SmallestIs ==
  ASSUME NEW X \in SUBSET Int, NEW x \in X, \A y \in X : x <= y
  PROVE  Min(X) = x
<1>1. \A z \in X : (\A y \in X : z =< y) => z = x
  OBVIOUS
<1> QED
  BY <1>1 DEF Min

\* The first and the last of the sorted samples are the extremes.
LEMMA Extremes ==
  ASSUME NEW s \in Seq(Int), Len(s) > 0
  PROVE  LET t == Sorted(s) IN
         /\ t[1] \in Range(s) /\ t[Len(s)] \in Range(s)
         /\ Range(s) \in SUBSET Int
         /\ \A x \in Range(s) : t[1] <= x /\ x <= t[Len(s)]
<1> DEFINE t == Sorted(s)
<1>1. /\ DOMAIN s = 1..Len(s) /\ Len(s) \in Nat /\ DOMAIN t = DOMAIN s
      /\ 1 \in DOMAIN s /\ Len(s) \in DOMAIN s
  BY Places, SortedIs
<1>2. \A k \in DOMAIN s : From(s, k) \in DOMAIN s /\ t[k] = s[From(s, k)]
  BY SortedIs, FromRank
<1>3. ASSUME NEW i \in DOMAIN s PROVE t[1] <= s[i] /\ s[i] <= t[Len(s)]
  <2> DEFINE k == Rank(s)[i]
  <2> HIDE DEF t
  <2>4. k \in DOMAIN s /\ From(s, k) = i
    BY FromRank
  <2> HIDE DEF k
  <2>1. k \in DOMAIN s /\ t[k] = s[i]
    BY <1>2, <2>4
  <2>2. 1 <= k /\ k <= Len(s)
    BY <1>1, <2>1
  <2>3. t[1] <= t[k] /\ t[k] <= t[Len(s)]
    BY <1>1, <2>1, <2>2, SortedAscends DEF Ascending, t
  <2> QED
    BY <2>1, <2>3
<1>4. \A i \in DOMAIN s : s[i] \in Int
  BY Places
<1> HIDE DEF t
<1>5. Range(s) = {s[i] : i \in DOMAIN s}
  BY DEF Range
<1>6. t[1] \in Range(s) /\ t[Len(s)] \in Range(s) /\ Range(s) \in SUBSET Int
  BY <1>1, <1>2, <1>4, <1>5
<1>7. \A x \in Range(s) : t[1] <= x /\ x <= t[Len(s)]
  BY <1>3, <1>5
<1> QED
  BY <1>6, <1>7 DEF t

\* What StatsOrdered and StatsAreSamples say of statistics st of samples s.
Order(st) ==
  /\ st.min \in Int /\ st.median \in Int /\ st.p95 \in Int
  /\ st.p99 \in Int /\ st.max \in Int
  /\ st.min <= st.median /\ st.median <= st.p95
  /\ st.p95 <= st.p99 /\ st.p99 <= st.max
Shares(st, s) ==
  /\ Count(s, UpTo(st.p95)) * 100 > 95 * Len(s)
  /\ Count(s, Below(st.p95)) * 100 <= 95 * Len(s)
  /\ Count(s, UpTo(st.p99)) * 100 > 99 * Len(s)
  /\ Count(s, Below(st.p99)) * 100 <= 99 * Len(s)
  /\ Count(s, UpTo(st.median)) * 2 > Len(s)
  /\ Count(s, Below(st.median)) * 2 <= Len(s)
Ends(st, s) ==
  /\ st.max \in Range(s) <=> \E x \in Range(s) : x >= -1 * Unit
  /\ \A x \in Range(s) : st.min <= x /\ x <= st.max
  /\ st.min \in Range(s)
Described(st, s) == Order(st) /\ Shares(st, s) /\ Ends(st, s)

\* C's index count * q / 100, from 1.
Place(c, q) == (c * q) \div 100 + 1

LEMMA PlaceIs ==
  ASSUME NEW c \in Nat \ {0}
  PROVE  /\ c \div 2 + 1 \in 1..c /\ Place(c, 95) \in 1..c /\ Place(c, 99) \in 1..c
         /\ c \div 2 + 1 <= Place(c, 95) /\ Place(c, 95) <= Place(c, 99)
         /\ 2 * (c \div 2 + 1) > c /\ 2 * (c \div 2) <= c
         /\ 100 * Place(c, 95) > 95 * c /\ 100 * (Place(c, 95) - 1) <= 95 * c
         /\ 100 * Place(c, 99) > 99 * c /\ 100 * (Place(c, 99) - 1) <= 99 * c
  BY DEF Place

LEMMA CrunchDescribes ==
  ASSUME NEW s \in Seq(Int), Len(s) > 0, Unit \in Nat \ {0}
  PROVE  Described(Crunch(s), s)
<1> DEFINE t == Sorted(s)
           c == Len(s)
           st == Crunch(s)
<1>1. c \in Nat \ {0}
  BY Places
<1>2. t \in Seq(Int) /\ DOMAIN t = 1..c /\ Len(t) = c /\ Ascending(t)
  BY SortedIs, SortedAscends, Places
<1>3. /\ t[1] \in Range(s) /\ t[c] \in Range(s) /\ Range(s) \in SUBSET Int
      /\ \A x \in Range(s) : t[1] <= x /\ x <= t[c]
  BY Extremes
<1>15. PICK m, a, b : m = c \div 2 + 1 /\ a = Place(c, 95) /\ b = Place(c, 99)
  OBVIOUS
<1>4. st.median = t[m] /\ st.p95 = t[a] /\ st.p99 = t[b]
  BY <1>2, <1>15 DEF Crunch, At, Percentile, Place
<1>5. /\ st.min = Min(Range(s))
      /\ st.max = Max({-1 * Unit} \cup Range(s))
  BY DEF Crunch
<1> HIDE DEF t, c, st
<1>6. st.min = t[1]
  BY <1>3, <1>5, SmallestIs
<1>7. /\ st.max \in Int /\ t[c] <= st.max /\ st.max >= -1 * Unit
      /\ st.max = t[c] \/ (st.max = -1 * Unit /\ t[c] < -1 * Unit)
  <2> DEFINE X == {-1 * Unit} \cup Range(s)
  <2>1. t[c] \in Int /\ -1 * Unit \in Int /\ X \in SUBSET Int
    BY <1>3
  <2>2. CASE t[c] >= -1 * Unit
    <3>1. t[c] \in X /\ \A y \in X : y <= t[c]
      BY <1>3, <2>2
    <3>2. st.max = t[c]
      BY <1>5, <2>1, <3>1, LargestIs
    <3> QED
      BY <2>1, <2>2, <3>2
  <2>3. CASE ~(t[c] >= -1 * Unit)
    <3>1. -1 * Unit \in X /\ \A y \in X : y <= -1 * Unit
      BY <1>3, <2>1, <2>3
    <3>2. st.max = -1 * Unit
      BY <1>5, <2>1, <3>1, LargestIs
    <3> QED
      BY <2>1, <2>3, <3>2
  <2> QED
    BY <2>2, <2>3
<1>8. /\ m \in 1..c /\ a \in 1..c /\ b \in 1..c
      /\ 1 \in 1..c /\ c \in 1..c
      /\ m <= a /\ a <= b
      /\ 2 * m > c /\ 2 * (m - 1) <= c
      /\ 100 * a > 95 * c /\ 100 * (a - 1) <= 95 * c
      /\ 100 * b > 99 * c /\ 100 * (b - 1) <= 99 * c
  <2>1. m - 1 = c \div 2
    BY <1>1, <1>15
  <2> QED
    BY <1>1, <1>15, <2>1, PlaceIs
<1>9. /\ \A k \in 1..c : t[k] \in Int
      /\ t[1] <= t[m] /\ t[m] <= t[a] /\ t[a] <= t[b] /\ t[b] <= t[c]
  <2>1. 1 <= m /\ b <= c
    BY <1>8
  <2>2. \A k, l \in 1..c : k <= l => t[k] <= t[l]
    BY <1>2 DEF Ascending
  <2>3. \A k \in 1..c : t[k] \in Int
    BY <1>2
  <2> QED
    BY <1>8, <2>1, <2>2, <2>3
<1>10. Order(st)
  <2>1. t[b] <= st.max
    <3>1. t[b] \in Int /\ t[c] \in Int /\ t[b] <= t[c] /\ t[c] <= st.max /\ st.max \in Int
      BY <1>7, <1>8, <1>9
    <3> QED
      BY <3>1
  <2> QED
    BY <1>4, <1>6, <1>7, <1>8, <1>9, <2>1 DEF Order
<1>11. \A k \in 1..c : /\ Count(s, UpTo(t[k])) \in Nat /\ Count(s, UpTo(t[k])) >= k
                       /\ Count(s, Below(t[k])) \in Nat /\ Count(s, Below(t[k])) < k
  BY <1>2, CountSorted, SortedCounts DEF t
<1>12. Shares(st, s)
  <2>1. /\ Count(s, UpTo(t[m])) * 2 > c /\ Count(s, Below(t[m])) * 2 <= c
    <3>1. PICK x, y \in Nat : /\ x = Count(s, UpTo(t[m])) /\ y = Count(s, Below(t[m]))
                              /\ x >= m /\ y < m
      BY <1>8, <1>11
    <3> QED
      BY <1>1, <1>8, <3>1
  <2>2. /\ Count(s, UpTo(t[a])) * 100 > 95 * c /\ Count(s, Below(t[a])) * 100 <= 95 * c
    <3>1. PICK x, y \in Nat : /\ x = Count(s, UpTo(t[a])) /\ y = Count(s, Below(t[a]))
                              /\ x >= a /\ y < a
      BY <1>8, <1>11
    <3> QED
      BY <1>1, <1>8, <3>1
  <2>3. /\ Count(s, UpTo(t[b])) * 100 > 99 * c /\ Count(s, Below(t[b])) * 100 <= 99 * c
    <3>1. PICK x, y \in Nat : /\ x = Count(s, UpTo(t[b])) /\ y = Count(s, Below(t[b]))
                              /\ x >= b /\ y < b
      BY <1>8, <1>11
    <3> QED
      BY <1>1, <1>8, <3>1
  <2> QED
    BY <1>4, <2>1, <2>2, <2>3 DEF Shares, c
<1>13. Ends(st, s)
  <2>1. ASSUME NEW x \in Range(s) PROVE st.min <= x /\ x <= st.max
    <3>1. x \in Int /\ t[1] <= x /\ x <= t[c] /\ t[c] \in Int
      BY <1>3
    <3> QED
      BY <1>6, <1>7, <3>1
  <2>2. ASSUME NEW x \in Range(s), x >= -1 * Unit PROVE st.max \in Range(s)
    <3>1. x \in Int /\ x <= t[c] /\ t[c] \in Int /\ -1 * Unit \in Int
      BY <1>3
    <3>2. ~(t[c] < -1 * Unit)
      BY <2>2, <3>1
    <3> QED
      BY <1>3, <1>7, <3>2
  <2>3. st.max \in Range(s) => \E x \in Range(s) : x >= -1 * Unit
    BY <1>7
  <2> QED
    BY <1>3, <1>6, <2>1, <2>2, <2>3 DEF Ends
<1> QED
  BY <1>10, <1>12, <1>13 DEF Described, st

\* The statistics describe the samples after they are sorted as well.
LEMMA SortedDescribed ==
  ASSUME NEW s \in Seq(Int), NEW st, Described(st, s)
  PROVE  Described(st, Sorted(s))
<1> DEFINE t == Sorted(s)
<1>1. Len(t) = Len(s) /\ DOMAIN t = DOMAIN s
  BY SortedIs
<1>2. \A V : Count(t, V) = Count(s, V)
  BY SortedCounts
<1>3. Range(t) = Range(s)
  <2>1. Range(t) = {t[k] : k \in DOMAIN t} /\ Range(s) = {s[i] : i \in DOMAIN s}
    BY DEF Range
  <2>2. \A k \in DOMAIN s : From(s, k) \in DOMAIN s /\ t[k] = s[From(s, k)]
    BY SortedIs, FromRank
  <2> HIDE DEF t
  <2>3. ASSUME NEW i \in DOMAIN s PROVE \E k \in DOMAIN s : t[k] = s[i]
    <3>1. Rank(s)[i] \in DOMAIN s /\ From(s, Rank(s)[i]) = i
      BY FromRank
    <3> QED
      BY <2>2, <3>1
  <2> QED
    BY <1>1, <2>1, <2>2, <2>3
<1> HIDE DEF t
<1>4. Shares(st, t) <=> Shares(st, s)
  BY <1>1, <1>2 DEF Shares
<1>5. Ends(st, t) <=> Ends(st, s)
  BY <1>3 DEF Ends
<1> QED
  BY <1>4, <1>5 DEF Described, t

(***************************************************************************)
(* The width of a bucket.                                                  *)
(***************************************************************************)
Widening(r, g) ==
  [c \in Nat \ {0} |-> IF r < 10 * c THEN CeilDiv(r, c) ELSE 10 * g[10 * c]]
Widths(r) ==
  CHOOSE g : g = [c \in Nat \ {0} |-> IF r < 10 * c THEN CeilDiv(r, c) ELSE 10 * g[10 * c]]

LEMMA WidthIs ==
  ASSUME NEW r
  PROVE  BucketWidth(r) = Widths(r)[Unit * (HistoSize - 1)]
  BY DEF BucketWidth, Widths

\* The loop ends: ten times as large a divisor is closer to r.
LEMMA WidthExists ==
  ASSUME NEW r \in Nat
  PROVE  Widths(r) = Widening(r, Widths(r))
<1> DEFINE Upto(m, g) == \A c \in Nat \ {0} : r - c < m => g[c] = Widening(r, g)[c]
           Claim(m) == \E g : Upto(m, g)
           C == {m \in Nat : Claim(m)}
<1>1. Claim(0)
  <2> DEFINE g == Widening(r, [c \in Nat \ {0} |-> 0])
  <2>1. ASSUME NEW c \in Nat \ {0}, r - c < 0 PROVE g[c] = Widening(r, g)[c]
    <3>1. r < 10 * c
      BY <2>1
    <3> QED
      BY <3>1 DEF Widening
  <2> QED
    BY <2>1
<1>2. ASSUME NEW m \in Nat \ {0}, Claim(m - 1) PROVE Claim(m)
  <2>1. PICK g : Upto(m - 1, g)
    BY <1>2
  <2> DEFINE h == Widening(r, g)
  <2>2. ASSUME NEW c \in Nat \ {0}, r - c < m PROVE h[c] = Widening(r, h)[c]
    <3>1. CASE r < 10 * c
      BY <3>1 DEF Widening
    <3>2. CASE ~(r < 10 * c)
      <4>1. 10 * c \in Nat \ {0} /\ r - 10 * c < m - 1
        BY <2>2
      <4>2. g[10 * c] = h[10 * c]
        BY <2>1, <4>1
      <4>3. h[c] = 10 * g[10 * c] /\ Widening(r, h)[c] = 10 * h[10 * c]
        BY <3>2 DEF Widening
      <4> QED
        BY <4>2, <4>3
    <3> QED
      BY <3>1, <3>2
  <2> HIDE DEF h
  <2> QED
    BY <2>2
<1>3. C = Nat
  <2> HIDE DEF Claim
  <2>1. 0 \in C /\ C \in SUBSET Nat /\ \A m \in Nat \ {0} : m - 1 \in C => m \in C
    BY <1>1, <1>2
  <2> HIDE DEF C
  <2> QED
    BY <2>1, AllNumbers
<1>4. PICK g : Upto(r, g)
  BY <1>3
<1> DEFINE h == Widening(r, g)
<1>5. ASSUME NEW c \in Nat \ {0} PROVE h[c] = Widening(r, h)[c]
  <2>1. \A d \in Nat \ {0} : g[d] = h[d]
    <3>1. \A d \in Nat \ {0} : r - d < r
      OBVIOUS
    <3> QED
      BY <1>4, <3>1
  <2>2. 10 * c \in Nat \ {0}
    OBVIOUS
  <2> QED
    BY <2>1, <2>2 DEF Widening
<1>6. h = Widening(r, h)
  <2>1. /\ h = [c \in Nat \ {0} |-> h[c]]
        /\ Widening(r, h) = [c \in Nat \ {0} |-> Widening(r, h)[c]]
    BY DEF Widening
  <2> HIDE DEF h
  <2> QED
    BY <1>5, <2>1
<1> HIDE DEF h
<1>7. \E k : k = [c \in Nat \ {0} |-> IF r < 10 * c THEN CeilDiv(r, c) ELSE 10 * k[10 * c]]
  BY <1>6 DEF Widening
<1> QED
  BY <1>7 DEF Widths, Widening

LEMMA Divided ==
  ASSUME NEW a \in Int, NEW b \in Nat \ {0}
  PROVE  a \div b \in Int /\ b * (a \div b) <= a /\ a < b * (a \div b) + b
  OBVIOUS

LEMMA CeilDivides ==
  ASSUME NEW r \in Nat \ {0}, NEW c \in Nat \ {0}
  PROVE  CeilDiv(r, c) \in Nat \ {0} /\ CeilDiv(r, c) * c >= r
<1>1. PICK q \in Int : q = CeilDiv(r, c) /\ c * q <= r + c - 1 /\ r + c - 1 < c * q + c
  <2>1. r + c - 1 \in Int
    OBVIOUS
  <2> QED
    BY <2>1, Divided DEF CeilDiv
<1>2. c * q >= r
  BY <1>1
<1>3. q > 0
  BY <1>2
<1> QED
  BY <1>1, <1>2, <1>3

\* No range, no width.
LEMMA NoWidth ==
  \A c \in Nat \ {0} : Widths(0)[c] = 0
<1>1. ASSUME NEW c \in Nat \ {0} PROVE Widths(0)[c] = 0
  <2>1. Widths(0) = Widening(0, Widths(0))
    BY WidthExists
  <2>2. Widths(0)[c] = CeilDiv(0, c)
    <3>1. 0 < 10 * c
      OBVIOUS
    <3> QED
      BY <2>1, <3>1 DEF Widening
  <2>3. PICK q \in Int : q = CeilDiv(0, c) /\ c * q <= c - 1 /\ c - 1 < c * q + c
    <3>1. 0 + c - 1 = c - 1 /\ c - 1 \in Int
      OBVIOUS
    <3> QED
      BY <3>1, Divided DEF CeilDiv
  <2>4. q < 1 /\ q > -1
    BY <2>3
  <2>5. q = 0
    BY <2>4
  <2> QED
    BY <2>2, <2>3, <2>5
<1> QED
  BY <1>1

\* The buckets cover r95.
LEMMA WidthCovers ==
  ASSUME NEW r \in Nat \ {0}
  PROVE  \A c \in Nat \ {0} : Widths(r)[c] \in Nat \ {0} /\ Widths(r)[c] * c >= r
<1> DEFINE w == Widths(r)
           Good(c) == w[c] \in Nat \ {0} /\ w[c] * c >= r
           Claim(m) == \A c \in Nat \ {0} : r - c < m => Good(c)
           C == {m \in Nat : Claim(m)}
<1>1. \A c \in Nat \ {0} : w[c] = IF r < 10 * c THEN CeilDiv(r, c) ELSE 10 * w[10 * c]
  BY WidthExists DEF Widening
<1> HIDE DEF w
<1>2. ASSUME NEW c \in Nat \ {0}, r < 10 * c PROVE Good(c)
  <2>1. w[c] = CeilDiv(r, c)
    BY <1>1, <1>2
  <2> QED
    BY <2>1, CeilDivides
<1>3. Claim(0)
  <2>1. \A c \in Nat \ {0} : r - c < 0 => r < 10 * c
    OBVIOUS
  <2> QED
    BY <1>2, <2>1
<1>4. ASSUME NEW m \in Nat \ {0}, Claim(m - 1) PROVE Claim(m)
  <2>1. ASSUME NEW c \in Nat \ {0}, r - c < m, ~(r < 10 * c) PROVE Good(c)
    <3>1. 10 * c \in Nat \ {0} /\ r - 10 * c < m - 1
      BY <2>1
    <3>2. Good(10 * c)
      BY <1>4, <3>1
    <3>3. PICK k \in Nat \ {0} : k = w[10 * c] /\ k * (10 * c) >= r
      BY <3>2
    <3>4. w[c] = 10 * k
      BY <1>1, <2>1, <3>3
    <3>5. 10 * k \in Nat \ {0} /\ (10 * k) * c = k * (10 * c)
      OBVIOUS
    <3> QED
      BY <3>3, <3>4, <3>5
  <2> HIDE DEF Good
  <2> QED
    BY <1>2, <2>1
<1>5. C = Nat
  <2> HIDE DEF Claim
  <2>1. 0 \in C /\ C \in SUBSET Nat /\ \A m \in Nat \ {0} : m - 1 \in C => m \in C
    BY <1>3, <1>4
  <2> HIDE DEF C
  <2> QED
    BY <2>1, AllNumbers
<1>6. \A c \in Nat \ {0} : r - c < r
  OBVIOUS
<1>7. Claim(r)
  <2> HIDE DEF Claim
  <2> QED
    BY <1>5
<1> HIDE DEF Good
<1>8. \A c \in Nat \ {0} : Good(c)
  BY <1>6, <1>7
<1> QED
  BY <1>8 DEF Good, w

(***************************************************************************)
(* The histogram.                                                          *)
(***************************************************************************)
LEMMA Truncated ==
  ASSUME NEW a \in Int, NEW b \in Nat \ {0}
  PROVE  LET q == TruncDiv(a, b) IN
         /\ q \in Int
         /\ a >= 0 => q >= 0 /\ q * b <= a /\ a < q * b + b
         /\ a < 0 => q <= 0 /\ a <= q * b /\ q * b - b < a
<1>1. CASE a >= 0
  <2>1. PICK q \in Int : q = TruncDiv(a, b) /\ b * q <= a /\ a < b * q + b
    BY <1>1, Divided DEF TruncDiv
  <2>2. q >= 0
    <3>1. b * q > -b
      BY <1>1, <2>1
    <3>2. q > -1
      BY <3>1
    <3> QED
      BY <3>2
  <2> QED
    BY <1>1, <2>1, <2>2
<1>2. CASE a < 0
  <2>1. -a \in Int /\ -a > 0
    BY <1>2
  <2>2. PICK p \in Int : p = (-a) \div b /\ b * p <= -a /\ -a < b * p + b
    BY <2>1, Divided
  <2>3. TruncDiv(a, b) = -p
    BY <1>2, <2>2 DEF TruncDiv
  <2>4. p >= 0
    <3>1. b * p > -b
      BY <2>1, <2>2
    <3>2. p > -1
      BY <3>1
    <3> QED
      BY <3>2
  <2>5. (-p) * b = -(b * p) /\ -p \in Int /\ -p <= 0
    BY <2>4
  <2>6. a <= (-p) * b /\ (-p) * b - b < a
    BY <2>2, <2>5
  <2> QED
    BY <1>2, <2>3, <2>5, <2>6
<1> QED
  BY <1>1, <1>2

\* A quotient between -1 and 32 is cut to 0..31.
LEMMA InBucket ==
  ASSUME NEW z \in Int, NEW d \in Nat \ {0}, -d < z, z < 32 * d
  PROVE  TruncDiv(31 * z, 31 * d) \in 0..31
<1>1. 31 * z \in Int /\ 31 * d \in Nat \ {0}
  OBVIOUS
<1>2. PICK q \in Int :
        /\ q = TruncDiv(31 * z, 31 * d)
        /\ 31 * z >= 0 => q >= 0 /\ q * (31 * d) <= 31 * z
        /\ 31 * z < 0 => q <= 0 /\ q * (31 * d) - 31 * d < 31 * z
                         /\ 31 * z <= q * (31 * d)
  BY <1>1, Truncated
<1>3. PICK x \in Int : x = q * d /\ q * (31 * d) = 31 * x
  OBVIOUS
<1>4. CASE z >= 0
  <2>1. q >= 0 /\ x <= z
    BY <1>2, <1>3, <1>4
  <2>2. q * d < 32 * d
    BY <1>3, <2>1
  <2>3. q < 32
    BY <2>2
  <2> QED
    BY <1>2, <2>1, <2>3
<1>5. CASE z < 0
  <2>1. q <= 0 /\ z <= x
    BY <1>2, <1>3, <1>5
  <2>2. q * d > -d
    BY <1>3, <2>1
  <2>3. q > -1
    BY <2>2
  <2> QED
    BY <1>2, <2>1, <2>3
<1> QED
  BY <1>4, <1>5

LEMMA Multiple ==
  ASSUME NEW a \in Int, NEW d \in Nat \ {0}
  PROVE  a % d = 0 <=> \E k \in Int : a = k * d
<1>1. PICK q \in Int : q = a \div d /\ a = d * q + (a % d) /\ a % d \in 0..(d - 1)
  OBVIOUS
<1>2. ASSUME NEW k \in Int, a = k * d PROVE a % d = 0
  <2>1. PICK r \in 0..(d - 1) : r = a % d /\ k * d = q * d + r
    BY <1>1, <1>2
  <2>2. PICK e \in Int : e = k - q
    OBVIOUS
  <2>3. e * d = r
    <3>1. e * d = k * d - q * d
      BY <2>2
    <3> QED
      BY <2>1, <3>1
  <2>4. e < 1
    <3>1. ASSUME e >= 1 PROVE FALSE
      <4>1. e * d >= d
        BY <3>1
      <4> QED
        BY <2>3, <4>1
    <3> QED
      BY <3>1
  <2>5. e > -1
    <3>1. ASSUME e <= -1 PROVE FALSE
      <4>1. e * d <= -d
        BY <3>1
      <4> QED
        BY <2>3, <4>1
    <3> QED
      BY <3>1
  <2> QED
    BY <2>1, <2>3, <2>4, <2>5
<1>3. ASSUME a % d = 0 PROVE a = q * d
  BY <1>1, <1>3
<1> QED
  BY <1>2, <1>3

\* f whole microseconds of u units are the smallest sample lo, truncated after
\* less than a unit is added.
Whole(f, lo, u) ==
  /\ lo >= 0 => f >= 0 /\ f * u <= lo
  /\ lo < 0 => f <= 0 /\ lo + 1 <= f * u /\ f * u - u <= lo

LEMMA LeastWholeIs ==
  ASSUME NEW lo \in Int, Unit \in Nat \ {0}
  PROVE  LeastWhole(lo) \in Int /\ Whole(LeastWhole(lo), lo, Unit)
<1>1. CASE lo >= 0
  <2>1. LeastWhole(lo) = TruncDiv(lo, Unit)
    BY <1>1 DEF LeastWhole
  <2> QED
    BY <1>1, <2>1, Truncated DEF Whole
<1>2. CASE lo < 0
  <2>1. PICK a \in Int : a = lo + 1 /\ a <= 0 /\ LeastWhole(lo) = TruncDiv(a, Unit)
    BY <1>2 DEF LeastWhole
  <2>2. PICK q \in Int :
          /\ q = TruncDiv(a, Unit)
          /\ a >= 0 => q >= 0 /\ q * Unit <= a
          /\ a < 0 => q <= 0 /\ a <= q * Unit /\ q * Unit - Unit < a
    BY Truncated
  <2>3. CASE a = 0
    <3>1. q = 0
      <4>1. q * Unit <= 0 /\ q >= 0
        BY <2>2, <2>3
      <4>2. q < 1
        BY <4>1
      <4> QED
        BY <4>1, <4>2
    <3>2. q * Unit = 0
      BY <3>1
    <3> QED
      BY <1>2, <2>1, <2>2, <2>3, <3>1, <3>2 DEF Whole
  <2>4. CASE a < 0
    BY <1>2, <2>1, <2>2, <2>4 DEF Whole
  <2> QED
    BY <2>1, <2>3, <2>4
<1> QED
  BY <1>1, <1>2

\* The width of the samples up to the 95th percentile hi is 0 only where they
\* are all the same whole negative number.
LEMMA Reach ==
  ASSUME NEW u \in Nat \ {0}, NEW lo \in Int, NEW hi \in Int, lo <= hi,
         NEW f \in Int, Whole(f, lo, u)
  PROVE  /\ hi - f * u + u \in Nat
         /\ hi - f * u + u = 0 => lo < 0 /\ lo % u = 0
<1>1. PICK fu \in Int : fu = f * u
  OBVIOUS
<1>2. /\ lo >= 0 => fu <= lo
      /\ lo < 0 => fu - u <= lo
  BY <1>1 DEF Whole
<1>3. ASSUME hi - fu + u = 0 PROVE lo < 0 /\ lo % u = 0
  <2>1. lo < 0 /\ lo = fu - u
    BY <1>2, <1>3
  <2>2. fu - u = (f - 1) * u /\ f - 1 \in Int
    BY <1>1
  <2> QED
    BY <2>1, <2>2, Multiple
<1>4. hi - fu + u \in Nat
  BY <1>2
<1> QED
  BY <1>1, <1>3, <1>4

\* A negative multiple of d.
Sinks(a, d) == a < 0 /\ a % d = 0

\* 31 widths of y microseconds reach from f to the 95th percentile hi.
Reaches(y, f, hi, u) == y * (31 * u) >= hi - f * u + u
\* The bucket of sample a where the first one is at g widths.
BucketOf(a, g, y, u) == TruncDiv(31 * (a - (g * y) * u), (y * 31) * u)

\* q is the bucket of sample a among those of lo to hi.
Placed(u, y, lo, hi, a, f, g, q) ==
  /\ u \in Nat \ {0} /\ y \in Nat \ {0} /\ lo \in Int /\ hi \in Int /\ a \in Int
  /\ lo <= a /\ a <= hi
  /\ f \in Int /\ Whole(f, lo, u) /\ g \in Int /\ g = TruncDiv(f, y)
  /\ Reaches(y, f, hi, u) /\ q = BucketOf(a, g, y, u)

\* The buckets, of width y and from a multiple of y below the smallest sample
\* lo (toward 0), reach the 95th percentile hi: no sample a between them falls
\* behind the last bucket, and only a smallest one that is a negative multiple
\* of the width falls in front of the first.
LEMMA BucketReached ==
  ASSUME NEW u, NEW y, NEW lo, NEW hi, NEW a, NEW f, NEW g, NEW q,
         Placed(u, y, lo, hi, a, f, g, q)
  PROVE  /\ q \in (-1)..31
         /\ q = -1 <=> a = lo /\ Sinks(lo, u * y)
<1> USE DEF Placed
<1>1. PICK fu \in Int : fu = f * u
  OBVIOUS
<1>2. PICK b \in Int : b = g * y
  OBVIOUS
<1>3. PICK bu \in Int : bu = b * u
  OBVIOUS
<1>4. PICK d \in Nat \ {0} : d = y * u /\ d = u * y
  OBVIOUS
<1>5. /\ y * (31 * u) = 31 * d
      /\ (y * 31) * u = 31 * d
  BY <1>4
<1>6. u <= d
  BY <1>4
<1>7. /\ lo >= 0 => f >= 0 /\ fu <= lo
      /\ lo < 0 => f <= 0 /\ lo + 1 <= fu /\ fu - u <= lo
  BY <1>1 DEF Whole
<1>8. /\ f >= 0 => g >= 0 /\ b <= f /\ f < b + y
      /\ f < 0 => f <= b /\ b - y < f
  BY <1>2, Truncated
<1>9. hi <= 31 * d + fu - u
  BY <1>1, <1>5 DEF Reaches
<1>10. PICK z \in Int : z = a - bu
  OBVIOUS
<1>13. q = TruncDiv(31 * z, 31 * d)
  BY <1>2, <1>3, <1>5, <1>10 DEF BucketOf
<1>11. CASE lo >= 0
  <2>1. bu <= fu /\ fu <= bu + d - u
    <3>1. b * u <= f * u
      BY <1>7, <1>8, <1>11
    <3>2. f <= b + y - 1
      BY <1>7, <1>8, <1>11
    <3>3. f * u <= (b + y - 1) * u
      BY <3>2
    <3>4. (b + y - 1) * u = bu + d - u
      BY <1>3, <1>4
    <3> QED
      BY <1>1, <1>3, <3>1, <3>3, <3>4
  <2>2. -d < z /\ z < 32 * d
    BY <1>6, <1>7, <1>9, <1>10, <1>11, <2>1
  <2>3. q \in 0..31
    BY <1>13, <2>2, InBucket
  <2> QED
    BY <1>11, <2>3 DEF Sinks
<1>12. CASE lo < 0
  <2>1. f <= b /\ b - y < f
    <3>1. CASE f = 0
      <4>1. g * y <= 0 /\ g >= 0
        BY <1>2, <1>8, <3>1
      <4>2. g < 1
        BY <4>1
      <4>3. b = 0
        BY <1>2, <4>1, <4>2
      <4> QED
        BY <3>1, <4>3
    <3>2. CASE f < 0
      BY <1>8, <3>2
    <3> QED
      BY <1>7, <1>12, <3>1, <3>2
  <2>2. fu <= bu /\ bu - d + u <= fu
    <3>1. f * u <= b * u
      BY <2>1
    <3>2. b - y + 1 <= f
      BY <2>1
    <3>3. (b - y + 1) * u <= f * u
      BY <3>2
    <3>4. (b - y + 1) * u = bu - d + u
      BY <1>3, <1>4
    <3> QED
      BY <1>1, <1>3, <3>1, <3>3, <3>4
  <2>3. -d <= z /\ z < 32 * d
    BY <1>6, <1>7, <1>9, <1>10, <1>12, <2>2
  <2>4. ASSUME z = -d PROVE lo % d = 0 /\ a = lo
    <3>1. a = lo /\ lo = bu - d
      BY <1>7, <1>10, <1>12, <2>2, <2>4
    <3>2. bu - d = (g - 1) * d /\ g - 1 \in Int
      BY <1>2, <1>3, <1>4
    <3> QED
      BY <3>1, <3>2, Multiple
  <2>5. ASSUME lo % d = 0, a = lo PROVE z = -d
    <3>1. PICK k \in Int : lo = k * d
      BY <2>5, Multiple
    <3>2. PICK ky \in Int : ky = k * y /\ lo = ky * u
      BY <1>4, <3>1
    <3>3. f = ky + 1
      <4>1. (f - ky) * u = fu - lo
        BY <1>1, <3>2
      <4>2. PICK e \in Int : e = f - ky /\ e * u >= 1 /\ e * u <= u
        BY <1>7, <1>12, <4>1
      <4>3. e > 0
        BY <4>2
      <4>4. e < 2
        <5>1. ASSUME e >= 2 PROVE FALSE
          <6>1. e * u >= 2 * u
            BY <5>1
          <6> QED
            BY <4>2, <6>1
        <5> QED
          BY <5>1
      <4> QED
        BY <4>2, <4>3, <4>4
    <3>4. g = k + 1
      <4>1. PICK e \in Int : e = g - k /\ e * y = b - ky
        BY <1>2, <3>2
      <4>2. 1 <= e * y /\ e * y < 1 + y
        BY <2>1, <3>3, <4>1
      <4>3. e > 0
        BY <4>2
      <4>4. e < 2
        <5>1. ASSUME e >= 2 PROVE FALSE
          <6>1. e * y >= 2 * y
            BY <5>1
          <6> QED
            BY <4>2, <6>1
        <5> QED
          BY <5>1
      <4> QED
        BY <4>1, <4>3, <4>4
    <3>5. bu = k * d + d
      BY <1>2, <1>3, <1>4, <3>4
    <3> QED
      BY <1>10, <2>5, <3>1, <3>5
  <2>6. CASE z = -d
    <3>1. 31 * z < 0 /\ -(31 * z) = 31 * d /\ 31 * d \in Nat \ {0}
      BY <2>6
    <3>2. (31 * d) \div (31 * d) = 1
      BY <3>1
    <3>3. q = -1
      BY <1>13, <3>1, <3>2 DEF TruncDiv
    <3> QED
      BY <1>4, <1>12, <2>4, <2>6, <3>3 DEF Sinks
  <2>7. CASE z # -d
    <3>1. q \in 0..31
      BY <1>13, <2>3, <2>7, InBucket
    <3> QED
      BY <1>4, <2>5, <2>7, <3>1 DEF Sinks
  <2> QED
    BY <2>6, <2>7
<1> QED
  BY <1>11, <1>12

Sampled(c) == 0..((c * 95) \div 100 - 1)
Buckets == 0..31

\* The smallest of the sorted samples t is a negative multiple of y
\* microseconds.
Deep(t, y) == Sinks(t[1], Unit * y)

\* Every sample below the 95th percentile of the sorted samples t is put into
\* one of the 32 buckets of h, and counted there; but not the smallest ones
\* that are a negative multiple of the width y of the buckets.
Counted(h, t) ==
  /\ h.panics = {} /\ DOMAIN h.count = Buckets
  /\ h.beyond = Len(t) - (Len(t) * 95) \div 100
  /\ \E y \in Nat \ {0} :
       /\ h.scale = y * 31
       /\ h.strays = {i \in Sampled(Len(t)) : Deep(t, y) /\ t[i + 1] = t[1]}
  /\ \E f \in [Sampled(Len(t)) \ h.strays -> Buckets] :
       \A j \in Buckets :
         h.count[j] = Cardinality({i \in Sampled(Len(t)) \ h.strays : f[i] = j})

LEMMA HistogramIs ==
  ASSUME NEW t \in Seq(Int), Len(t) > 0, Ascending(t), Unit \in Nat \ {0}
  PROVE  /\ Width(t) = 0 => Deep(t, 1)
         /\ Width(t) # 0 => Counted(Histogram(t), t)
<1> DEFINE c == Len(t)
           h == Histogram(t)
           k == HistoSize - 1
           i95 == (c * 95) \div 100
           first == LeastWhole(At(t, 0))
           r95 == At(t, i95) - first * Unit + Unit
           y == BucketWidth(r95)
           g == TruncDiv(first, y)
           scale == Max({y * k, k})
           bucket(i) == TruncDiv(k * (At(t, i) - (g * y) * Unit), scale * Unit)
           I == 0..(i95 - 1)
           S == {i \in I : bucket(i) < 0}
           f == [i \in I \ S |-> bucket(i)]
<1>1. /\ Width(t) = y
      /\ h.panics = {i \in I : bucket(i) >= HistoSize}
      /\ h.strays = S /\ h.scale = scale
      /\ h.count = [j \in 0..k |-> Cardinality({i \in I : j = Min({bucket(i), k})})]
      /\ h.beyond = c - i95
  BY DEF Histogram, Width, I95
<1> HIDE DEF h, bucket, scale
<1>2. k = 31 /\ HistoSize = 32 /\ Sampled(c) = I
  BY DEF HistoSize, Sampled
<1>3. c \in Nat \ {0} /\ DOMAIN t = 1..c /\ \A m \in 1..c : t[m] \in Int
  BY Places
<1>4. PICK top \in 1..c : top = Place(c, 95) /\ top = i95 + 1 /\ i95 \in Nat
  BY <1>3, PlaceIs DEF Place
<1>5. /\ At(t, i95) = t[top] /\ At(t, 0) = t[1]
      /\ t[top] \in Int /\ t[1] \in Int /\ t[1] <= t[top]
  <2>1. 1 \in 1..c /\ 1 <= top
    BY <1>3
  <2>2. t[1] <= t[top]
    BY <1>3, <1>4, <2>1 DEF Ascending
  <2> QED
    BY <1>3, <1>4, <2>1, <2>2 DEF At
<1> HIDE DEF i95, k, c
<1>6. first = LeastWhole(t[1]) /\ r95 = t[top] - first * Unit + Unit
  BY <1>5
<1> HIDE DEF first, r95
<1>7. /\ first \in Int /\ Whole(first, t[1], Unit)
      /\ r95 \in Nat /\ (r95 = 0 => t[1] < 0 /\ t[1] % Unit = 0)
  <2>1. PICK q \in Int : q = first /\ Whole(q, t[1], Unit)
    BY <1>5, <1>6, LeastWholeIs
  <2> QED
    BY <1>5, <1>6, <2>1, Reach
<1>20. y = Widths(r95)[31 * Unit] /\ 31 * Unit \in Nat \ {0}
  <2>1. Unit * 31 = 31 * Unit
    OBVIOUS
  <2> QED
    BY <1>2, <2>1, WidthIs DEF k
<1> HIDE DEF y
<1>21. y = 0 => r95 = 0
  BY <1>7, <1>20, WidthCovers
<1>22. y = 0 => Deep(t, 1)
  BY <1>7, <1>21 DEF Deep, Sinks
<1>8. ASSUME y # 0 PROVE y \in Nat \ {0} /\ y * (31 * Unit) >= r95
  <2>1. r95 # 0
    BY <1>8, <1>20, NoWidth
  <2> QED
    BY <1>7, <1>20, <2>1, WidthCovers
<1>23. ASSUME y # 0 PROVE Counted(h, t)
  <2>8. y \in Nat \ {0} /\ y * (31 * Unit) >= r95
    BY <1>8, <1>23
  <2>9. g \in Int /\ scale = y * 31
    <3>1. {y * 31, 31} \in SUBSET Int /\ y * 31 \in {y * 31, 31}
          /\ \A x \in {y * 31, 31} : x <= y * 31
      BY <2>8
    <3>2. Max({y * 31, 31}) = y * 31
      BY <3>1, LargestIs
    <3> QED
      BY <1>2, <1>7, <2>8, <3>2, Truncated DEF scale
  <2>10. ASSUME NEW i \in I
         PROVE  /\ bucket(i) \in (-1)..31
                /\ bucket(i) = -1 <=> Deep(t, y) /\ t[i + 1] = t[1]
    <3>1. i + 1 \in 1..c /\ i + 1 <= top
      BY <1>3, <1>4
    <3>2. t[i + 1] \in Int /\ t[1] <= t[i + 1] /\ t[i + 1] <= t[top]
      <4>1. 1 \in DOMAIN t /\ i + 1 \in DOMAIN t /\ top \in DOMAIN t /\ 1 <= i + 1
        BY <1>3, <1>4, <3>1
      <4> QED
        BY <1>3, <3>1, <4>1 DEF Ascending
    <3>3. PICK a \in Int : a = t[i + 1]
      BY <3>2
    <3>4. Reaches(y, first, t[top], Unit)
      BY <1>6, <2>8 DEF Reaches
    <3>5. PICK gg \in Int : gg = g
      BY <2>9
    <3>6. PICK x : x = BucketOf(a, gg, y, Unit)
      OBVIOUS
    <3>7. /\ x \in (-1)..31
          /\ x = -1 <=> a = t[1] /\ Sinks(t[1], Unit * y)
      <4>1. Placed(Unit, y, t[1], t[top], a, first, gg, x)
        BY <1>5, <1>7, <2>8, <3>2, <3>3, <3>4, <3>5, <3>6 DEF Placed
      <4> QED
        BY <4>1, BucketReached
    <3>8. bucket(i) = TruncDiv(k * (t[i + 1] - (g * y) * Unit), scale * Unit)
      BY DEF bucket, At
    <3>9. bucket(i) = x
      BY <1>2, <2>9, <3>3, <3>5, <3>6, <3>8 DEF BucketOf
    <3> QED
      BY <3>3, <3>7, <3>9 DEF Deep
  <2> HIDE DEF g
  <2>11. ASSUME NEW i \in I PROVE Min({bucket(i), k}) = bucket(i)
    <3>1. PICK x \in (-1)..31 : x = bucket(i)
      BY <2>10
    <3>2. {x, 31} \in SUBSET Int /\ x \in {x, 31} /\ \A z \in {x, 31} : x <= z
      OBVIOUS
    <3>3. Min({x, 31}) = x
      BY <3>2, SmallestIs
    <3> QED
      BY <1>2, <3>1, <3>3
  <2>12. h.panics = {} /\ DOMAIN h.count = Buckets
    <3>1. ASSUME NEW i \in I PROVE ~(bucket(i) >= HistoSize)
      <4>1. PICK x \in (-1)..31 : x = bucket(i)
        BY <2>10
      <4>2. ~(x >= 32)
        OBVIOUS
      <4> QED
        BY <1>2, <4>1, <4>2
    <3> HIDE DEF I
    <3>2. h.panics = {}
      BY <1>1, <3>1
    <3> QED
      BY <1>1, <1>2, <3>2 DEF Buckets
  <2>15. S = {i \in Sampled(c) : Deep(t, y) /\ t[i + 1] = t[1]}
    <3>1. ASSUME NEW i \in I PROVE bucket(i) < 0 <=> bucket(i) = -1
      <4>1. PICK x \in (-1)..31 : x = bucket(i)
        BY <2>10
      <4>2. x < 0 <=> x = -1
        OBVIOUS
      <4> QED
        BY <4>1, <4>2
    <3> HIDE DEF I
    <3> QED
      BY <1>2, <2>10, <3>1
  <2>13. f \in [Sampled(c) \ S -> Buckets]
    <3>1. ASSUME NEW i \in I \ S PROVE bucket(i) \in 0..31
      <4>1. PICK x \in (-1)..31 : x = bucket(i)
        BY <2>10
      <4> QED
        BY <4>1
    <3> HIDE DEF I, S
    <3> QED
      BY <1>2, <3>1 DEF Buckets
  <2>14. ASSUME NEW j \in Buckets
         PROVE  h.count[j] = Cardinality({i \in Sampled(c) \ S : f[i] = j})
    <3>1. \A i \in I : j = bucket(i) <=> i \in I \ S /\ f[i] = j
      <4>1. j \in 0..31
        BY DEF Buckets
      <4> QED
        BY <2>10, <4>1
    <3>2. {i \in I : j = Min({bucket(i), k})} = {i \in Sampled(c) \ S : f[i] = j}
      BY <1>2, <2>11, <3>1
    <3>3. h.count[j] = Cardinality({i \in I : j = Min({bucket(i), k})})
      BY <1>1, <1>2 DEF Buckets
    <3> QED
      BY <3>2, <3>3
  <2> HIDE DEF f, S
  <2>16. h.scale = y * 31 /\ h.strays = S /\ h.beyond = c - (c * 95) \div 100
    BY <1>1, <2>9 DEF i95
  <2>17. \E w \in Nat \ {0} :
           /\ h.scale = w * 31
           /\ h.strays = {i \in Sampled(c) : Deep(t, w) /\ t[i + 1] = t[1]}
    BY <2>8, <2>15, <2>16
  <2>18. \E r \in [Sampled(c) \ h.strays -> Buckets] :
           \A j \in Buckets :
             h.count[j] = Cardinality({i \in Sampled(c) \ h.strays : r[i] = j})
    BY <2>13, <2>14, <2>16
  <2> QED
    BY <2>12, <2>16, <2>17, <2>18 DEF Counted, c
<1> QED
  BY <1>1, <1>22, <1>23 DEF h

(***************************************************************************)
(* Sums over a set, as the community modules fold them.                    *)
(***************************************************************************)
One(s) == CHOOSE x \in s : TRUE
Summing(Q, h, g) ==
  [s \in SUBSET Q |-> IF s = {} THEN 0 ELSE h[One(s)] + g[s \ {One(s)}]]
SumOver(Q, h) == CHOOSE g : g = Summing(Q, h, g)

LEMMA WithoutOne ==
  ASSUME NEW s, IsFiniteSet(s), s # {}
  PROVE  /\ One(s) \in s /\ IsFiniteSet(s \ {One(s)})
         /\ Cardinality(s) \in Nat /\ Cardinality(s \ {One(s)}) = Cardinality(s) - 1
<1>1. One(s) \in s
  BY DEF One
<1> QED
  BY <1>1, FS_RemoveElement, FS_CardinalityType

LEMMA SumOverExists ==
  ASSUME NEW Q, IsFiniteSet(Q), NEW h
  PROVE  SumOver(Q, h) = Summing(Q, h, SumOver(Q, h))
<1> DEFINE Upto(m, g) ==
             \A s \in SUBSET Q : Cardinality(s) <= m => g[s] = Summing(Q, h, g)[s]
           Claim(m) == \E g : Upto(m, g)
           C == {m \in Nat : Claim(m)}
<1>1. \A s \in SUBSET Q : IsFiniteSet(s) /\ Cardinality(s) \in Nat
                          /\ Cardinality(s) <= Cardinality(Q)
  BY FS_Subset, FS_CardinalityType
<1>2. Claim(0)
  <2> DEFINE g == [s \in SUBSET Q |-> 0]
  <2>1. ASSUME NEW s \in SUBSET Q, Cardinality(s) <= 0 PROVE g[s] = Summing(Q, h, g)[s]
    <3>1. s = {}
      BY <1>1, <2>1, FS_EmptySet
    <3> QED
      BY <3>1 DEF Summing
  <2> HIDE DEF g
  <2> QED
    BY <2>1
<1>3. ASSUME NEW m \in Nat \ {0}, Claim(m - 1) PROVE Claim(m)
  <2>1. PICK g : Upto(m - 1, g)
    BY <1>3
  <2> DEFINE k == Summing(Q, h, g)
  <2>2. ASSUME NEW s \in SUBSET Q, Cardinality(s) <= m PROVE k[s] = Summing(Q, h, k)[s]
    <3>1. CASE s = {}
      BY <3>1 DEF Summing
    <3>2. CASE s # {}
      <4> DEFINE r == s \ {One(s)}
      <4>1. r \in SUBSET Q /\ Cardinality(r) <= m - 1
        BY <1>1, <2>2, <3>2, WithoutOne
      <4>2. k[r] = g[r]
        BY <2>1, <4>1
      <4>3. k[s] = h[One(s)] + g[r] /\ Summing(Q, h, k)[s] = h[One(s)] + k[r]
        BY <3>2 DEF Summing
      <4> QED
        BY <4>2, <4>3
    <3> QED
      BY <3>1, <3>2
  <2> HIDE DEF k
  <2> QED
    BY <2>2
<1>4. C = Nat
  <2> HIDE DEF Claim
  <2>1. 0 \in C /\ C \in SUBSET Nat /\ \A m \in Nat \ {0} : m - 1 \in C => m \in C
    BY <1>2, <1>3
  <2> HIDE DEF C
  <2> QED
    BY <2>1, AllNumbers
<1>5. PICK g : Upto(Cardinality(Q), g)
  <2> HIDE DEF Upto
  <2>1. Cardinality(Q) \in Nat
    BY FS_CardinalityType
  <2> QED
    BY <1>4, <2>1
<1>6. \A s \in SUBSET Q : g[s] = Summing(Q, h, g)[s]
  BY <1>1, <1>5
<1> DEFINE k == Summing(Q, h, g)
<1>7. k = Summing(Q, h, k)
  <2>1. ASSUME NEW s \in SUBSET Q PROVE k[s] = Summing(Q, h, k)[s]
    <3>1. CASE s = {}
      BY <3>1 DEF Summing
    <3>2. CASE s # {}
      <4>1. s \ {One(s)} \in SUBSET Q
        OBVIOUS
      <4>2. k[s \ {One(s)}] = g[s \ {One(s)}]
        BY <1>6, <4>1
      <4>3. /\ k[s] = h[One(s)] + g[s \ {One(s)}]
            /\ Summing(Q, h, k)[s] = h[One(s)] + k[s \ {One(s)}]
        BY <3>2 DEF Summing
      <4> QED
        BY <4>2, <4>3
    <3> QED
      BY <3>1, <3>2
  <2>2. /\ k = [s \in SUBSET Q |-> k[s]]
        /\ Summing(Q, h, k) = [s \in SUBSET Q |-> Summing(Q, h, k)[s]]
    BY DEF Summing
  <2> HIDE DEF k
  <2> QED
    BY <2>1, <2>2
<1> HIDE DEF k
<1> QED
  BY <1>7 DEF SumOver

\* If f sorts I into the bins Q, the sizes of the bins add up to that of I.
LEMMA BinsAdd ==
  ASSUME NEW Q, IsFiniteSet(Q), NEW I, IsFiniteSet(I), NEW f \in [I -> Q], NEW h,
         \A j \in Q : h[j] = Cardinality({i \in I : f[i] = j})
  PROVE  SumOver(Q, h)[Q] = Cardinality(I)
<1> DEFINE sum == SumOver(Q, h)
           In(s) == {i \in I : f[i] \in s}
           Claim(m) == \A s \in SUBSET Q : Cardinality(s) = m =>
                                             sum[s] = Cardinality(In(s))
           C == {m \in Nat : Claim(m)}
<1>1. \A s \in SUBSET Q :
        sum[s] = IF s = {} THEN 0 ELSE h[One(s)] + sum[s \ {One(s)}]
  <2>1. sum = Summing(Q, h, sum)
    BY SumOverExists
  <2> HIDE DEF sum
  <2> QED
    BY <2>1 DEF Summing
<1> HIDE DEF sum
<1>2. \A s \in SUBSET Q : IsFiniteSet(s) /\ Cardinality(s) \in Nat
  BY FS_Subset, FS_CardinalityType
<1>3. Claim(0)
  <2>1. ASSUME NEW s \in SUBSET Q, Cardinality(s) = 0 PROVE sum[s] = Cardinality(In(s))
    <3>1. s = {}
      BY <1>2, <2>1, FS_EmptySet
    <3>2. In(s) = {}
      BY <3>1
    <3> HIDE DEF In
    <3> QED
      BY <1>1, <3>1, <3>2, FS_EmptySet
  <2> QED
    BY <2>1
<1>4. ASSUME NEW m \in Nat \ {0}, Claim(m - 1) PROVE Claim(m)
  <2>1. ASSUME NEW s \in SUBSET Q, Cardinality(s) = m PROVE sum[s] = Cardinality(In(s))
    <3> DEFINE x == One(s)
               r == s \ {x}
               A == {i \in I : f[i] = x}
    <3>1. s # {}
      BY <1>2, <2>1, FS_EmptySet
    <3>2. x \in s /\ r \in SUBSET Q /\ Cardinality(r) = m - 1
      BY <1>2, <2>1, <3>1, WithoutOne
    <3>3. sum[s] = h[x] + sum[r]
      BY <1>1, <3>1
    <3>4. h[x] = Cardinality(A) /\ sum[r] = Cardinality(In(r))
      BY <1>4, <3>2
    <3>5. In(s) = A \cup In(r) /\ A \cap In(r) = {}
      BY <3>2
    <3>6. IsFiniteSet(A) /\ IsFiniteSet(In(r))
      BY FS_Subset
    <3> HIDE DEF A, In, r, x
    <3>7. /\ Cardinality(A) \in Nat /\ Cardinality(In(r)) \in Nat
          /\ Cardinality(A \cap In(r)) = 0
      BY <3>5, <3>6, FS_CardinalityType, FS_EmptySet
    <3>8. Cardinality(In(s)) = Cardinality(A) + Cardinality(In(r))
      <4>1. Cardinality(A \cup In(r))
              = Cardinality(A) + Cardinality(In(r)) - Cardinality(A \cap In(r))
        BY <3>6, FS_Union
      <4> QED
        BY <3>5, <3>7, <4>1
    <3> QED
      BY <3>3, <3>4, <3>8
  <2> HIDE DEF In
  <2> QED
    BY <2>1
<1>5. C = Nat
  <2> HIDE DEF Claim
  <2>1. 0 \in C /\ C \in SUBSET Nat /\ \A m \in Nat \ {0} : m - 1 \in C => m \in C
    BY <1>3, <1>4
  <2> HIDE DEF C
  <2> QED
    BY <2>1, AllNumbers
<1>6. Cardinality(Q) \in Nat
  BY FS_CardinalityType
<1>7. Claim(Cardinality(Q))
  <2> HIDE DEF Claim
  <2> QED
    BY <1>5, <1>6
<1>8. In(Q) = I
  OBVIOUS
<1> HIDE DEF In
<1>9. sum[Q] = Cardinality(In(Q))
  BY <1>7
<1> QED
  BY <1>8, <1>9 DEF sum

LEMMA LargestOf ==
  ASSUME NEW X \in SUBSET Nat, X # {}, NEW b \in Nat, \A x \in X : x <= b
  PROVE  Max(X) \in X /\ \A x \in X : x <= Max(X)
<1> DEFINE Y == {c \in Nat : \A x \in X : x <= c}
<1>1. Y \in SUBSET Nat /\ Y # {}
  OBVIOUS
<1>2. PICK m \in Y : m = 0 \/ m - 1 \in Nat \ Y
  BY <1>1, LeastNumber
<1>3. m \in X
  <2>1. CASE m = 0
    <3>1. PICK x \in X : x <= m
      BY <1>2
    <3>2. x = m
      BY <2>1, <3>1
    <3> QED
      BY <3>2
  <2>2. CASE m # 0
    <3>1. PICK x \in X : ~(x <= m - 1)
      BY <1>2, <2>2
    <3>2. x = m
      BY <3>1
    <3> QED
      BY <3>2
  <2> QED
    BY <2>1, <2>2
<1>4. Max(X) = m
  BY <1>3, LargestIs
<1> QED
  BY <1>3, <1>4

LEMMA SampledCount ==
  ASSUME NEW c \in Nat \ {0}
  PROVE  /\ IsFiniteSet(Sampled(c)) /\ Cardinality(Sampled(c)) = (c * 95) \div 100
         /\ (c * 95) \div 100 \in Nat
         /\ c >= 2 => 0 \in Sampled(c)
<1>1. PICK k \in Nat : k = (c * 95) \div 100 /\ (c >= 2 => k >= 1)
  OBVIOUS
<1>2. /\ IsFiniteSet(0..(k - 1))
      /\ Cardinality(0..(k - 1)) = IF 0 > k - 1 THEN 0 ELSE (k - 1) - 0 + 1
  BY FS_Interval
<1> QED
  BY <1>1, <1>2 DEF Sampled

LEMMA AllCounted ==
  ASSUME NEW c \in Nat \ {0}, NEW t, Len(t) = c, NEW h, Counted(h, t)
  PROVE  SumOver(Buckets, h.count)[Buckets] + Cardinality(h.strays) + h.beyond = c
<1> DEFINE I == Sampled(c) \ h.strays
<1>1. PICK f \in [I -> Buckets] :
        \A j \in Buckets : h.count[j] = Cardinality({i \in I : f[i] = j})
  BY DEF Counted
<1>2. IsFiniteSet(Buckets)
  <2>1. PICK m \in Nat : m = 31
    OBVIOUS
  <2>2. IsFiniteSet(0..m)
    BY FS_Interval
  <2> QED
    BY <2>1, <2>2 DEF Buckets
<1>3. /\ h.strays \in SUBSET Sampled(c) /\ IsFiniteSet(Sampled(c))
      /\ Cardinality(Sampled(c)) = (c * 95) \div 100 /\ (c * 95) \div 100 \in Nat
      /\ h.beyond = c - (c * 95) \div 100
  BY SampledCount DEF Counted
<1>4. IsFiniteSet(I) /\ IsFiniteSet(h.strays)
      /\ Cardinality(I) \in Nat /\ Cardinality(h.strays) \in Nat
  BY <1>3, FS_Subset, FS_CardinalityType
<1>5. Cardinality(I) + Cardinality(h.strays) = Cardinality(Sampled(c))
  <2>1. I \cup h.strays = Sampled(c) /\ I \cap h.strays = {}
    BY <1>3
  <2> HIDE DEF I
  <2>2. Cardinality(I \cup h.strays)
          = Cardinality(I) + Cardinality(h.strays) - Cardinality(I \cap h.strays)
    BY <1>4, FS_Union
  <2>3. Cardinality(I \cap h.strays) = 0
    BY <2>1, FS_EmptySet
  <2>4. PICK x, y \in Nat : x = Cardinality(I) /\ y = Cardinality(h.strays)
    BY <1>4
  <2>5. Cardinality(I \cup h.strays) = x + y
    BY <2>2, <2>3, <2>4
  <2> QED
    BY <2>1, <2>4, <2>5
<1> HIDE DEF I
<1>6. SumOver(Buckets, h.count)[Buckets] = Cardinality(I)
  BY <1>1, <1>2, <1>4, BinsAdd
<1> QED
  BY <1>3, <1>4, <1>5, <1>6

LEMMA BarFits ==
  ASSUME NEW total \in Nat \ {0}, NEW count \in Nat, count <= total
  PROVE  /\ Bar(count, total) <= 32
         /\ count = total => Bar(count, total) = 32
<1>1. PICK q \in Int : /\ q = (32 * count) \div total
                       /\ total * q <= 32 * count /\ 32 * count < total * q + total
  BY Divided
<1>2. q <= 32
  <2>1. total * q <= 32 * total
    BY <1>1
  <2>2. q * total < 33 * total
    BY <2>1
  <2>3. q < 33
    BY <2>2
  <2> QED
    BY <2>3
<1>3. count = total => q = 32
  <2>1. ASSUME count = total PROVE q = 32
    <3>1. 31 * total < q * total
      BY <1>1, <2>1
    <3>2. 31 < q
      BY <3>1
    <3> QED
      BY <1>2, <3>2
  <2> QED
    BY <2>1
<1>4. PICK z \in 0..1 : z = IF count = 0 THEN 0 ELSE 1
  OBVIOUS
<1>5. Bar(count, total) = Max({z, q})
  BY <1>1, <1>4 DEF Bar, HistoSize
<1>6. CASE z <= q
  <2>1. {z, q} \in SUBSET Int /\ q \in {z, q} /\ \A x \in {z, q} : x <= q
    BY <1>6
  <2>2. Max({z, q}) = q
    BY <2>1, LargestIs
  <2> QED
    BY <1>2, <1>3, <1>5, <2>2
<1>7. CASE q < z
  <2>1. {z, q} \in SUBSET Int /\ z \in {z, q} /\ \A x \in {z, q} : x <= z
    BY <1>7
  <2>2. Max({z, q}) = z
    BY <2>1, LargestIs
  <2>3. z <= 32 /\ count # total
    BY <1>3, <1>7
  <2> QED
    BY <1>5, <2>2, <2>3
<1> QED
  BY <1>6, <1>7

LEMMA LargestBucket ==
  ASSUME NEW c \in Nat \ {0}, NEW t, Len(t) = c, NEW h, Counted(h, t)
  PROVE  /\ Largest(h) \in Nat
         /\ \A j \in Buckets : h.count[j] \in Nat /\ h.count[j] <= Largest(h)
         /\ \E j \in Buckets : h.count[j] = Largest(h)
         /\ Largest(h) = 0 <=> Sampled(c) \ h.strays = {}
<1> DEFINE I == Sampled(c) \ h.strays
<1>1. PICK f \in [I -> Buckets] :
        \A j \in Buckets : h.count[j] = Cardinality({i \in I : f[i] = j})
  BY DEF Counted
<1> DEFINE X == {h.count[j] : j \in Buckets}
           b == (c * 95) \div 100
<1>2. b \in Nat /\ IsFiniteSet(Sampled(c)) /\ Cardinality(Sampled(c)) = b
  BY SampledCount
<1>3. ASSUME NEW j \in Buckets PROVE h.count[j] \in Nat /\ h.count[j] <= b
  <2>1. PICK A \in SUBSET Sampled(c) : h.count[j] = Cardinality(A)
    BY <1>1
  <2>2. IsFiniteSet(A) /\ Cardinality(A) \in Nat /\ Cardinality(A) <= b
    BY <1>2, FS_Subset, FS_CardinalityType
  <2> QED
    BY <2>1, <2>2
<1>4. X \in SUBSET Nat /\ X # {} /\ \A x \in X : x <= b
  <2>1. 0 \in Buckets
    BY DEF Buckets
  <2>2. h.count[0] \in X
    BY <2>1
  <2>3. \A x \in X : x \in Nat /\ x <= b
    BY <1>3
  <2> HIDE DEF X
  <2> QED
    BY <2>2, <2>3
<1>5. Largest(h) = Max(X)
  BY DEF Largest, Counted
<1>6. Max(X) \in X /\ \A x \in X : x <= Max(X)
  <2> HIDE DEF X
  <2> QED
    BY <1>2, <1>4, LargestOf
<1>7. ASSUME I # {} PROVE \E x \in X : x # 0
  <2>1. PICK k \in I : f[k] \in Buckets
    BY <1>1, <1>7
  <2> DEFINE A == {i \in I : f[i] = f[k]}
  <2>2. k \in A /\ IsFiniteSet(A)
    BY <1>2, <2>1, FS_Subset
  <2>3. Cardinality(A) # 0
    BY <2>2, FS_EmptySet
  <2>4. h.count[f[k]] = Cardinality(A)
    BY <1>1, <2>1
  <2> QED
    BY <2>1, <2>3, <2>4
<1>9. ASSUME I = {} PROVE \A x \in X : x = 0
  <2>1. ASSUME NEW j \in Buckets PROVE h.count[j] = 0
    <3>1. {i \in I : f[i] = j} = {}
      BY <1>9
    <3> QED
      BY <1>1, <3>1, FS_EmptySet
  <2> QED
    BY <2>1
<1> HIDE DEF I
<1>8. Max(X) \in Nat /\ (Max(X) = 0 <=> I = {})
  <2> HIDE DEF X
  <2>1. PICK m \in Nat : m = Max(X) /\ m \in X /\ \A x \in X : x \in Nat /\ x <= m
    BY <1>4, <1>6
  <2>2. ASSUME I # {} PROVE m # 0
    <3>1. PICK x \in X : x # 0
      BY <1>7, <2>2
    <3>2. x \in Nat /\ x <= m
      BY <2>1
    <3> QED
      BY <3>1, <3>2
  <2>3. ASSUME I = {} PROVE m = 0
    BY <1>9, <2>1, <2>3
  <2> QED
    BY <2>1, <2>2, <2>3
<1> QED
  BY <1>3, <1>5, <1>6, <1>8 DEF I

(***************************************************************************)
(* The report of a run.                                                    *)
(***************************************************************************)
ReportInv ==
  /\ data \in Seq(Int) /\ pc \in {"collected", "crunched", "printed", "crashed"}
  /\ pc # "collected" /\ Len(data) > 0 => Described(stats, data)
  /\ pc \in {"printed", "crashed"} /\ Len(data) > 0 => stats.min = data[1]
  /\ pc = "printed" /\ Len(data) > 0 => Counted(histo, data) /\ Largest(histo) # 0
  /\ pc = "crashed" => Len(data) > 0 /\ (Len(data) = 1 \/ Sinks(data[1], Unit))

\* The bars cannot be drawn, or a sample is counted in front of the buckets:
\* where there is one sample, or the smallest is a whole negative number.
LEMMA CrashedIs ==
  ASSUME NEW t \in Seq(Int), Len(t) > 0, NEW h, Counted(h, t), Unit \in Nat \ {0},
         t[1] \in Int, Largest(h) = 0 \/ h.strays # {}
  PROVE  Len(t) = 1 \/ Sinks(t[1], Unit)
<1>1. PICK c \in Nat \ {0} : c = Len(t)
  BY Places
<1>2. PICK y \in Nat \ {0} :
        h.strays = {i \in Sampled(c) : Deep(t, y) /\ t[i + 1] = t[1]}
  BY <1>1 DEF Counted
<1>3. ASSUME h.strays # {} PROVE Sinks(t[1], Unit)
  <2>1. Sinks(t[1], Unit * y)
    BY <1>2, <1>3 DEF Deep
  <2>2. Unit * y \in Nat \ {0} /\ t[1] < 0 /\ t[1] % (Unit * y) = 0
    BY <2>1 DEF Sinks
  <2>3. PICK k \in Int : t[1] = k * (Unit * y)
    BY <2>2, Multiple
  <2>4. PICK m \in Int : m = k * y /\ k * (Unit * y) = m * Unit
    OBVIOUS
  <2>5. t[1] % Unit = 0
    <3>1. PICK x \in Int : x = t[1] /\ x = m * Unit
      BY <2>3, <2>4
    <3>2. x % Unit = 0
      BY <3>1, Multiple
    <3> QED
      BY <3>1, <3>2
  <2> QED
    BY <2>2, <2>5 DEF Sinks
<1>4. ASSUME Largest(h) = 0, h.strays = {} PROVE c = 1
  <2>1. Sampled(c) = {}
    BY <1>1, <1>4, LargestBucket
  <2>2. ~(c >= 2)
    BY <2>1, SampledCount
  <2> QED
    BY <2>2
<1> QED
  BY <1>1, <1>3, <1>4

LEMMA ReportStep ==
  ASSUME ReportInv, [StatsNext]_statsVars
  PROVE  ReportInv'
<1>1. Unit \in Nat \ {0} /\ data \in Seq(Int) /\ Len(data) \in Nat
  BY StatsAssumption DEF ReportInv
<1>2. CASE ComputeStats
  <2>1. data' = data /\ histo' = histo /\ pc = "collected" /\ pc' = "crunched"
    BY <1>2 DEF ComputeStats
  <2>2. Len(data) > 0 => stats' = Crunch(data)
    BY <1>2 DEF ComputeStats, n
  <2>3. Len(data) > 0 => Described(stats', data)
    BY <1>1, <2>2, CrunchDescribes
  <2> QED
    BY <1>1, <2>1, <2>3 DEF ReportInv
<1>3. CASE PrintNothing
  BY <1>1, <1>3 DEF PrintNothing, n, ReportInv
<1>4. CASE PrintHisto
  <2>1. /\ Len(data) > 0 /\ pc = "crunched" /\ stats' = stats
        /\ data' = Sorted(data)
        /\ \/ Width(data') = 0 /\ pc' = "crashed"
           \/ /\ Width(data') # 0 /\ histo' = Histogram(data')
              /\ \/ pc' = "printed" /\ Largest(histo') # 0
                 \/ pc' = "crashed" /\ (Largest(histo') = 0 \/ histo'.strays # {})
    BY <1>4 DEF PrintHisto, Outcomes, n
  <2>2. data' \in Seq(Int) /\ Len(data') = Len(data) /\ Ascending(data')
    BY <1>1, <2>1, SortedIs, SortedAscends
  <2>3. Described(stats', data')
    BY <1>1, <2>1, SortedDescribed DEF ReportInv
  <2>4. data'[1] \in Int /\ stats'.min = data'[1]
    <3>1. /\ data'[1] \in Range(data) /\ Range(data) \in SUBSET Int
          /\ \A x \in Range(data) : data'[1] <= x
      BY <1>1, <2>1, Extremes
    <3>2. stats.min \in Range(data) /\ \A x \in Range(data) : stats.min <= x
      BY <2>1 DEF ReportInv, Described, Ends
    <3>3. stats.min \in Int /\ data'[1] \in Int
          /\ data'[1] <= stats.min /\ stats.min <= data'[1]
      BY <3>1, <3>2
    <3> QED
      BY <2>1, <3>3
  <2>5. /\ Width(data') = 0 => Deep(data', 1)
        /\ Width(data') # 0 => Counted(Histogram(data'), data')
    BY <1>1, <2>1, <2>2, HistogramIs
  <2>6. CASE Width(data') = 0
    <3>1. Unit * 1 = Unit
      BY <1>1
    <3>2. Sinks(data'[1], Unit)
      BY <2>5, <2>6, <3>1 DEF Deep
    <3> QED
      BY <2>1, <2>2, <2>3, <2>4, <2>6, <3>2 DEF ReportInv
  <2>7. CASE Width(data') # 0
    <3>1. histo' = Histogram(data') /\ Counted(histo', data')
      BY <2>1, <2>5, <2>7
    <3>2. pc' = "crashed" => Len(data') = 1 \/ Sinks(data'[1], Unit)
      BY <1>1, <2>1, <2>2, <2>4, <2>7, <3>1, CrashedIs
    <3> QED
      BY <2>1, <2>2, <2>3, <2>4, <2>7, <3>1, <3>2 DEF ReportInv
  <2> QED
    BY <2>6, <2>7
<1>5. CASE UNCHANGED statsVars
  BY <1>5 DEF statsVars, ReportInv
<1> QED
  BY <1>2, <1>3, <1>4, <1>5 DEF StatsNext, Reported

LEMMA ReportInvariant == StatsSpec => []ReportInv
<1>1. StatsInit => ReportInv
  BY StatsAssumption DEF StatsInit, ReportInv
<1>2. ReportInv /\ [StatsNext]_statsVars => ReportInv'
  BY ReportStep
<1> QED
  BY <1>1, <1>2, PTL DEF StatsSpec

(***************************************************************************)
(* The assertions of crunch_stats hold of all arrays of samples, and the   *)
(* median lies between the minimum and the 95th percentile.                *)
(***************************************************************************)
THEOREM ReportOrdered == StatsSpec => []StatsOrdered
<1>1. ReportInv => StatsOrdered
  BY DEF ReportInv, StatsOrdered, Crunched, n, Described, Order
<1> QED
  BY <1>1, ReportInvariant, PTL

\* Counting as Stats does it.
LEMMA CountIs ==
  ASSUME data \in Seq(Int), NEW v \in Int
  PROVE  AtMost(v) = Count(data, UpTo(v)) /\ LessThan(v) = Count(data, Below(v))
<1>1. DOMAIN data = 1..Len(data) /\ \A i \in DOMAIN data : data[i] \in Int
  BY Places
<1>2. {i \in 1..Len(data) : data[i] <= v} = Among(data, UpTo(v))
  BY <1>1 DEF Among, UpTo
<1>3. {i \in 1..Len(data) : data[i] < v} = Among(data, Below(v))
  BY <1>1 DEF Among, Below
<1> QED
  BY <1>2, <1>3 DEF AtMost, LessThan, n, Count

(***************************************************************************)
(* The percentiles are what their names say and the minimum is a sample;   *)
(* the maximum is one unless all samples are below -1 microsecond, and     *)
(* then it never is: for all arrays.                                       *)
(***************************************************************************)
THEOREM ReportSamples == StatsSpec => []StatsAreSamples
<1>1. ASSUME ReportInv, Crunched PROVE StatsAreSamples
  <2>1. /\ data \in Seq(Int) /\ Order(stats) /\ Shares(stats, data) /\ Ends(stats, data)
        /\ n = Len(data)
    BY <1>1 DEF ReportInv, Crunched, n, Described
  <2>2. DOMAIN data = 1..Len(data) /\ IsFiniteSet(1..Len(data))
        /\ Cardinality(1..Len(data)) = Len(data) /\ \A i \in 1..Len(data) : data[i] \in Int
    BY <2>1, Places
  <2>3. /\ stats.min \in Int /\ stats.median \in Int /\ stats.p95 \in Int
        /\ stats.p99 \in Int /\ stats.max \in Int
    BY <2>1 DEF Order
  <2>4. /\ AtMost(stats.p95) * 100 > 95 * n /\ LessThan(stats.p95) * 100 <= 95 * n
        /\ AtMost(stats.p99) * 100 > 99 * n /\ LessThan(stats.p99) * 100 <= 99 * n
        /\ AtMost(stats.median) * 2 > n /\ LessThan(stats.median) * 2 <= n
    BY <2>1, <2>3, CountIs DEF Shares
  <2>5. Range(data) = {data[i] : i \in 1..Len(data)}
    BY <2>2 DEF Range
  <2>6. stats.max \in Range(data) <=> \E i \in 1..n : data[i] >= -1 * Unit
    BY <2>1, <2>5 DEF Ends
  <2>7. {i \in 1..n : data[i] <= stats.max} = 1..Len(data)
    BY <2>1, <2>5 DEF Ends
  <2>8. AtMost(stats.max) = n
    BY <2>1, <2>2, <2>7 DEF AtMost
  <2>9. {i \in 1..n : data[i] < stats.min} = {}
    <3>1. ASSUME NEW i \in 1..Len(data) PROVE ~(data[i] < stats.min)
      <4>1. data[i] \in Int /\ stats.min <= data[i]
        BY <2>1, <2>2, <2>5 DEF Ends
      <4> QED
        BY <2>3, <4>1
    <3> QED
      BY <2>1, <3>1
  <2>10. LessThan(stats.min) = 0
    BY <2>9, FS_EmptySet DEF LessThan
  <2>11. stats.min \in Range(data)
    BY <2>1 DEF Ends
  <2> QED
    BY <2>4, <2>6, <2>8, <2>10, <2>11 DEF StatsAreSamples
<1>2. ReportInv => StatsAreSamples
  BY <1>1 DEF StatsAreSamples
<1> QED
  BY <1>2, ReportInvariant, PTL

(***************************************************************************)
(* No sample below the 95th percentile falls behind the last of the 32     *)
(* buckets ("panic!" is never printed).  The smallest ones fall in front   *)
(* of the first, outside of the array, if they are a negative multiple of  *)
(* the width of a bucket; no others ever do.  Every sample is counted      *)
(* once: for arrays of all sizes and samples of all magnitudes.            *)
(***************************************************************************)
THEOREM ReportBuckets == StatsSpec => []BucketsHold
<1>1. ASSUME ReportInv, Printed PROVE BucketsHold
  <2>1. PICK c, h, t : c = Len(data) /\ h = histo /\ t = data
    OBVIOUS
  <2>2. /\ c \in Nat \ {0} /\ Len(t) = c /\ Counted(h, t) /\ n = c
        /\ stats.min = t[1]
    <3>1. Len(data) \in Nat /\ Len(data) > 0 /\ pc = "printed"
      BY <1>1 DEF ReportInv, Printed, n
    <3> QED
      BY <1>1, <2>1, <3>1 DEF ReportInv, n
  <2>3. SumOver(Buckets, h.count)[Buckets] + Cardinality(h.strays) + h.beyond = c
    BY <2>2, AllCounted
  <2>4. h.panics = {} /\ DOMAIN h.count = Buckets
    BY <2>2 DEF Counted
  <2>5. MapThenSumSet(LAMBDA j : histo.count[j], DOMAIN histo.count)
          = SumOver(DOMAIN histo.count, histo.count)[DOMAIN histo.count]
    BY Zenon DEF MapThenSumSet, MapThenFoldSet, SumOver, Summing, One
  <2>6. MapThenSumSet(LAMBDA j : histo.count[j], DOMAIN histo.count)
          + Cardinality(histo.strays) + histo.beyond = n
    BY <2>1, <2>2, <2>3, <2>4, <2>5
  <2>7. PICK y \in Nat \ {0} :
          /\ h.scale = y * 31
          /\ h.strays = {i \in Sampled(c) : Deep(t, y) /\ t[i + 1] = t[1]}
    BY <2>2 DEF Counted
  <2>8. Sunk <=> Deep(t, y)
    <3>1. (y * 31) \div 31 = y
      OBVIOUS
    <3> QED
      BY <2>1, <2>2, <2>7, <3>1 DEF Sunk, Deep, Sinks, HistoSize
  <2>9. h.strays = {i \in 0..(I95(data) - 1) : Sunk /\ At(data, i) = stats.min}
    BY <2>1, <2>2, <2>7, <2>8 DEF Sampled, I95, At
  <2> QED
    BY <2>1, <2>4, <2>6, <2>9 DEF BucketsHold
<1>2. ReportInv => BucketsHold
  BY <1>1 DEF BucketsHold
<1> QED
  BY <1>2, ReportInvariant, PTL

(***************************************************************************)
(* A single sample is never reported.  With more the bars can be drawn,    *)
(* unless the smallest sample is a whole negative number of microseconds;  *)
(* those of the buckets fit their column and the fullest bucket fills it.  *)
(***************************************************************************)
THEOREM ReportBars == StatsSpec => []BarsFit
<1>1. ASSUME ReportInv PROVE BarsFit
  <2>1. PICK c, h, t : c = Len(data) /\ h = histo /\ t = data
    OBVIOUS
  <2>2. c \in Nat /\ n = c /\ Len(t) = c
    BY <1>1, <2>1 DEF ReportInv, n
  <2>3. ASSUME pc = "crashed"
        PROVE  c = 1 \/ (stats.min < 0 /\ stats.min % Unit = 0)
    <3>1. Len(data) > 0 /\ (Len(data) = 1 \/ Sinks(data[1], Unit))
      BY <1>1, <2>3 DEF ReportInv
    <3>2. stats.min = data[1]
      BY <1>1, <2>3, <3>1 DEF ReportInv
    <3> QED
      BY <2>1, <3>1, <3>2 DEF Sinks
  <2>4. ASSUME Printed
        PROVE  /\ \A j \in DOMAIN h.count : Bar(h.count[j], Largest(h)) <= 32
               /\ \E j \in DOMAIN h.count : Bar(h.count[j], Largest(h)) = 32
               /\ c # 1
    <3>1. c \in Nat \ {0} /\ pc = "printed"
      BY <2>2, <2>4 DEF Printed
    <3>2. Counted(h, t) /\ Largest(h) # 0
      BY <1>1, <2>1, <3>1 DEF ReportInv
    <3>3. /\ Largest(h) \in Nat \ {0}
          /\ \A j \in Buckets : h.count[j] \in Nat /\ h.count[j] <= Largest(h)
          /\ \E j \in Buckets : h.count[j] = Largest(h)
          /\ Sampled(c) # {}
      BY <2>2, <3>1, <3>2, LargestBucket
    <3>4. DOMAIN h.count = Buckets
      BY <3>2 DEF Counted
    <3>5. Sampled(1) = {}
      BY DEF Sampled
    <3> QED
      BY <3>3, <3>4, <3>5, BarFits
  <2>5. pc = "printed" => c # 1
    BY <2>2, <2>4 DEF Printed
  <2> QED
    BY <2>1, <2>2, <2>3, <2>4, <2>5 DEF BarsFit, HistoSize
<1> QED
  BY <1>1, ReportInvariant, PTL
=============================================================================
