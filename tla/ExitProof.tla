----------------------------- MODULE ExitProof ------------------------------
(***************************************************************************)
(* Proofs about Exit for every number of workers, threads and processes.   *)
(* Of the barrier they use only that it is one: when it opens does not     *)
(* matter to who reaps which child.                                        *)
(***************************************************************************)
EXTENDS Exit, TLAPS, FiniteSetTheorems

ProvedBarrier == INSTANCE BarrierProof WITH Hwm <- N

\* The workers that have a child to reap in this round, and the children.
Reaping  == {w \in Worker : stage[w] = "timed"}
Children == {w \in Worker : child[w] # "none"}

\* Before the timed part the workers that are ready have a child.  In it a
\* process has one until it has reaped it, and threads have as many together
\* as there are threads that have not reaped one.
ReapInv ==
  IF \A w \in Worker : stage[w] \in {"between", "ready", "stopped"}
    THEN \A w \in Worker : child[w] # "none" <=> stage[w] = "ready"
    ELSE IF threaded THEN Cardinality(Children) = Cardinality(Reaping)
                     ELSE Children = Reaping

ExitInv == R!LockstepInv /\ TypeOK /\ ReapInv

LEMMA ThreadsFinite ==
  /\ IsFiniteSet(Worker) /\ IsFiniteSet(Threads)
  /\ N \in Nat /\ PhaseMod \in Nat /\ PhaseMod > 1 /\ NoThread \notin Threads
<1>1. IsFiniteSet(Worker)
  BY ExitAssumption, FS_Interval DEF Worker
<1>2. {"worker", "child"} = {"worker"} \cup {"child"}
  OBVIOUS
<1>3. IsFiniteSet({"worker", "child"})
  <2>1. IsFiniteSet({"worker"})
    BY FS_Singleton
  <2>2. IsFiniteSet({"worker"} \cup {"child"})
    BY <2>1, FS_AddElement
  <2> QED
    BY <1>2, <2>2
<1>4. IsFiniteSet(Threads)
  BY <1>1, <1>3, FS_Product DEF Threads
<1> QED
  BY <1>1, <1>4, ExitAssumption

LEMMA SetsFinite == IsFiniteSet(Children) /\ IsFiniteSet(Reaping)
  BY ThreadsFinite, FS_Subset DEF Children, Reaping

(***************************************************************************)
(* The rounds, and the barrier, which is the one of BarrierProof.          *)
(***************************************************************************)
LEMMA RoundInit == R!Init => R!LockstepInv
  BY DEF R!Init, R!LockstepInv, R!TypeOK, R!Stage, R!Untimed, R!Agreed

LEMMA RoundStep ==
  ASSUME R!LockstepInv, NEW w \in Worker,
         R!FinishPre(w) \/ R!FinishBenchmark(w) \/ R!Halt(w) \/ R!Stop(w)
  PROVE  R!LockstepInv' /\ R!TypeOK'
<1> USE DEF R!LockstepInv, R!TypeOK, R!Untimed, R!Timed, R!Agreed, R!Stage, R!OthersAre
<1>1. CASE R!FinishPre(w)
  <2>1. CASE R!OthersAre(w, "ready")
    BY <1>1, <2>1 DEF R!FinishPre
  <2>2. CASE ~R!OthersAre(w, "ready")
    <3>1. stage' = [stage EXCEPT ![w] = "ready"] /\ go /\ UNCHANGED go
      BY <1>1, <2>2 DEF R!FinishPre
    <3> QED
      BY <1>1, <3>1 DEF R!FinishPre
  <2> QED
    BY <2>1, <2>2
<1>2. CASE R!FinishBenchmark(w)
  <2>1. CASE R!OthersAre(w, "measured")
    BY <1>2, <2>1 DEF R!FinishBenchmark
  <2>2. CASE ~R!OthersAre(w, "measured")
    BY <1>2, <2>2 DEF R!FinishBenchmark
  <2> QED
    BY <2>1, <2>2
<1>3. CASE R!Halt(w)
  BY <1>3 DEF R!Halt
<1>4. CASE R!Stop(w)
  BY <1>4 DEF R!Stop
<1> QED
  BY <1>1, <1>2, <1>3, <1>4

LEMMA RoundSame ==
  ASSUME R!LockstepInv, UNCHANGED round
  PROVE  R!LockstepInv' /\ R!TypeOK'
  BY DEF round, R!LockstepInv, R!TypeOK, R!Untimed, R!Timed, R!Agreed

BarrierStep ==
  \/ UNCHANGED barrier
  \/ \E t \in Threads : B!Call(t) \/ B!Inside(t) \/ B!Spurious(t) \/ B!Unlock(t)

LEMMA SameBarrier == B!TypeOK /\ BarrierStep => B!TypeOK'
<1> SUFFICES ASSUME B!TypeOK, BarrierStep PROVE B!TypeOK'
  OBVIOUS
<1>1. ProvedBarrier!TypeOK
  BY DEF B!TypeOK, ProvedBarrier!TypeOK, B!Place, ProvedBarrier!Place
<1>2. [ProvedBarrier!Next]_(ProvedBarrier!vars)
  BY DEF BarrierStep, barrier, ProvedBarrier!vars, ProvedBarrier!Next,
     B!Call, ProvedBarrier!Call, B!Inside, ProvedBarrier!Inside,
     B!Lock, ProvedBarrier!Lock, B!Queue, ProvedBarrier!Queue,
     B!QueueWait, ProvedBarrier!QueueWait, B!QueueOpen, ProvedBarrier!QueueOpen,
     B!Woken, ProvedBarrier!Woken, B!NextPhase, ProvedBarrier!NextPhase,
     B!Relock, ProvedBarrier!Relock, B!Spurious, ProvedBarrier!Spurious,
     B!Unlock, ProvedBarrier!Unlock
<1>3. ProvedBarrier!TypeOK'
  BY <1>1, <1>2, ThreadsFinite, ProvedBarrier!NextType
     DEF ProvedBarrier!IsFiniteSet, IsFiniteSet
<1> QED
  BY <1>3 DEF B!TypeOK, ProvedBarrier!TypeOK, B!Place, ProvedBarrier!Place

LEMMA InitExit == Init => ExitInv
<1> SUFFICES ASSUME Init PROVE ExitInv
  OBVIOUS
<1>1. R!LockstepInv
  BY RoundInit DEF Init
<1>2. R!TypeOK
  BY <1>1 DEF R!LockstepInv
<1>3. B!TypeOK
  <2>1. ProvedBarrier!TypeOK
    BY ThreadsFinite, ProvedBarrier!InitType DEF Init, B!Init, ProvedBarrier!Init,
       ProvedBarrier!IsFiniteSet, IsFiniteSet
  <2> QED
    BY <2>1 DEF B!TypeOK, ProvedBarrier!TypeOK, B!Place, ProvedBarrier!Place
<1>4. TypeOK
  <2>1. child \in [Worker -> {"none", "running", "zombie"}]
    BY DEF Init
  <2>2. threaded \in BOOLEAN /\ waiting \in [Worker -> BOOLEAN]
    BY DEF Init
  <2> QED
    BY <1>2, <1>3, <2>1, <2>2 DEF TypeOK
<1>5. ReapInv
  BY DEF Init, R!Init, ReapInv
<1> QED
  BY <1>1, <1>4, <1>5 DEF ExitInv

LEMMA Facts ==
  ExitInv =>
    /\ stage \in [Worker -> {"between", "ready", "timed", "measured", "stopped"}]
    /\ child \in [Worker -> {"none", "running", "zombie"}]
    /\ (\A w \in Worker : stage[w] \in {"between", "ready", "stopped"})
         \/ (\A w \in Worker : stage[w] \in {"timed", "measured"})
  BY DEF ExitInv, TypeOK, R!LockstepInv, R!TypeOK, R!Stage,
     R!Untimed, R!Timed

\* The children matter only in so far as they are there.
LEMMA ReapSame ==
  ASSUME ReapInv, UNCHANGED <<stage, threaded>>,
         \A w \in Worker : child'[w] # "none" <=> child[w] # "none"
  PROVE  ReapInv'
<1>1. Children' = Children /\ Reaping' = Reaping
  BY DEF Children, Reaping
<1> QED
  BY <1>1 DEF ReapInv

(***************************************************************************)
(* The steps.                                                              *)
(***************************************************************************)
LEMMA ForkStep ==
  ASSUME ExitInv, NEW w \in Worker, Fork(w)
  PROVE  ReapInv'
<1>1. /\ stage[w] = "between"
      /\ child' = [child EXCEPT ![w] = "running"] /\ UNCHANGED threaded
      /\ stage' = IF \A v \in Worker \ {w} : stage[v] = "ready"
                    THEN [v \in Worker |-> "timed"]
                    ELSE [stage EXCEPT ![w] = "ready"]
  BY DEF Fork, R!FinishPre, R!OthersAre
<1>2. /\ \A v \in Worker : stage[v] \in {"between", "ready", "stopped"}
      /\ \A v \in Worker : child[v] # "none" <=> stage[v] = "ready"
  BY <1>1, Facts DEF ExitInv, ReapInv
<1>3. \A v \in Worker : child'[v] = IF v = w THEN "running" ELSE child[v]
  BY <1>1, Facts
<1>4. CASE \A v \in Worker \ {w} : stage[v] = "ready"
  <2>1. \A v \in Worker : stage'[v] = "timed" /\ child'[v] # "none"
    BY <1>1, <1>2, <1>3, <1>4
  <2>2. Children' = Worker /\ Reaping' = Worker
    BY <2>1 DEF Children, Reaping
  <2> QED
    BY <2>1, <2>2 DEF ReapInv
<1>5. CASE ~\A v \in Worker \ {w} : stage[v] = "ready"
  <2>1. \A v \in Worker : stage'[v] = IF v = w THEN "ready" ELSE stage[v]
    BY <1>1, <1>5, Facts
  <2>2. \A v \in Worker : stage'[v] \in {"between", "ready", "stopped"}
    BY <1>2, <2>1
  <2>3. \A v \in Worker : child'[v] # "none" <=> stage'[v] = "ready"
    BY <1>1, <1>2, <1>3, <2>1
  <2> QED
    BY <2>2, <2>3 DEF ReapInv
<1> QED
  BY <1>4, <1>5

LEMMA WaitPidStep ==
  ASSUME ExitInv, NEW w \in Worker, WaitPid(w)
  PROVE  ReapInv'
<1>1. /\ stage[w] = "timed" /\ UNCHANGED threaded
      /\ stage' = IF \A v \in Worker \ {w} : stage[v] = "measured"
                    THEN [v \in Worker |-> "between"]
                    ELSE [stage EXCEPT ![w] = "measured"]
  BY DEF WaitPid, R!FinishBenchmark, R!OthersAre
<1>2. PICK v \in Worker :
        /\ child[v] # "none" /\ (threaded \/ v = w)
        /\ child' = [child EXCEPT ![v] = "none"]
  BY DEF WaitPid, ChildrenOf
<1>3. /\ \A u \in Worker : stage[u] \in {"timed", "measured"}
      /\ IF threaded THEN Cardinality(Children) = Cardinality(Reaping)
                     ELSE Children = Reaping
  BY <1>1, Facts DEF ExitInv, ReapInv
<1>4. Children' = Children \ {v} /\ v \in Children
  BY <1>2, Facts DEF Children
<1>5. w \in Reaping
  BY <1>1 DEF Reaping
<1>6. IF threaded THEN Cardinality(Children') = Cardinality(Reaping \ {w})
                  ELSE Children' = Reaping \ {w}
  <2>1. CASE threaded
    <3>1. Cardinality(Children \ {v}) = Cardinality(Children) - 1
      BY <1>4, SetsFinite, FS_RemoveElement
    <3>2. Cardinality(Reaping \ {w}) = Cardinality(Reaping) - 1
      BY <1>5, SetsFinite, FS_RemoveElement
    <3>3. Cardinality(Children) = Cardinality(Reaping)
      BY <1>3, <2>1
    <3> QED
      BY <1>4, <2>1, <3>1, <3>2, <3>3
  <2>2. CASE ~threaded
    BY <1>2, <1>3, <1>4, <2>2
  <2> QED
    BY <2>1, <2>2
<1>7. CASE \A u \in Worker \ {w} : stage[u] = "measured"
  <2>1. \A u \in Worker : stage'[u] = "between"
    BY <1>1, <1>7
  <2>2. Reaping \ {w} = {}
    BY <1>7 DEF Reaping
  <2>3. IsFiniteSet(Children')
    BY <1>4, SetsFinite, FS_RemoveElement
  <2>4. Children' = {}
    BY <1>6, <2>2, <2>3, FS_EmptySet
  <2>5. \A u \in Worker : child'[u] = "none"
    BY <2>4 DEF Children
  <2> QED
    BY <2>1, <2>5 DEF ReapInv
<1>8. CASE ~\A u \in Worker \ {w} : stage[u] = "measured"
  <2>1. \A u \in Worker : stage'[u] = IF u = w THEN "measured" ELSE stage[u]
    BY <1>1, <1>8, Facts
  <2>2. Reaping' = Reaping \ {w}
    BY <2>1 DEF Reaping
  <2>3. stage'[w] = "measured"
    BY <2>1
  <2> QED
    BY <1>1, <1>6, <2>2, <2>3 DEF ReapInv
<1> QED
  BY <1>7, <1>8

LEMMA HarnessStep ==
  ASSUME ExitInv, NEW w \in Worker, Harness(w)
  PROVE  ReapInv'
<1>1. UNCHANGED <<threaded, child>> /\ (R!Halt(w) \/ R!Stop(w))
  BY DEF Harness
<1>2. CASE R!Halt(w)
  BY <1>1, <1>2, ReapSame DEF R!Halt, ExitInv
<1>3. CASE R!Stop(w)
  <2>1. stage[w] = "between" /\ stage' = [stage EXCEPT ![w] = "stopped"]
    BY <1>3 DEF R!Stop
  <2>2. /\ \A v \in Worker : stage[v] \in {"between", "ready", "stopped"}
        /\ \A v \in Worker : child[v] # "none" <=> stage[v] = "ready"
    BY <2>1, Facts DEF ExitInv, ReapInv
  <2>3. \A v \in Worker : stage'[v] = IF v = w THEN "stopped" ELSE stage[v]
    BY <2>1, Facts
  <2>4. \A v \in Worker : stage'[v] \in {"between", "ready", "stopped"}
    BY <2>2, <2>3
  <2>5. \A v \in Worker : child'[v] # "none" <=> stage'[v] = "ready"
    BY <1>1, <2>1, <2>2, <2>3
  <2> QED
    BY <2>4, <2>5 DEF ReapInv
<1> QED
  BY <1>1, <1>2, <1>3

LEMMA ReapStep == ExitInv /\ [Next]_vars => ReapInv'
<1> SUFFICES ASSUME ExitInv, [Next]_vars PROVE ReapInv'
  OBVIOUS
<1>1. CASE UNCHANGED vars
  BY <1>1, ReapSame DEF vars, round, ExitInv
<1>2. ASSUME NEW w \in Worker, ChildStep(w)
      PROVE  ReapInv'
  <2>1. UNCHANGED <<stage, threaded>> /\ child[w] # "none"
    BY <1>2 DEF ChildStep, round
  <2>2. child' = child \/ child' = [child EXCEPT ![w] = "zombie"]
    BY <1>2 DEF ChildStep
  <2> QED
    BY <2>1, <2>2, ReapSame, Facts DEF ExitInv
<1>3. ASSUME NEW w \in Worker, Queue(w)
      PROVE  ReapInv'
  BY <1>3, ReapSame DEF Queue, round, ExitInv
<1>4. ASSUME NEW t \in Threads, Wakeup(t)
      PROVE  ReapInv'
  BY <1>4, ReapSame DEF Wakeup, round, ExitInv
<1> QED
  BY <1>1, <1>2, <1>3, <1>4, ForkStep, WaitPidStep, HarnessStep DEF Next, Finished

LEMMA SelfAndChild ==
  ASSUME NEW w \in Worker
  PROVE  Self(w) \in Threads /\ Child(w) \in Threads
  BY DEF Self, Child, Threads

\* What a step may do to each part of the state.
Effects ==
  /\ \/ UNCHANGED round
     \/ \E w \in Worker : R!FinishPre(w) \/ R!FinishBenchmark(w)
                            \/ R!Halt(w) \/ R!Stop(w)
  /\ BarrierStep
  /\ UNCHANGED threaded
  /\ child' = child \/ \E w \in Worker, c \in {"none", "running", "zombie"} :
                         child' = [child EXCEPT ![w] = c]
  /\ waiting' = waiting \/ \E w \in Worker, b \in BOOLEAN :
                             waiting' = [waiting EXCEPT ![w] = b]

LEMMA TypeStep ==
  ASSUME ExitInv, [Next]_vars
  PROVE  R!LockstepInv' /\ TypeOK'
<1>1. /\ R!LockstepInv /\ B!TypeOK
      /\ threaded \in BOOLEAN
      /\ child \in [Worker -> {"none", "running", "zombie"}]
      /\ waiting \in [Worker -> BOOLEAN]
  BY DEF ExitInv, TypeOK
<1>2. Effects
  <2>1. CASE UNCHANGED vars
    BY <2>1 DEF vars, BarrierStep, Effects
  <2>2. ASSUME NEW w \in Worker, Fork(w) PROVE Effects
    BY <2>2 DEF Fork, BarrierStep, Effects
  <2>3. ASSUME NEW w \in Worker, ChildStep(w) PROVE Effects
    BY <2>3, SelfAndChild DEF ChildStep, BarrierStep, Effects
  <2>4. ASSUME NEW w \in Worker, Queue(w) PROVE Effects
    BY <2>4, SelfAndChild DEF Queue, BarrierStep, Effects
  <2>5. ASSUME NEW w \in Worker, WaitPid(w) PROVE Effects
    BY <2>5 DEF WaitPid, ChildrenOf, BarrierStep, Effects
  <2>6. ASSUME NEW w \in Worker, Harness(w) PROVE Effects
    BY <2>6 DEF Harness, BarrierStep, Effects
  <2>7. ASSUME NEW t \in Threads, Wakeup(t) PROVE Effects
    BY <2>7 DEF Wakeup, BarrierStep, Effects
  <2> QED
    BY <2>1, <2>2, <2>3, <2>4, <2>5, <2>6, <2>7 DEF Next, Finished
<1>3. R!LockstepInv' /\ R!TypeOK'
  BY <1>1, <1>2, RoundStep, RoundSame DEF Effects
<1>4. B!TypeOK'
  BY <1>1, <1>2, SameBarrier DEF Effects
<1>5. child' \in [Worker -> {"none", "running", "zombie"}]
  BY <1>1, <1>2 DEF Effects
<1>6. waiting' \in [Worker -> BOOLEAN]
  BY <1>1, <1>2 DEF Effects
<1> QED
  BY <1>1, <1>2, <1>3, <1>4, <1>5, <1>6 DEF TypeOK, Effects

(***************************************************************************)
(* Who has a child to reap: the invariant of the exit benchmark.           *)
(***************************************************************************)
THEOREM ExitInvariant == Spec => []ExitInv
<1>1. Init => ExitInv
  BY InitExit
<1>2. ExitInv /\ [Next]_vars => ExitInv'
  BY TypeStep, ReapStep DEF ExitInv
<1> QED
  BY <1>1, <1>2, PTL DEF Spec

(***************************************************************************)
(* waitpid never fails for lack of children, for any number of workers,    *)
(* be they threads that reap one another's children or processes.          *)
(***************************************************************************)
THEOREM ExitChildForEach == Spec => []ChildForEach
<1>1. ExitInv => ChildForEach
  <2> SUFFICES ASSUME ExitInv, NEW w \in Worker,
                      ~\A v \in (IF threaded THEN Worker ELSE {w}) : stage[v] # "timed"
               PROVE  Cardinality({v \in (IF threaded THEN Worker ELSE {w}) :
                                     stage[v] = "timed"})
                        <= Cardinality(ChildrenOf(w))
    BY DEF ChildForEach
  <2>1. \A v \in Worker : stage[v] \in {"timed", "measured"}
    BY Facts
  <2>2. IF threaded THEN Cardinality(Children) = Cardinality(Reaping)
                    ELSE Children = Reaping
    BY <2>1 DEF ExitInv, ReapInv
  <2>3. CASE threaded
    <3>1. ChildrenOf(w) = Children
      BY <2>3 DEF ChildrenOf, Children
    <3>2. {v \in (IF threaded THEN Worker ELSE {w}) : stage[v] = "timed"} = Reaping
      BY <2>3 DEF Reaping
    <3>3. Cardinality(Children) \in Nat
      BY SetsFinite, FS_CardinalityType
    <3> QED
      BY <2>2, <2>3, <3>1, <3>2, <3>3
  <2>4. CASE ~threaded
    <3>1. stage[w] = "timed"
      BY <2>4
    <3>2. ChildrenOf(w) = {w}
      BY <2>2, <2>4, <3>1 DEF ChildrenOf, Children, Reaping
    <3>3. {v \in (IF threaded THEN Worker ELSE {w}) : stage[v] = "timed"} = {w}
      BY <2>4, <3>1
    <3>4. Cardinality({w}) \in Nat
      BY FS_Singleton
    <3> QED
      BY <3>2, <3>3, <3>4
  <2> QED
    BY <2>3, <2>4
<1> QED
  BY <1>1, ExitInvariant, PTL

(***************************************************************************)
(* No child survives its round, so that none is left to open the barrier   *)
(* of the next one: benchmark_pre never forks over a child.                *)
(***************************************************************************)
THEOREM ExitNoneLeft == Spec => NoneLeft
<1>1. ExitInv /\ [Next]_vars =>
        [\A w \in Worker : Fork(w) => child[w] = "none"]_vars
  <2> SUFFICES ASSUME ExitInv, NEW w \in Worker, Fork(w)
               PROVE  child[w] = "none"
    OBVIOUS
  <2>1. stage[w] = "between"
    BY DEF Fork, R!FinishPre
  <2> QED
    BY <2>1, Facts DEF ExitInv, ReapInv
<1> QED
  BY <1>1, ExitInvariant, PTL DEF Spec, NoneLeft
=============================================================================
