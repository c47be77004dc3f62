-------------------------------- MODULE Exit --------------------------------
(***************************************************************************)
(* The benchmark exit (src/exit.c).  In benchmark_pre every worker forks a *)
(* child that waits at a barrier of the benchmark's own and exits; in      *)
(* benchmark the worker waits at the same barrier and then for a child.    *)
(* The barrier is created for one arrival per worker although twice as     *)
(* many processes queue at it in every round.                              *)
(***************************************************************************)
EXTENDS Integers, FiniteSets

CONSTANTS
  N,                  \* lm_optP * lm_optT
  PhaseMod, NoThread

Worker == 0..(N - 1)

\* The worker and its child are different users of the barrier b.
Self(w)  == <<w, "worker">>
Child(w) == <<w, "child">>
Threads  == Worker \X {"worker", "child"}

ASSUME ExitAssumption ==
  /\ N \in Nat \ {0}
  /\ PhaseMod \in Nat /\ PhaseMod > 1 /\ NoThread \notin Threads

VARIABLES
  stage, go,                        \* the round, see Rounds
  lock, waiters, phase, bpc, seen,  \* the barrier b
  threaded,   \* the workers are threads of one process (-T), not processes (-P)
  child,      \* state of the child a worker forked last
  waiting     \* the worker is in waitpid

round   == <<stage, go>>
barrier == <<lock, waiters, phase, bpc, seen>>
vars    == <<round, barrier, threaded, child, waiting>>

R == INSTANCE Rounds
\* b = barrier_create(lm_optP * lm_optT * 1, 0)
B == INSTANCE Barrier WITH Hwm <- N

TypeOK ==
  /\ R!TypeOK /\ B!TypeOK
  /\ threaded \in BOOLEAN
  /\ child \in [Worker -> {"none", "running", "zombie"}]
  /\ waiting \in [Worker -> BOOLEAN]

Init ==
  /\ R!Init /\ B!Init
  /\ threaded \in BOOLEAN
  /\ child = [w \in Worker |-> "none"]
  /\ waiting = [w \in Worker |-> FALSE]

\* Seeded fault: the result of fork() is not checked.
ForkUnchecked(w) ==
  /\ R!FinishPre(w)
  /\ \E c \in {"running", "none"} : child' = [child EXCEPT ![w] = c]
  /\ UNCHANGED <<barrier, threaded, waiting>>

\* benchmark_pre: fork the child.
Fork(w) ==
  /\ R!FinishPre(w)
  /\ child' = [child EXCEPT ![w] = "running"]
  /\ UNCHANGED <<barrier, threaded, waiting>>

\* The child: barrier_queue(b, NULL); exit(0).
ChildStep(w) ==
  /\ child[w] = "running"
  /\ \/ B!Call(Child(w)) /\ UNCHANGED child
     \/ B!Inside(Child(w)) /\ UNCHANGED child
     \/ B!Unlock(Child(w)) /\ child' = [child EXCEPT ![w] = "zombie"]
  /\ UNCHANGED <<round, threaded, waiting>>

\* benchmark: barrier_queue(b, NULL) ...
Queue(w) ==
  /\ stage[w] = "timed" /\ ~waiting[w]
  /\ \/ B!Call(Self(w)) /\ UNCHANGED waiting
     \/ B!Inside(Self(w)) /\ UNCHANGED waiting
     \/ B!Unlock(Self(w)) /\ waiting' = [waiting EXCEPT ![w] = TRUE]
  /\ UNCHANGED <<round, threaded, child>>

\* ... then waitpid((pid_t)-1): any child of the process will do.
ChildrenOf(w) == {v \in Worker : child[v] # "none" /\ (threaded \/ v = w)}

\* Seeded fault: waitpid does not wait (WNOHANG).
WaitPidNoHang(w) ==
  /\ waiting[w]
  /\ waiting' = [waiting EXCEPT ![w] = FALSE]
  /\ R!FinishBenchmark(w)
  /\ UNCHANGED <<barrier, threaded, child>>

WaitPid(w) ==
  /\ waiting[w]
  /\ \E v \in ChildrenOf(w) :
       /\ child[v] = "zombie"
       /\ child' = [child EXCEPT ![v] = "none"]
  /\ waiting' = [waiting EXCEPT ![w] = FALSE]
  /\ R!FinishBenchmark(w)
  /\ UNCHANGED <<barrier, threaded>>

Wakeup(t) ==
  /\ B!Spurious(t)
  /\ UNCHANGED <<round, threaded, child, waiting>>

\* The harness ends the run.
Harness(w) ==
  /\ R!Halt(w) \/ R!Stop(w)
  /\ UNCHANGED <<barrier, threaded, child, waiting>>

Finished == (\A w \in Worker : stage[w] = "stopped") /\ UNCHANGED vars

Next ==
  \/ \E w \in Worker :
       Fork(w) \/ ChildStep(w) \/ Queue(w) \/ WaitPid(w) \/ Harness(w)
  \/ \E t \in Threads : Wakeup(t)
  \/ Finished

Spec == Init /\ [][Next]_vars

\* Workers and children are scheduled, and get ba_lock if it is free again and
\* again.
FairSpec ==
  /\ Spec
  /\ \A w \in Worker : SF_vars(ChildStep(w)) /\ SF_vars(Queue(w)) /\ WF_vars(WaitPid(w))

------------------------------------------------------------------------------
\* waitpid never fails for lack of children, whichever thread reaps which
\* child: in a process, workers still to reap never outnumber the children.
ChildForEach ==
  \A w \in Worker :
    LET peers == IF threaded THEN Worker ELSE {w} IN
      Cardinality({v \in peers : stage[v] = "timed"}) <= Cardinality(ChildrenOf(w))
        \/ \A v \in peers : stage[v] # "timed"

\* No child survives its round: the fork of the next round never finds an old
\* child alive that would open the barrier too early.
NoneLeft ==
  [][\A w \in Worker : Fork(w) => child[w] = "none"]_vars

\* Each round ends although the barrier opens twice in it.
RoundEnds == \A w \in Worker : stage[w] = "timed" ~> stage[w] # "timed"

\* "Start them all exiting": no child exits before every worker has begun to
\* run benchmark().
ExitTimed ==
  \A w \in Worker : child[w] = "zombie" => \A v \in Worker : stage[v] \in {"timed", "measured"}
=============================================================================
