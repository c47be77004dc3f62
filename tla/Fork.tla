-------------------------------- MODULE Fork --------------------------------
(***************************************************************************)
(* The benchmark fork (src/fork.c).  A worker forks a child; both queue at *)
(* a barrier of the benchmark's own, the child exits, and benchmark_post   *)
(* waits for it.  The result of fork() is assigned to ts->ts_pid on both   *)
(* sides, but the thread-specific data of the harness is a MAP_SHARED      *)
(* mapping: parent and child write the same word, and a build that does    *)
(* not keep it in a register tests what the other side wrote.              *)
(* The model follows a worker and its children up to the first branch that *)
(* is taken by the wrong side.                                             *)
(***************************************************************************)
EXTENDS Integers, FiniteSets

CONSTANTS
  N,                  \* lm_optP * lm_optT
  Reload,             \* the build reads ts->ts_pid back from memory
  MaxChildren,        \* bound: children of one worker alive at a time, at least 1
  PhaseMod, NoThread

Worker == 0..(N - 1)
Slot   == 1..MaxChildren
Self(w) == <<w, 0>>
Threads == Worker \X (0..MaxChildren)

VARIABLES
  stage, go,                        \* the round, see Rounds
  lock, waiters, phase, bpc, seen,  \* the barrier b
  tspid,   \* ts->ts_pid: "pid" as the parent writes it, "zero" as the child does
  fpc,     \* where a worker is in benchmark and benchmark_post
  mine,    \* the child whose pid fork() returned last
  cpc      \* where each child is; "none" and "exited" are free slots

round   == <<stage, go>>
barrier == <<lock, waiters, phase, bpc, seen>>
vars    == <<round, barrier, tspid, fpc, mine, cpc>>

R == INSTANCE Rounds
\* b = barrier_create(lm_optP * lm_optT * 1, 0)
B == INSTANCE Barrier WITH Hwm <- N

TypeOK ==
  /\ R!TypeOK /\ B!TypeOK
  /\ tspid \in [Worker -> {"pid", "zero"}]
  /\ fpc \in [Worker -> {"start", "store", "branch", "queue", "astray", "gone", "post"}]
  /\ mine \in [Worker -> Slot]
  /\ cpc \in [Worker \X Slot -> {"none", "store", "branch", "queue", "astray", "exited"}]

Init ==
  /\ R!Init /\ B!Init
  /\ tspid = [w \in Worker |-> "zero"]
  /\ fpc = [w \in Worker |-> "start"]
  /\ mine = [w \in Worker |-> 1]
  /\ cpc = [c \in Worker \X Slot |-> "none"]

\* Nothing to do before the round.
Pre(w) ==
  /\ fpc[w] = "start" /\ R!FinishPre(w)
  /\ UNCHANGED <<barrier, tspid, fpc, mine, cpc>>

DoFork(w) ==
  /\ fpc[w] = "start" /\ stage[w] = "timed"
  /\ \E c \in Slot :
       /\ cpc[<<w, c>>] \in {"none", "exited"}
       /\ cpc' = [cpc EXCEPT ![<<w, c>>] = "store"]
       /\ mine' = [mine EXCEPT ![w] = c]
  /\ fpc' = [fpc EXCEPT ![w] = "store"]
  /\ UNCHANGED <<round, barrier, tspid>>

\* ts->ts_pid = fork(), in the parent and in the child
ParentStores(w) ==
  /\ fpc[w] = "store"
  /\ fpc' = [fpc EXCEPT ![w] = "branch"]
  /\ tspid' = [tspid EXCEPT ![w] = "pid"]
  /\ UNCHANGED <<round, barrier, mine, cpc>>

ChildStores(w, c) ==
  /\ cpc[<<w, c>>] = "store"
  /\ cpc' = [cpc EXCEPT ![<<w, c>>] = "branch"]
  /\ tspid' = [tspid EXCEPT ![w] = "zero"]
  /\ UNCHANGED <<round, barrier, fpc, mine>>

\* switch (ts->ts_pid)
Tested(w, own) == IF Reload THEN tspid[w] ELSE own

ParentBranches(w) ==
  /\ fpc[w] = "branch"
  /\ fpc' = [fpc EXCEPT ![w] = IF Tested(w, "pid") = "pid" THEN "queue" ELSE "astray"]
  /\ UNCHANGED <<round, barrier, tspid, mine, cpc>>

ChildBranches(w, c) ==
  /\ cpc[<<w, c>>] = "branch"
  /\ cpc' = [cpc EXCEPT ![<<w, c>>] =
               IF Tested(w, "zero") = "zero" THEN "queue" ELSE "astray"]
  /\ UNCHANGED <<round, barrier, tspid, fpc, mine>>

\* barrier_queue(b, NULL).  A worker returns to the harness; on the wrong side
\* of the switch it calls exit(0) instead.
Queue(w) ==
  /\ fpc[w] \in {"queue", "astray"}
  /\ \/ (B!Call(Self(w)) \/ B!Inside(Self(w))) /\ UNCHANGED <<round, fpc>>
     \/ /\ B!Unlock(Self(w)) /\ fpc[w] = "queue"
        /\ fpc' = [fpc EXCEPT ![w] = "post"]
        /\ R!FinishBenchmark(w)
     \/ /\ B!Unlock(Self(w)) /\ fpc[w] = "astray"
        /\ fpc' = [fpc EXCEPT ![w] = "gone"]
        /\ UNCHANGED round
  /\ UNCHANGED <<tspid, mine, cpc>>

ChildQueue(w, c) ==
  /\ cpc[<<w, c>>] = "queue"
  /\ \/ (B!Call(<<w, c>>) \/ B!Inside(<<w, c>>)) /\ UNCHANGED cpc
     \/ B!Unlock(<<w, c>>) /\ cpc' = [cpc EXCEPT ![<<w, c>>] = "exited"]
  /\ UNCHANGED <<round, tspid, fpc, mine>>

\* benchmark_post waits for the child only if the word still holds its pid.
Post(w) ==
  /\ fpc[w] = "post" /\ stage[w] = "between"
  /\ tspid[w] = "pid" => cpc[<<w, mine[w]>>] = "exited"
  /\ fpc' = [fpc EXCEPT ![w] = "start"]
  /\ UNCHANGED <<round, barrier, tspid, mine, cpc>>

\* The harness ends the run after benchmark_post.
Harness(w) ==
  /\ R!Halt(w) \/ (R!Stop(w) /\ fpc[w] = "start")
  /\ UNCHANGED <<barrier, tspid, fpc, mine, cpc>>

Next ==
  \/ \E w \in Worker :
       \/ Pre(w) \/ DoFork(w) \/ ParentStores(w) \/ ParentBranches(w)
       \/ Queue(w) \/ Post(w) \/ Harness(w)
       \/ \E c \in Slot : ChildStores(w, c) \/ ChildBranches(w, c) \/ ChildQueue(w, c)

Spec == Init /\ [][Next]_vars

------------------------------------------------------------------------------
\* A worker process ends only because the run is over: "Stop if either: a) The
\* maximum amount of time has been spent. b) The target number of samples has
\* been met."
EndsWithRun == \A w \in Worker : fpc[w] = "gone" => ~go
=============================================================================
