------------------------------ MODULE Callbacks -----------------------------
(***************************************************************************)
(* The workers of a benchmark, as its module sees them (worker_process and *)
(* worker_thread of src/libmicro.c): the harness calls benchmark_initworker,*)
(* then benchmark_pre, benchmark and benchmark_post in lock-step rounds    *)
(* (module Rounds), then benchmark_finiworker.  What a callback does is a  *)
(* sequence of calls, its script; the modules that extend this one say     *)
(* what a call does.                                                       *)
(***************************************************************************)
EXTENDS Integers, Sequences

CONSTANTS
  N,             \* workers, lm_optP * lm_optT
  ThreadCounts,  \* numbers of threads per process checked
  Benchmarks     \* names of the benchmarks checked

ASSUME CallbacksAssumption ==
  /\ N \in Nat \ {0}
  /\ ThreadCounts \subseteq {t \in 1..N : N % t = 0}

Worker == 0..(N - 1)

VARIABLES
  stage, go,   \* the round, see Rounds
  bench,       \* the benchmark of this run
  lm_optT,     \* the threads of each process (-T)
  cb, todo,    \* the callback each worker is in, the calls it still has to make
  once,        \* its first benchmark_pre is behind it (ts_once)
  failed       \* why the run was cut short, "no" if it was not

round  == <<stage, go>>
choice == <<bench, lm_optT>>
place  == <<cb, todo, once>>

R == INSTANCE Rounds

\* A script: what each callback calls; "first" is the part of benchmark_pre
\* that is made in the first round only.
Idler == [worker |-> <<>>, first |-> <<>>, pre |-> <<>>, bench |-> <<>>,
          post |-> <<>>, fini |-> <<>>]

\* The worker processes (pindex) and the threads of each (tindex), of which the
\* first is the one that the process starts with.
Proc(w)   == w \div lm_optT
Thread(w) == w % lm_optT
First(w)  == Proc(w) * lm_optT

CallbacksTypeOK ==
  /\ R!TypeOK
  /\ bench \in Benchmarks /\ lm_optT \in ThreadCounts
  /\ cb \in [Worker -> {"unborn", "worker", "pre", "bench", "post", "fini", "done"}]
  /\ \A w \in Worker : Len(todo[w]) <= 9
  /\ once \in [Worker -> BOOLEAN]

StartRun ==
  /\ R!Init
  /\ bench \in Benchmarks /\ lm_optT \in ThreadCounts
  /\ once = [w \in Worker |-> FALSE]
  /\ failed = "no"

------------------------------------------------------------------------------
\* The next call of a worker, in a callback the harness has reached.
InStage(w) ==
  CASE cb[w] = "bench" -> stage[w] = "timed"
    [] cb[w] \in {"unborn", "done"} -> FALSE
    [] OTHER -> stage[w] = "between"

Next1(w, ops) ==
  /\ failed = "no" /\ InStage(w)
  /\ todo[w] # <<>> /\ Head(todo[w]).op \in ops

Done(w) == todo' = [todo EXCEPT ![w] = Tail(@)] /\ UNCHANGED <<cb, once>>

\* LM_CHK: lm_err ends the process; a signal does the same.
Fails(why) == failed' = why /\ UNCHANGED <<round, choice, place>>

\* A call that is checked for one kind of failure.
Unless(bad, why, w) ==
  IF bad THEN Fails(why) ELSE Done(w) /\ UNCHANGED <<round, choice, failed>>

\* Seeded fault: the test of ts_once is forgotten.
PreOpsAlways(w, script) == script.first \o script.pre

PreOps(w, script) ==
  IF once[w] THEN script.pre ELSE script.first \o script.pre

\* The harness between the callbacks of a worker.
Idle(w) == failed = "no" /\ InStage(w) /\ todo[w] = <<>>

Enter(w, callback, ops) ==
  /\ cb' = [cb EXCEPT ![w] = callback]
  /\ todo' = [todo EXCEPT ![w] = ops]

LoopTest(w, script) ==
  /\ Idle(w) /\ cb[w] \in {"worker", "post"}
  /\ IF go THEN /\ Enter(w, "pre", PreOps(w, script))
                /\ once' = [once EXCEPT ![w] = TRUE]
           ELSE Enter(w, "fini", script.fini) /\ UNCHANGED once
  /\ UNCHANGED <<round, choice, failed>>

Return(w, script) ==
  /\ Idle(w)
  /\ \/ cb[w] = "pre" /\ R!FinishPre(w) /\ Enter(w, "bench", script.bench)
     \/ cb[w] = "bench" /\ R!FinishBenchmark(w) /\ Enter(w, "post", script.post)
     \/ cb[w] = "fini" /\ R!Stop(w) /\ Enter(w, "done", <<>>)
  /\ UNCHANGED <<once, choice, failed>>

\* The deadline or the target is reached.
Halt(w) ==
  /\ failed = "no" /\ R!Halt(w)
  /\ UNCHANGED <<choice, place, failed>>

Over == failed # "no" \/ \A w \in Worker : cb[w] = "done"
=============================================================================
