------------------------------ MODULE Harness -------------------------------
(***************************************************************************)
(* The run of one libMicro benchmark (actual_main, worker_process and      *)
(* worker_thread of src/libmicro.c): the parent forks the worker           *)
(* processes, every process creates its threads, every thread goes through *)
(* rounds of pre / benchmark / post synchronised by two barriers, records  *)
(* its samples inside the second one, and the parent collects the          *)
(* processes and reports.  A callback may fail: LM_CHK then ends the       *)
(* process of the thread, whatever its other threads are doing.            *)
(***************************************************************************)
EXTENDS Integers, FiniteSets

CONSTANTS
  OptP, OptT, OptC,   \* the options -P, -T and -C
  Opt1,               \* the option -1: a single process, nothing is forked
  FailPoints,         \* where a callback or a system call may fail
  PhaseMod, NoThread

P == IF Opt1 /\ OptP > 1 THEN 1 ELSE OptP   \* -1 overrides -P

Proc   == 0..(P - 1)
Thread == 0..(OptT - 1)
Worker == Proc \X Thread
Main(p) == <<p, 0>>          \* the thread the process starts with

Target == OptC * P * OptT    \* ba_tgt_samples, also the room in ba_data

Callback == {"init", "pre", "bench", "post", "fini"}

ASSUME HarnessAssumption ==
  /\ OptP \in Nat \ {0} /\ OptT \in Nat \ {0} /\ OptC \in Nat
  /\ Opt1 \in BOOLEAN
  /\ FailPoints \subseteq Callback \cup {"fork", "spawn"}
  /\ PhaseMod \in Nat /\ PhaseMod > 1 /\ NoThread \notin Worker

VARIABLES
  lock, waiters, phase, bpc, seen,  \* the barrier
  flag,       \* ba_flag: go on with another round
  samples,    \* ba_samples
  expired,    \* the clock has passed ba_deadline
  wpc,        \* where each thread is in worker_thread
  late,       \* its last benchmark ended after the deadline (re_t1)
  recorded,   \* how many of the samples are its own (history)
  calls,      \* how often it has called benchmark (history)
  proc,       \* state of the worker processes
  parent,     \* where the parent is in actual_main
  cursor      \* its loop variable i

barrier == <<lock, waiters, phase, bpc, seen>>
run     == <<flag, samples, expired>>
worker  == <<wpc, late, recorded, calls>>
system  == <<proc, parent, cursor>>
vars    == <<barrier, run, worker, system>>

B == INSTANCE Barrier WITH Threads <- Worker, Hwm <- P * OptT

\* "sync" and "record" are the two calls of barrier_queue; "clear" is the
\* point between the test and the assignment to ba_flag, "loop" the while test.
WorkerPc == Callback \cup {"unborn", "spawn", "loop", "sync", "check", "clear",
                           "record", "done"}
ProcState == {"unborn", "running", "exited", "failed"}

TypeOK ==
  /\ B!TypeOK
  /\ flag \in BOOLEAN /\ expired \in BOOLEAN /\ samples \in Nat
  /\ wpc \in [Worker -> WorkerPc]
  /\ late \in [Worker -> BOOLEAN]
  /\ recorded \in [Worker -> Nat] /\ calls \in [Worker -> Nat]
  /\ proc \in [Proc -> ProcState]
  /\ parent \in {"fork", "wait", "done", "failed"}
  /\ cursor \in 0..P

Init ==
  /\ B!Init
  /\ flag = TRUE /\ samples = 0 /\ expired = FALSE
  /\ wpc = [w \in Worker |-> "unborn"]
  /\ late = [w \in Worker |-> FALSE]
  /\ recorded = [w \in Worker |-> 0]
  /\ calls = [w \in Worker |-> 0]
  /\ proc = [p \in Proc |-> "unborn"]
  /\ parent = "fork" /\ cursor = 0

------------------------------------------------------------------------------
\* The parent.  With -1 its "fork" is a plain call of worker_process, and its
\* "wait" is that call: a failure in it ends the parent just the same.
Fork ==
  /\ parent = "fork" /\ cursor < P
  /\ proc' = [proc EXCEPT ![cursor] = "running"]
  /\ wpc' = [wpc EXCEPT ![Main(cursor)] = "spawn"]
  /\ cursor' = cursor + 1
  /\ UNCHANGED <<barrier, run, late, recorded, calls, parent>>

ForkFails ==
  /\ "fork" \in FailPoints /\ ~Opt1
  /\ parent = "fork" /\ cursor < P
  /\ parent' = "failed"
  /\ UNCHANGED <<barrier, run, worker, proc, cursor>>

StartWaiting ==
  /\ parent = "fork" /\ cursor = P
  /\ parent' = "wait" /\ cursor' = 0
  /\ UNCHANGED <<barrier, run, worker, proc>>

\* waitpid(pids[i]) in the order of the forks; a bad status ends the parent.
Wait ==
  /\ parent = "wait" /\ cursor < P
  /\ \/ /\ proc[cursor] = "exited"
        /\ cursor' = cursor + 1 /\ UNCHANGED parent
     \/ /\ proc[cursor] = "failed"
        /\ parent' = "failed" /\ UNCHANGED cursor
  /\ UNCHANGED <<barrier, run, worker, proc>>

Report ==
  /\ parent = "wait" /\ cursor = P
  /\ parent' = "done"
  /\ UNCHANGED <<barrier, run, worker, proc, cursor>>

------------------------------------------------------------------------------
\* A worker process: its main thread creates the threads 1 .. T-1 in order,
\* becomes worker 0, joins the others and exits.
Created(p, i) == wpc[<<p, i>>] # "unborn"

Alive(w) == proc[w[1]] = "running"

CreateThread(p, i) ==
  /\ proc[p] = "running" /\ wpc[Main(p)] = "spawn"
  /\ i # 0 /\ ~Created(p, i)
  /\ \A j \in Thread : 0 < j /\ j < i => Created(p, j)
  /\ wpc' = [wpc EXCEPT ![<<p, i>>] = "init"]
  /\ UNCHANGED <<barrier, run, late, recorded, calls, system>>

StartMain(p) ==
  /\ proc[p] = "running" /\ wpc[Main(p)] = "spawn"
  /\ \A i \in Thread : Created(p, i)
  /\ wpc' = [wpc EXCEPT ![Main(p)] = "init"]
  /\ UNCHANGED <<barrier, run, late, recorded, calls, system>>

\* Seeded fault: the main thread does not join the others.
ExitNoJoin(p) ==
  /\ proc[p] = "running" /\ wpc[Main(p)] = "done"
  /\ proc' = [proc EXCEPT ![p] = "exited"]
  /\ UNCHANGED <<barrier, run, worker, parent, cursor>>

Exit(p) ==
  /\ proc[p] = "running"
  /\ \A i \in Thread : wpc[<<p, i>>] = "done"
  /\ proc' = [proc EXCEPT ![p] = "exited"]
  /\ UNCHANGED <<barrier, run, worker, parent, cursor>>

\* LM_CHK fails in a callback, or pthread_create fails: exit(1) ends the
\* process at once, with whatever its other threads hold or wait for.
Fail(w) ==
  /\ Alive(w) /\ wpc[w] \in FailPoints
  /\ wpc[w] = "spawn" => \E i \in Thread : ~Created(w[1], i)
  /\ proc' = [proc EXCEPT ![w[1]] = "failed"]
  /\ UNCHANGED <<barrier, run, worker, parent, cursor>>

------------------------------------------------------------------------------
\* A worker thread.
Goto(w, pc) == wpc' = [wpc EXCEPT ![w] = pc]

InitWorker(w) ==
  /\ wpc[w] = "init" /\ Goto(w, "loop")
  /\ UNCHANGED <<barrier, run, late, recorded, calls, system>>

\* Seeded fault: the loop looks at the clock as well.
TestFlagAndClock(w) ==
  /\ wpc[w] = "loop" /\ Goto(w, IF flag /\ ~expired THEN "pre" ELSE "fini")
  /\ UNCHANGED <<barrier, run, late, recorded, calls, system>>

\* while (lm_barrier->ba_flag), read without the lock
TestFlag(w) ==
  /\ wpc[w] = "loop" /\ Goto(w, IF flag THEN "pre" ELSE "fini")
  /\ UNCHANGED <<barrier, run, late, recorded, calls, system>>

Pre(w) ==
  /\ wpc[w] = "pre" /\ Goto(w, "sync")
  /\ B!Call(w)
  /\ UNCHANGED <<run, late, recorded, calls, system>>

\* barrier_queue(lm_barrier, NULL)
Sync(w) ==
  /\ wpc[w] = "sync" /\ B!Inside(w)
  /\ UNCHANGED <<run, worker, system>>

Synced(w) ==
  /\ wpc[w] = "sync" /\ B!Unlock(w)
  /\ Goto(w, "bench")
  /\ calls' = [calls EXCEPT ![w] = @ + 1]
  /\ UNCHANGED <<run, late, recorded, system>>

\* benchmark() and the reading of re_t1
Benchmark(w) ==
  /\ wpc[w] = "bench" /\ Goto(w, "check")
  /\ late' = [late EXCEPT ![w] = expired]
  /\ UNCHANGED <<barrier, run, recorded, calls, system>>

\* Seeded faults: the target is not tested; it is tested off by one; the
\* deadline is not tested.
StopLateOnly(w)   == late[w]
StopBeyond(w)     == late[w] \/ samples > Target
StopTargetOnly(w) == samples = Target

MustStop(w) == late[w] \/ samples = Target

\* The test reads ba_samples without the lock; it comes before the sample of
\* this round is recorded.
Check(w) ==
  /\ wpc[w] = "check"
  /\ IF MustStop(w)
       THEN Goto(w, "clear") /\ UNCHANGED barrier
       ELSE Goto(w, "record") /\ B!Call(w)
  /\ UNCHANGED <<run, late, recorded, calls, system>>

Clear(w) ==
  /\ wpc[w] = "clear" /\ Goto(w, "record")
  /\ flag' = FALSE
  /\ B!Call(w)
  /\ UNCHANGED <<samples, expired, late, recorded, calls, system>>

\* barrier_queue(lm_barrier, &r): add_sample if ba_flag is still set, then
\* count, in one critical section.
AddSample(w) ==
  IF flag
    THEN /\ samples' = samples + 1
         /\ recorded' = [recorded EXCEPT ![w] = @ + 1]
    ELSE UNCHANGED <<samples, recorded>>

RecordQueue(w) ==
  /\ wpc[w] = "record" /\ B!Queue(w)
  /\ AddSample(w)
  /\ UNCHANGED <<flag, expired, wpc, late, calls, system>>

RecordBlock(w) ==
  /\ wpc[w] = "record"
  /\ B!Lock(w) \/ B!Relock(w)
  /\ UNCHANGED <<run, worker, system>>

Recorded(w) ==
  /\ wpc[w] = "record" /\ B!Unlock(w)
  /\ Goto(w, "post")
  /\ UNCHANGED <<run, late, recorded, calls, system>>

Post(w) ==
  /\ wpc[w] = "post" /\ Goto(w, "loop")
  /\ UNCHANGED <<barrier, run, late, recorded, calls, system>>

FiniWorker(w) ==
  /\ wpc[w] = "fini" /\ Goto(w, "done")
  /\ UNCHANGED <<barrier, run, late, recorded, calls, system>>

ThreadStep(w) ==
  /\ Alive(w)
  /\ \/ InitWorker(w) \/ TestFlag(w) \/ Pre(w) \/ Sync(w) \/ Synced(w)
     \/ Benchmark(w) \/ Check(w) \/ Clear(w) \/ RecordQueue(w)
     \/ RecordBlock(w) \/ Recorded(w) \/ Post(w) \/ FiniWorker(w)

\* A spurious return of pthread_cond_wait.
Wakeup(w) ==
  /\ Alive(w) /\ B!Spurious(w)
  /\ UNCHANGED <<run, worker, system>>

\* The clock passes the deadline, at any moment.
Expire ==
  /\ ~expired /\ expired' = TRUE
  /\ UNCHANGED <<barrier, flag, samples, worker, system>>

Finished == parent = "done" /\ UNCHANGED vars

Next ==
  \/ Fork \/ ForkFails \/ StartWaiting \/ Wait \/ Report
  \/ \E p \in Proc : StartMain(p) \/ Exit(p)
                     \/ \E i \in Thread : CreateThread(p, i)
  \/ \E w \in Worker : ThreadStep(w) \/ Wakeup(w) \/ Fail(w)
  \/ Expire \/ Finished

Spec == Init /\ [][Next]_vars

\* Every process and thread is scheduled, and a thread that asks for ba_lock
\* gets it if it is free again and again.  Nothing has to fail, no wakeup has
\* to be spurious, and the deadline may never be reached.
Fairness ==
  /\ WF_vars(Fork) /\ WF_vars(StartWaiting) /\ WF_vars(Wait) /\ WF_vars(Report)
  /\ \A p \in Proc : WF_vars(StartMain(p)) /\ WF_vars(Exit(p))
                      /\ \A i \in Thread : WF_vars(CreateThread(p, i))
  /\ \A w \in Worker : SF_vars(ThreadStep(w))

FairSpec == Spec /\ Fairness

------------------------------------------------------------------------------
\* The timed part is undisturbed: while a worker may be inside benchmark(), no
\* worker is in an untimed callback or still being created; every other one
\* has been let go by the first barrier and not yet by the second.
TimingAlone ==
  \A v, w \in Worker : wpc[v] = "bench" =>
    \/ wpc[w] \in {"bench", "check", "clear"}
    \/ wpc[w] = "sync" /\ w \in B!Released
    \/ wpc[w] = "record" /\ w \notin B!Released

\* Samples never run past the room made for them in ba_data, although the
\* target is tested with == on a counter the other workers keep moving.
SamplesFit == samples <= Target

\* Every worker contributes the same number of samples, but for the round in
\* which the deadline passed.  The target is tested before the sample of the
\* round is recorded, so one round is run in vain, and never more than one.
FairShare ==
  \A v, w \in Worker :
    /\ recorded[v] - recorded[w] \in -1..1
    /\ calls[v] - recorded[v] \in 0..1
    /\ calls[v] <= OptC + 1

\* The parent reports only on a complete run: every thread of every process
\* is through, and unless time ran out each worker gave exactly OptC samples.
ReportComplete ==
  parent = "done" => \A w \in Worker :
    wpc[w] = "done" /\ (~expired => recorded[w] = OptC)

\* A benchmark that ended after the deadline is never recorded, and neither
\* is one that starts when the target is already met.
LateNotRecorded ==
  [][\A w \in Worker : recorded'[w] # recorded[w] =>
       ~late[w] /\ recorded[w] < OptC]_vars

\* The workers as a benchmark module sees them.
StageOf(w) ==
  CASE wpc[w] \in {"fini", "done"} -> "stopped"
    [] wpc[w] \in {"bench", "check", "clear"} -> "timed"
    [] wpc[w] = "sync" /\ w \in B!Arrived -> "ready"
    [] wpc[w] = "sync" /\ w \in B!Released -> "timed"
    [] wpc[w] = "record" /\ w \in B!Arrived -> "measured"
    [] wpc[w] = "record" /\ w \notin B!Arrived \cup B!Released -> "timed"
    [] OTHER -> "between"

Lockstep == INSTANCE Rounds WITH
  stage <- [w \in Worker |-> StageOf(w)], go <- flag
\* The harness implements the lock-step rounds, failures included.
ImplementsRounds == Lockstep!Spec

\* Every run ends, with a report or with an error, unless a worker process fails.
Ended == parent \in {"done", "failed"}
Casualty == \E p \in Proc : proc[p] = "failed"
RunEnds == <>(Ended \/ Casualty)

\* Once a worker process has failed the run ends: "If the benchmark failed
\* there is no more work to be done."
FailureEndsRun == Casualty ~> Ended
=============================================================================
