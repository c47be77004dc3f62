------------------------------ MODULE Cascade -------------------------------
(***************************************************************************)
(* The cascade benchmarks (cascade_mutex, _cond, _lockf, _fcntl, _flock):  *)
(* the workers form a ring, each has two locks on which it blocks, and     *)
(* each manipulates the two locks of the worker that follows it.  The      *)
(* rounds are those of module Rounds: benchmark_pre and benchmark are run  *)
(* in lock-step by the harness.  The lock primitive is a parameter of the  *)
(* run, chosen in Init.                                                    *)
(***************************************************************************)
EXTENDS Integers, Sequences, FiniteSets

CONSTANTS
  N,        \* nthreads = lm_optP * lm_optT
  Kinds,    \* the lock primitives checked
  None      \* nobody, no lock

Worker == 0..(N - 1)
LockId == Worker \X {0, 1}

ASSUME CascadeAssumption ==
  /\ N \in Nat \ {0}
  /\ Kinds \subseteq {"mutex", "cond", "cond_o", "lockf", "fcntl", "flock"}
  /\ None \notin Worker \cup LockId

VARIABLES
  stage, go,   \* the round, see Rounds
  kind,        \* the lock primitive of this run
  holder,      \* who blocked each lock last, None if it is not blocked
  pc,          \* 0 in benchmark_pre, then the next operation of benchmark
  asleep,      \* blocked in pthread_cond_wait
  owed         \* the lock whose signal is still to be sent (-o)

vars == <<stage, go, kind, holder, pc, asleep, owed>>

R == INSTANCE Rounds

\* The ring.  The last worker is connected crosswise to worker 0, so that the
\* lock it blocks first is the second one of worker 0.
Next1(w) == (w + 1) % N
Us0(w)   == <<w, 0>>
Us1(w)   == <<w, 1>>
\* Seeded fault: the connection of the last worker is straight too.
Them0Straight(w) == <<Next1(w), 0>>
Them0(w) == IF w < N - 1 THEN <<Next1(w), 0>> ELSE <<Next1(w), 1>>
Them1(w) == IF w < N - 1 THEN <<Next1(w), 1>> ELSE <<Next1(w), 0>>

Block(l) == [op |-> "block", lock |-> l]
Unblock(l) == [op |-> "unblock", lock |-> l]

\* benchmark() of cascade_flock, which has no second half ...
FlockScript(w) ==
  << Block(Us0(w)), Unblock(Us0(w)), Block(Them1(w)), Unblock(Them0(w)),
     Block(Us1(w)),
     Unblock(Them0(w)), Unblock(Us0(w)) >>

\* Seeded fault: the second half does not block them0 again.
ScriptUnblocked(w) ==
  << Block(Us0(w)), Unblock(Us0(w)), Block(Them1(w)), Unblock(Them0(w)),
     Block(Us1(w)),
     Unblock(Us1(w)), Unblock(Them1(w)), Block(Us0(w)),
     Unblock(Them0(w)), Unblock(Us0(w)) >>

\* ... and of cascade_mutex, _cond, _lockf and _fcntl.
FullScript(w) ==
  << Block(Us0(w)), Unblock(Us0(w)), Block(Them1(w)), Unblock(Them0(w)),
     Block(Us1(w)),
     Unblock(Us1(w)), Block(Them0(w)), Unblock(Them1(w)), Block(Us0(w)),
     Unblock(Them0(w)), Unblock(Us0(w)) >>

Script(w) == IF kind = "flock" THEN FlockScript(w) ELSE FullScript(w)

\* The operation a worker performs next: in benchmark_pre it blocks the first
\* move of the worker that follows.
Operation(w) == IF pc[w] = 0 THEN Block(Them0(w)) ELSE Script(w)[pc[w]]

TypeOK ==
  /\ R!TypeOK
  /\ kind \in Kinds
  /\ holder \in [LockId -> Worker \cup {None}]
  /\ pc \in [Worker -> 0..11]
  /\ asleep \in [Worker -> BOOLEAN]
  /\ owed \in [Worker -> LockId \cup {None}]

Init ==
  /\ R!Init
  /\ kind \in Kinds
  /\ holder = [l \in LockId |-> None]
  /\ pc = [w \in Worker |-> 0]
  /\ asleep = [w \in Worker |-> FALSE]
  /\ owed = [w \in Worker |-> None]

------------------------------------------------------------------------------
\* What the primitives do.  Every worker is a process of its own where the lock
\* belongs to a process (lockf, fcntl): that is how bench.sh runs them.

\* May block(l) by w return?  A pthread mutex and the flag of cascade_cond
\* exclude everybody; a record lock excludes the other processes only; flock
\* belongs to the open file, and the files are opened before the fork.
\* Seeded fault: the mutexes of different processes are different mutexes.
MutexPrivate(l)    == TRUE
MutexFree(l)       == holder[l] = None
CondFree(l)        == holder[l] = None
RecordFree(w, l)   == holder[l] \in {None, w}
MayBlock(w, l) ==
  CASE kind = "mutex" -> MutexFree(l)
    [] kind \in {"cond", "cond_o"} -> CondFree(l)
    [] kind \in {"lockf", "fcntl"} -> RecordFree(w, l)
    [] kind = "flock" -> TRUE

\* Unlocking a record that another process has locked does nothing.
Released(w, l) ==
  IF kind \in {"lockf", "fcntl"} /\ holder[l] # w THEN holder
                                                  ELSE [holder EXCEPT ![l] = None]

\* The workers in pthread_cond_wait on l.
Sleepers(l) == {u \in Worker : asleep[u] /\ Operation(u).lock = l}

\* Seeded fault: the signal is forgotten.
SignalNobody(l) == UNCHANGED asleep

\* pthread_cond_signal(l) wakes at most one of them.
Signal(l) ==
  IF Sleepers(l) = {} THEN UNCHANGED asleep
  ELSE \E u \in Sleepers(l) : asleep' = [asleep EXCEPT ![u] = FALSE]

\* A worker may run in benchmark_pre and in the timed part of the round.
Running(w) ==
  /\ ~asleep[w] /\ owed[w] = None
  /\ IF pc[w] = 0 THEN stage[w] = "between" /\ go ELSE stage[w] = "timed"

\* The callback returns to the harness after its last operation.
Advance(w) ==
  IF pc[w] = 0
    THEN pc' = [pc EXCEPT ![w] = 1] /\ R!FinishPre(w)
    ELSE IF pc[w] < Len(Script(w))
      THEN pc' = [pc EXCEPT ![w] = @ + 1] /\ UNCHANGED <<stage, go>>
      ELSE pc' = [pc EXCEPT ![w] = 0] /\ R!FinishBenchmark(w)

DoBlock(w) ==
  LET l == Operation(w).lock IN
  /\ Running(w) /\ Operation(w).op = "block"
  /\ MayBlock(w, l)
  /\ holder' = [holder EXCEPT ![l] = w]
  /\ Advance(w)
  /\ UNCHANGED <<kind, asleep, owed>>

\* cascade_cond: while (conds[index] != 0) pthread_cond_wait().
DoWait(w) ==
  LET l == Operation(w).lock IN
  /\ Running(w) /\ Operation(w).op = "block"
  /\ kind \in {"cond", "cond_o"} /\ ~CondFree(l)
  /\ asleep' = [asleep EXCEPT ![w] = TRUE]
  /\ UNCHANGED <<stage, go, kind, holder, pc, owed>>

SpuriousWakeup(w) ==
  /\ asleep[w]
  /\ asleep' = [asleep EXCEPT ![w] = FALSE]
  /\ UNCHANGED <<stage, go, kind, holder, pc, owed>>

DoUnblock(w) ==
  LET l == Operation(w).lock IN
  /\ Running(w) /\ Operation(w).op = "unblock"
  /\ kind # "cond_o"
  /\ holder' = Released(w, l)
  /\ IF kind = "cond" THEN Signal(l) ELSE UNCHANGED asleep
  /\ Advance(w)
  /\ UNCHANGED <<kind, owed>>

\* cascade_cond -o: the signal is sent after the mutex is released, others
\* may run in between.
ClearFlag(w) ==
  LET l == Operation(w).lock IN
  /\ Running(w) /\ Operation(w).op = "unblock"
  /\ kind = "cond_o"
  /\ holder' = Released(w, l)
  /\ owed' = [owed EXCEPT ![w] = l]
  /\ UNCHANGED <<stage, go, kind, pc, asleep>>

SignalLate(w) ==
  /\ owed[w] # None
  /\ Signal(owed[w])
  /\ owed' = [owed EXCEPT ![w] = None]
  /\ Advance(w)
  /\ UNCHANGED <<kind, holder>>

Step(w) == DoBlock(w) \/ DoWait(w) \/ DoUnblock(w) \/ ClearFlag(w) \/ SignalLate(w)

\* The harness ends the run: the rounds go on until it does.
Harness(w) ==
  /\ R!Halt(w) \/ R!Stop(w)
  /\ UNCHANGED <<kind, holder, pc, asleep, owed>>

Finished == (\A w \in Worker : stage[w] = "stopped") /\ UNCHANGED vars

Next == (\E w \in Worker : Step(w) \/ SpuriousWakeup(w) \/ Harness(w)) \/ Finished

Spec == Init /\ [][Next]_vars

\* Every worker is scheduled; locks need not be granted in order.
FairSpec == Spec /\ \A w \in Worker : WF_vars(Step(w))

------------------------------------------------------------------------------
\* Only the worker that blocked a lock unblocks it, and nobody blocks a lock it
\* has blocked already: anything else is undefined for a mutex, and a silent
\* no-op for a record lock.
OwnerUnblocks ==
  \A w \in Worker : Running(w) =>
    LET l == Operation(w).lock IN
      IF Operation(w).op = "unblock" THEN holder[l] = w ELSE holder[l] # w

\* "finish batch with nothing blocked": what a worker blocks in a round is
\* free again when it has finished the round.
NothingBlocked ==
  \A l \in LockId : holder[l] # None => stage[holder[l]] \in {"ready", "timed"}

\* Moves of the current round: how many of its three waits (for us0, us1 and
\* us0 again) a worker has passed.
Moves(w) ==
  IF stage[w] # "timed" THEN IF stage[w] = "measured" THEN 3 ELSE 0
  ELSE Cardinality({i \in {1, 5, 9} : i < pc[w]})

\* The baton goes round the ring: a worker makes its next move only after its
\* predecessor has made that move, worker 0 only after the last one has
\* caught up.
RingOrder ==
  /\ \A w \in Worker \ {0} : Moves(w) <= Moves(w - 1)
  /\ Moves(0) <= Moves(N - 1) + 1

\* No set of workers waits for one another, so record locks never report
\* EDEADLK.
WaitsFor(w, v) ==
  /\ Operation(w).op = "block" /\ stage[w] \in {"between", "timed"}
  /\ ~MayBlock(w, Operation(w).lock) /\ holder[Operation(w).lock] = v
NoWaitCycle ==
  \A S \in (SUBSET Worker) \ {{}} : \E w \in S : \A v \in S : ~WaitsFor(w, v)

\* Every batch is finished: no wakeup is lost, also with -o.
BatchEnds == \A w \in Worker : stage[w] = "timed" ~> stage[w] # "timed"
=============================================================================
