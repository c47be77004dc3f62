------------------------------- MODULE Objects ------------------------------
(***************************************************************************)
(* The benchmarks on objects other than descriptors, composed: what a      *)
(* worker knows of itself (WorkerData), memory (Memory), locks and threads *)
(* (Locks), poll and select (Polling).  The threads of a process are       *)
(* created while the run begins.                                           *)
(***************************************************************************)
EXTENDS Memory, Locks, Polling

\* A benchmark and its options: sizes and offsets are any numbers, -1 if they
\* did not parse.
Options ==
  [name : DataNames]
  \cup [name : Mapping, l : Int, file : {"anon", "device", "regular"}, touch : BOOLEAN]
  \cup [name : {"malloc"}, s : Int, g : Int]
  \cup [name : {"memset"}, s : Int, a : Int, u : BOOLEAN]
  \cup [name : Copies, s : Int, a : Int, f : BOOLEAN, t : BOOLEAN]
  \cup [name : Strings, s : Int, unaligned : BOOLEAN]
  \cup [name : {"memrand"}, s : Int]
  \cup [name : {"mutex"}, p : BOOLEAN]
  \cup [name : LockNames \ {"mutex"}]
  \cup [name : PollNames, n : Int, r : Int, w : Int, x : BOOLEAN]

ASSUME ObjectsAssumption == Benchmarks \subseteq Options

vars == <<round, choice, place, failed, data, memory, locks>>

Script(w) ==
  CASE bench.name \in DataNames   -> DataScript
    [] bench.name \in MemoryNames -> MemoryScript
    [] bench.name \in LockNames   -> LockScript(w)
    [] bench.name \in PollNames   -> PollScript

\* With a benchmark_initrun that fails there are no workers.
Accepted ==
  /\ bench.name \in PollNames => PollAccepted
  /\ bench.name \in MemoryNames => MemoryAccepted

TypeOK ==
  /\ CallbacksTypeOK /\ DataTypeOK /\ MemoryTypeOK /\ LocksTypeOK
  /\ failed \in {"no", "stray", "exec", "einval", "bus", "wraps", "ftruncate", "segv",
                 "enomem", "overrun", "semget", "thread", "target"}

Init ==
  /\ StartRun /\ Accepted
  /\ DataInit([w \in Worker |-> Script(w)])
  /\ MemoryInit /\ LocksInit

------------------------------------------------------------------------------
Advance(w) ==
  /\ LoopTest(w, Script(w)) \/ Return(w, Script(w))
  /\ UNCHANGED <<data, memory, locks>>

Step(w) ==
  \/ DataCall(w) /\ UNCHANGED <<memory, locks>>
  \/ MemoryCall(w) /\ UNCHANGED locks
  \/ LockCall(w) /\ UNCHANGED <<data, memory>>
  \/ PollCall(w) /\ UNCHANGED <<data, memory, locks>>
  \/ Advance(w)

Newborn(i) == Birth(i, Script(i)) /\ UNCHANGED <<memory, locks>>
Made(w)    == Child(w) /\ UNCHANGED <<data, memory>>
Stop(w)    == Halt(w) /\ UNCHANGED <<data, memory, locks>>

Finished == Over /\ UNCHANGED vars

Work == \E w \in Worker : Step(w) \/ Newborn(w) \/ Made(w)

Next == Work \/ (\E w \in Worker : Stop(w)) \/ Finished

Spec == Init /\ [][Next]_vars

\* As long as some thread can go on, one of them does.
FairSpec == Spec /\ WF_vars(Work)

------------------------------------------------------------------------------
\* Between rounds nothing is left of what the round made: no mapping but that
\* of msync, no block of malloc, and, when all workers are there, no semaphore
\* set; so the length of a run is not bounded by these.
Between(w) == Idle(w) /\ cb[w] \in {"worker", "post"}
RoundBalanced ==
  /\ \A w \in Worker : Between(w) =>
       /\ maps[w] = IF bench.name = "msync" THEN 1 ELSE 0
       /\ bench.name = "malloc" => heap[w]["b"] = -1
  /\ (\A w \in Worker : Between(w)) => sets = 0

\* Every other failure is one of the named ones: in particular poll and select
\* find what benchmark_initrun computed, semget finds room for N sets, and a
\* worker never needs what it has not got.  The threads of a process share one
\* jump buffer in siglongjmp and one path in exec.
FailuresKnown ==
  /\ MemoryFailures
  /\ failed = "stray" => bench.name = "siglongjmp" /\ lm_optT > 1
  /\ failed = "exec" => lm_optT > 1
  /\ failed = "thread" => bench.name = "pthread_create"
  /\ failed = "semget" => SemLimit < N
  /\ failed # "target"

\* A timed part that begins ends for every worker, unless a check fails: none
\* waits for a lock, a semaphore or a thread for ever.
RoundEnds ==
  (\E w \in Worker : stage[w] = "timed")
    ~> (\A w \in Worker : stage[w] # "timed") \/ failed # "no"
=============================================================================
