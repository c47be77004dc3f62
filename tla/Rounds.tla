------------------------------- MODULE Rounds -------------------------------
(***************************************************************************)
(* What the libMicro harness promises to a benchmark module: its workers   *)
(* go through rounds in lock-step.  benchmark_pre of a round is over for   *)
(* everybody before benchmark starts for anybody, benchmark is over for    *)
(* everybody before benchmark_post starts for anybody, and the workers     *)
(* agree on the round that is the last one.  Module Harness implements it. *)
(***************************************************************************)
CONSTANT Worker

VARIABLES
  stage,   \* where each worker is in the round
  go       \* the run goes on after this round

vars == <<stage, go>>

\* between: benchmark_initworker, benchmark_post, benchmark_pre;
\* ready: benchmark_pre is over; timed: may run benchmark;
\* measured: benchmark is over; stopped: left the loop.
Stage == {"between", "ready", "timed", "measured", "stopped"}

TypeOK == stage \in [Worker -> Stage] /\ go \in BOOLEAN

Init == stage = [w \in Worker |-> "between"] /\ go = TRUE

OthersAre(w, s) == \A v \in Worker \ {w} : stage[v] = s

FinishPre(w) ==
  /\ stage[w] = "between" /\ go
  /\ stage' = IF OthersAre(w, "ready") THEN [v \in Worker |-> "timed"]
                                       ELSE [stage EXCEPT ![w] = "ready"]
  /\ UNCHANGED go

FinishBenchmark(w) ==
  /\ stage[w] = "timed"
  /\ stage' = IF OthersAre(w, "measured") THEN [v \in Worker |-> "between"]
                                          ELSE [stage EXCEPT ![w] = "measured"]
  /\ UNCHANGED go

\* Only a worker that is in the timed part of a round ends the run.
Halt(w) ==
  /\ stage[w] = "timed"
  /\ go' = FALSE
  /\ UNCHANGED stage

Stop(w) ==
  /\ stage[w] = "between" /\ ~go
  /\ stage' = [stage EXCEPT ![w] = "stopped"]
  /\ UNCHANGED go

Next == \E w \in Worker :
          FinishPre(w) \/ FinishBenchmark(w) \/ Halt(w) \/ Stop(w)

Spec == Init /\ [][Next]_vars

------------------------------------------------------------------------------
\* The workers are all outside the timed part of a round or all in it.
Untimed == \A w \in Worker : stage[w] \in {"between", "ready", "stopped"}
Timed   == \A w \in Worker : stage[w] \in {"timed", "measured"}

\* A worker that is ready goes on with the permission of all, one that has
\* stopped knows that it is denied.
Agreed == \A w \in Worker :
            (stage[w] = "ready" => go) /\ (stage[w] = "stopped" => ~go)

\* The invariant of the rounds: none is in the timed part while another is
\* outside it, and none leaves the loop while another goes for a further round.
LockstepInv == TypeOK /\ (Untimed \/ Timed) /\ Agreed
=============================================================================
