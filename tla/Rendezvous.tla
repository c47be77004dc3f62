----------------------------- MODULE Rendezvous -----------------------------
(***************************************************************************)
(* What the harness barrier of libMicro (barrier_queue in src/libmicro.c)  *)
(* promises: a cyclic rendezvous of a fixed set of threads.  Nobody is let *)
(* go before everybody has arrived, the arrival of the last thread lets    *)
(* everybody go at once, and nobody is counted twice in one generation.    *)
(* Module Barrier is shown to implement this specification.                *)
(***************************************************************************)
EXTENDS Naturals

CONSTANT Threads

VARIABLES
  arrived,   \* threads counted in the current generation
  released   \* threads let go that have not left the barrier yet

vars == <<arrived, released>>

TypeOK == arrived \subseteq Threads /\ released \subseteq Threads

Init == arrived = {} /\ released = {}

\* A thread that is not the last one of its generation arrives.
ArriveEarly(t) ==
  /\ t \notin arrived \cup released
  /\ arrived' = arrived \cup {t}
  /\ arrived' # Threads
  /\ UNCHANGED released

\* The last thread arrives: the whole generation is let go.
ArriveLast(t) ==
  /\ t \notin arrived \cup released
  /\ arrived \cup {t} = Threads
  /\ arrived' = {}
  /\ released' = Threads

Leave(t) ==
  /\ t \in released
  /\ released' = released \ {t}
  /\ UNCHANGED arrived

Next == \E t \in Threads : ArriveEarly(t) \/ ArriveLast(t) \/ Leave(t)

Spec == Init /\ [][Next]_vars
=============================================================================
