-------------------------------- MODULE Echo --------------------------------
(***************************************************************************)
(* What the pipe benchmark measures: in every round a worker makes three   *)
(* round trips, one in each callback.  A round trip asks, is served by the *)
(* other side and is answered, in this order, and a round is over when all *)
(* three are answered.  Module Pipe implements it.                         *)
(***************************************************************************)
EXTENDS Integers

CONSTANT Worker

VARIABLES asked, served, answered

vars == <<asked, served, answered>>

Trips == 3

Zero == [w \in Worker |-> 0]

Init == asked = Zero /\ served = Zero /\ answered = Zero

\* Without another side the request is there as soon as it is made.
Ask(w) ==
  /\ asked[w] = answered[w] /\ asked[w] < Trips
  /\ asked' = [asked EXCEPT ![w] = @ + 1]
  /\ served' \in {served, [served EXCEPT ![w] = @ + 1]}
  /\ UNCHANGED answered

Serve(w) ==
  /\ served[w] < asked[w]
  /\ served' = [served EXCEPT ![w] = @ + 1]
  /\ UNCHANGED <<asked, answered>>

Answer(w) ==
  /\ answered[w] < served[w]
  /\ answered' = [answered EXCEPT ![w] = @ + 1]
  /\ UNCHANGED <<asked, served>>

Renew(w) ==
  /\ answered[w] = Trips
  /\ asked' = [asked EXCEPT ![w] = 0]
  /\ served' = [served EXCEPT ![w] = 0]
  /\ answered' = [answered EXCEPT ![w] = 0]

Next == \E w \in Worker : Ask(w) \/ Serve(w) \/ Answer(w) \/ Renew(w)

Spec == Init /\ [][Next]_vars
=============================================================================
