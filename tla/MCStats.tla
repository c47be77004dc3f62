------------------------------ MODULE MCStats -------------------------------
(***************************************************************************)
(* Sample arrays made of three plateaus: three values, each repeated so    *)
(* often that the percentiles fall into, between and at the edges of the   *)
(* plateaus.                                                               *)
(***************************************************************************)
EXTENDS Stats

CONSTANTS Values, Counts

Plateaus ==
  {[value |-> v, count |-> c] : v \in [1..3 -> Values], c \in [1..3 -> Counts]}

Repeat(v, c) == [i \in 1..c |-> v]
Array(p) == Repeat(p.value[1], p.count[1]) \o Repeat(p.value[2], p.count[2])
              \o Repeat(p.value[3], p.count[3])

\* a quarter of a microsecond is the unit: -10, -2.5, -2, -0.75, 0.25, 7.75,
\* 77.5, 12345
MCValues == {-40, -10, -8, -3, 1, 31, 310, 49380}
MCCounts == {0, 1, 2, 19}
\* Arrays that are longer are left out.
MCMaxSamples == 40

MCInputs == {s \in {Array(p) : p \in Plateaus} : Len(s) <= MCMaxSamples}
=============================================================================
