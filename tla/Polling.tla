------------------------------- MODULE Polling ------------------------------
(***************************************************************************)
(* The poll and select benchmarks.  benchmark_initrun makes n descriptors  *)
(* in n/2 socketpairs and writes a byte into the partners of r of them,    *)
(* the first ones or, with -x, the last ones; w of them, the first ones,   *)
(* are polled for output too.  The workers share the descriptors and do    *)
(* not read them: each call has to find the number of ready descriptors    *)
(* (poll) or of ready conditions (select) computed in advance.             *)
(***************************************************************************)
EXTENDS Callbacks, FiniteSets, FiniteSetsExt

CONSTANT FdSetSize   \* FD_SETSIZE

\* A benchmark is a choice of -n, -r, -w and -x.
PollNames == {"poll", "select"}
PollScript == [Idler EXCEPT !.bench = <<[op |-> "poll"]>>]

\* The checks of benchmark_initrun; select has a bit for each descriptor that
\* the process may hold, the standard ones included.
PollAccepted ==
  /\ bench.n % 2 = 0 /\ bench.n >= 0 /\ bench.r >= 0 /\ bench.w >= 0
  /\ bench.r <= bench.n /\ bench.w <= bench.n
  /\ bench.name = "select" => 3 + bench.n <= FdSetSize

------------------------------------------------------------------------------
\* The index of the other end of a socketpair.
Partner(i) == i + 1 - 2 * (i % 2)

\* The i-th descriptor that is to be readable.
Chosen(i) == IF bench.x THEN bench.n - 1 - i ELSE i

\* Bytes are written to these, so that the others of their pairs are readable.
Written == {Partner(Chosen(i)) : i \in 0..(bench.r - 1)}
Readable == {i \in 0..(bench.n - 1) : \E j \in Written :
               j # i /\ j \div 2 = i \div 2}
Writable == 0..(bench.w - 1)

target ==
  CASE bench.name = "select" -> bench.r + bench.w
    [] bench.name = "poll" /\ bench.x -> Min({bench.r + bench.w, bench.n})
    [] OTHER -> Max({bench.r, bench.w})

\* What the call returns.
Ready ==
  IF bench.name = "select" THEN Cardinality(Readable) + Cardinality(Writable)
                           ELSE Cardinality(Readable \cup Writable)

PollCall(w) == Next1(w, {"poll"}) /\ Unless(Ready # target, "target", w)
=============================================================================
