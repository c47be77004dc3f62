------------------------------- MODULE Stats --------------------------------
(***************************************************************************)
(* What the harness computes from the samples of a run (compute_stats,     *)
(* crunch_stats, print_stats, print_histo and print_bar of                 *)
(* src/libmicro.c).  A sample is an integer number of 1/Unit microseconds, *)
(* possibly negative because the cost of reading the clock is subtracted;  *)
(* on such samples the arithmetic is exact: the constant 0.000001 of the   *)
(* code is less than one of them, 0.9999999999 rounds up, and the rounding *)
(* of doubles is left out.                                                 *)
(***************************************************************************)
EXTENDS Integers, Sequences, FiniteSets, FiniteSetsExt, Functions

CONSTANTS
  Unit,        \* samples per microsecond
  Inputs       \* the sample arrays b->ba_data, in the order of recording

ASSUME StatsAssumption ==
  /\ Unit \in Nat \ {0} /\ Unit < 1000000
  /\ Inputs \subseteq Seq(Int)

HistoSize == 32

VARIABLES
  data,     \* b->ba_data
  stats,    \* b->ba_raw
  histo,    \* the histogram: where it starts, its scale, and its counts
  pc        \* "collected", "crunched", then "printed" or "crashed"

statsVars == <<data, stats, histo, pc>>

n == Len(data)

\* C division truncates towards zero.
TruncDiv(a, b) == IF a >= 0 THEN a \div b ELSE -((-a) \div b)

\* Seeded fault: the samples are not sorted.
Unsorted(s) == s

\* qsort with doublecmp: the sample of each rank (equal ones in any order).
Rank(s) ==
  [i \in DOMAIN s |->
    Cardinality({j \in DOMAIN s : s[j] < s[i] \/ (s[j] = s[i] /\ j <= i)})]
Sorted(s) ==
  LET rank == Rank(s)
  IN [k \in DOMAIN s |-> s[CHOOSE i \in DOMAIN s : rank[i] = k]]

\* C indexes from 0.
At(s, i) == s[i + 1]

\* Seeded fault: the percentile is one sample too low.
PercentileLow(sorted, q) == At(sorted, Max({0, (Len(sorted) * q) \div 100 - 1}))
Percentile(sorted, q) == At(sorted, (Len(sorted) * q) \div 100)

NoStats == [min |-> 0, max |-> 0, median |-> 0, p95 |-> 0, p99 |-> 0]
NoHisto == [min |-> 0, scale |-> 0, count |-> [j \in 0..(HistoSize - 1) |-> 0],
            panics |-> {}, strays |-> {}, beyond |-> 0]

\* The running maximum starts from -1 microsecond, the running minimum from a
\* value above every sample.
Crunch(s) ==
  LET sorted == Sorted(s)
      values == Range(s)
  IN [min    |-> Min(values),
      max    |-> Max({-1 * Unit} \cup values),
      median |-> At(sorted, Len(s) \div 2),
      p95    |-> Percentile(sorted, 95),
      p99    |-> Percentile(sorted, 99)]

CeilDiv(a, b) == (a + b - 1) \div b

\* Seeded fault: the width is rounded down.
BucketWidthDown(r) ==
  LET width[c \in Nat \ {0}] ==
        IF r < 10 * c THEN Max({1, r \div c}) ELSE 10 * width[10 * c]
  IN width[Unit * (HistoSize - 1)]

\* The width of a bucket: r95 spread over the buckets, rounded up to a single
\* digit followed by zeros.  r / c is divided by ten until it is below 10, and
\* rounded up; the digit is then multiplied as often.
BucketWidth(r) ==
  LET width[c \in Nat \ {0}] ==
        IF r < 10 * c THEN CeilDiv(r, c) ELSE 10 * width[10 * c]
  IN width[Unit * (HistoSize - 1)]

\* b->ba_data[0] + 0.000001, assigned to a long long.  What is added is less
\* than a unit, so that it moves only a whole negative number: -1.0 becomes 0.
LeastWhole(d) == TruncDiv(IF d < 0 THEN d + 1 ELSE d, Unit)

I95(s) == (Len(s) * 95) \div 100

Width(sorted) ==
  BucketWidth(At(sorted, I95(sorted)) - LeastWhole(At(sorted, 0)) * Unit + Unit)

Histogram(sorted) ==
  LET y      == Width(sorted)
      start  == TruncDiv(LeastWhole(At(sorted, 0)), y) * y
      scale  == Max({y * (HistoSize - 1), HistoSize - 1})
      below  == 0..(I95(sorted) - 1)
      bucket(i) == TruncDiv((HistoSize - 1) * (At(sorted, i) - start * Unit),
                            scale * Unit)
  IN [min    |-> start,
      scale  |-> scale,
      \* what lies beyond the last bucket is put into it, with a "panic!"
      count  |-> [j \in 0..(HistoSize - 1) |->
                   Cardinality({i \in below : j = Min({bucket(i), HistoSize - 1})})],
      panics |-> {i \in below : bucket(i) >= HistoSize},
      strays |-> {i \in below : bucket(i) < 0},
      beyond |-> Len(sorted) - I95(sorted)]

Largest(h) == Max({h.count[j] : j \in DOMAIN h.count})

\* Seeded fault: the first star is not part of the bar.
BarPlusOne(count, total) == 1 + (HistoSize * count) \div total

\* The stars of a bar; the division by total traps when total is 0.
Bar(count, total) ==
  Max({IF count = 0 THEN 0 ELSE 1, (HistoSize * count) \div total})

------------------------------------------------------------------------------
StatsInit ==
  /\ data \in Inputs
  /\ stats = NoStats
  /\ histo = NoHisto
  /\ pc = "collected"

\* compute_stats: nothing is computed without samples
ComputeStats ==
  /\ pc = "collected"
  /\ stats' = IF n > 0 THEN Crunch(data) ELSE stats
  /\ pc' = "crunched"
  /\ UNCHANGED <<data, histo>>

\* print_stats: "zero samples" and an early return, or the histogram
PrintNothing ==
  /\ pc = "crunched" /\ n = 0
  /\ pc' = "printed"
  /\ UNCHANGED <<data, stats, histo>>

\* How print_histo ends.  print_bar divides by the count of the fullest bucket;
\* a sample that is counted in front of the first bucket is written outside of
\* the array, which a program may or may not survive.
Outcomes(h) ==
  IF Largest(h) = 0 THEN {"crashed"}
  ELSE {"printed"} \cup {o \in {"crashed"} : h.strays # {}}

\* print_histo sorts the samples where they are; min /= y traps if y is 0
PrintHisto ==
  /\ pc = "crunched" /\ n > 0
  /\ data' = Sorted(data)
  /\ \/ Width(data') = 0 /\ pc' = "crashed" /\ UNCHANGED histo
     \/ /\ Width(data') # 0
        /\ histo' = Histogram(data')
        /\ pc' \in Outcomes(histo')
  /\ UNCHANGED stats

Reported == pc \in {"printed", "crashed"} /\ UNCHANGED statsVars

StatsNext == ComputeStats \/ PrintNothing \/ PrintHisto \/ Reported

StatsSpec == StatsInit /\ [][StatsNext]_statsVars

------------------------------------------------------------------------------
Crunched == pc # "collected" /\ n > 0
Printed  == pc = "printed" /\ n > 0

\* The assertions of crunch_stats, and the median between them.
StatsOrdered ==
  Crunched => /\ stats.min <= stats.median /\ stats.median <= stats.p95
              /\ stats.p95 <= stats.p99 /\ stats.p99 <= stats.max

\* The percentiles are what their names say, at least that share of the
\* samples lies at or below them and less than that share strictly below; the
\* extremes are samples, but the maximum is none if every sample is below -1
\* microsecond.
AtMost(v)  == Cardinality({i \in 1..n : data[i] <= v})
LessThan(v) == Cardinality({i \in 1..n : data[i] < v})
StatsAreSamples ==
  Crunched =>
    /\ AtMost(stats.p95) * 100 > 95 * n /\ LessThan(stats.p95) * 100 <= 95 * n
    /\ AtMost(stats.p99) * 100 > 99 * n /\ LessThan(stats.p99) * 100 <= 99 * n
    /\ AtMost(stats.median) * 2 > n /\ LessThan(stats.median) * 2 <= n
    /\ stats.max \in Range(data) <=> \E i \in 1..n : data[i] >= -1 * Unit
    /\ AtMost(stats.max) = n /\ stats.min \in Range(data) /\ LessThan(stats.min) = 0

\* The smallest sample is a negative multiple of the width of a bucket.
Sunk == stats.min < 0 /\ stats.min % (Unit * (histo.scale \div (HistoSize - 1))) = 0

\* The scale always reaches the 95th percentile ("panic!" is never printed), no
\* sample falls in front of the first bucket but the smallest ones where they
\* are a negative multiple of its width, and there they always do; and every
\* sample is counted once.
BucketsHold ==
  Printed =>
    /\ histo.panics = {}
    /\ histo.strays = {i \in 0..(I95(data) - 1) : Sunk /\ At(data, i) = stats.min}
    /\ MapThenSumSet(LAMBDA j : histo.count[j], DOMAIN histo.count)
         + Cardinality(histo.strays) + histo.beyond = n

\* A single sample is never reported: the division by the fullest bucket traps.
\* With more the bars can be drawn, unless the smallest sample is a whole
\* negative number of microseconds.  Those of the buckets fit their column, and
\* the fullest bucket fills it.
BarsFit ==
  /\ pc = "printed" => n # 1
  /\ pc = "crashed" => n = 1 \/ (stats.min < 0 /\ stats.min % Unit = 0)
  /\ Printed =>
       /\ \A j \in DOMAIN histo.count :
            Bar(histo.count[j], Largest(histo)) <= HistoSize
       /\ \E j \in DOMAIN histo.count :
            Bar(histo.count[j], Largest(histo)) = HistoSize
=============================================================================
