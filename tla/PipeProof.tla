----------------------------- MODULE PipeProof ------------------------------
(***************************************************************************)
(* Proofs about Pipe for every number of workers, transport, mode, size    *)
(* and capacity: a round closes what it made, every round trip is asked,   *)
(* served and answered in this order, and a run is cut short only for the  *)
(* known reasons.                                                          *)
(***************************************************************************)
EXTENDS Pipe, CallbacksProof, FiniteSetTheorems, WellFoundedInduction,
        NaturalsInduction

(***************************************************************************)
(* Scripts as the set of their calls and the order between them.           *)
(***************************************************************************)
Making == {"make", "bind", "listen", "connect"}
Calls == [op : Making \cup {"spawn", "write", "read", "join", "close", "unlink"},
          what : SUBSET (Desc \cup {"a", "b"})]

\* What may come after a call.
Before(a, b) ==
  /\ a.op \in Making => (b.op \in Making => a.what \cap b.what = {})
  /\ a.op = "spawn"  => b.op \in {"write", "read"}
  /\ a.op = "write"  => b.op \in {"read", "join", "close", "unlink"}
  /\ a.op = "read"   => b.op \in {"join", "close", "unlink"}
  /\ a.op = "join"   => b.op \in {"close", "unlink"}
  /\ a.op = "close"  => \/ b.op = "unlink"
                        \/ b.op = "close" /\ a.what \cap b.what = {}
  /\ a.op = "unlink" => b.op = "unlink"

Sorted(t) == \A i, j \in 1..Len(t) : i < j => Before(t[i], t[j])

\* t consists of the calls in E, in an order that is allowed.
Lists(t, E) == t \in Seq(Calls) /\ Range(t) = E /\ Sorted(t)

LEMMA ListsConcat ==
  ASSUME NEW s, NEW t, NEW E, NEW F, Lists(s, E), Lists(t, F),
         \A a \in E, b \in F : Before(a, b)
  PROVE  Lists(s \o t, E \cup F)
<1>1. s \in Seq(Calls) /\ t \in Seq(Calls)
  BY DEF Lists
<1>2. s \o t \in Seq(Calls) /\ Range(s \o t) = E \cup F
  BY <1>1, ConcatProperties, RangeConcatenation DEF Lists
<1>3. Len(s) \in Nat /\ Len(t) \in Nat
  BY <1>1, LenProperties
<1>4. ASSUME NEW i \in 1..Len(s \o t), NEW j \in 1..Len(s \o t), i < j
      PROVE  Before((s \o t)[i], (s \o t)[j])
  <2>1. /\ i \in 1..(Len(s) + Len(t)) /\ j \in 1..(Len(s) + Len(t))
        /\ \A k \in 1..(Len(s) + Len(t)) :
             (s \o t)[k] = IF k <= Len(s) THEN s[k] ELSE t[k - Len(s)]
    BY <1>1, <1>4, ConcatProperties
  <2>2. CASE j <= Len(s)
    BY <1>3, <1>4, <2>1, <2>2 DEF Lists, Sorted
  <2>3. CASE i <= Len(s) /\ ~(j <= Len(s))
    <3>1. i \in 1..Len(s) /\ j - Len(s) \in 1..Len(t)
      BY <1>3, <2>1, <2>3
    <3>2. s[i] \in E /\ t[j - Len(s)] \in F
      BY <1>1, <3>1, RangeEquality DEF Lists
    <3> QED
      BY <2>1, <2>3, <3>2
  <2>4. CASE ~(i <= Len(s))
    <3>1. /\ i - Len(s) \in 1..Len(t) /\ j - Len(s) \in 1..Len(t)
          /\ i - Len(s) < j - Len(s) /\ ~(j <= Len(s))
      BY <1>3, <1>4, <2>1, <2>4
    <3> QED
      BY <2>1, <2>4, <3>1 DEF Lists, Sorted
  <2> QED
    BY <2>2, <2>3, <2>4
<1> QED
  BY <1>2, <1>4 DEF Lists, Sorted

LEMMA ListsTail ==
  ASSUME NEW t \in Seq(Calls), Sorted(t), t # <<>>
  PROVE  /\ Head(t) \in Calls /\ Tail(t) \in Seq(Calls) /\ Sorted(Tail(t))
         /\ Range(t) = {Head(t)} \cup Range(Tail(t))
         /\ \A b \in Range(Tail(t)) : Before(Head(t), b)
<1>1. /\ Head(t) \in Calls /\ Tail(t) \in Seq(Calls)
      /\ Len(t) \in Nat /\ Len(t) >= 1 /\ Len(Tail(t)) = Len(t) - 1
      /\ Head(t) = t[1] /\ \A i \in 1..(Len(t) - 1) : Tail(t)[i] = t[i + 1]
  BY HeadTailProperties, EmptySeq, LenProperties
<1>2. Sorted(Tail(t))
  <2>1. ASSUME NEW i \in 1..Len(Tail(t)), NEW j \in 1..Len(Tail(t)), i < j
        PROVE  Before(Tail(t)[i], Tail(t)[j])
    <3>1. /\ i \in 1..(Len(t) - 1) /\ j \in 1..(Len(t) - 1)
          /\ i + 1 \in 1..Len(t) /\ j + 1 \in 1..Len(t) /\ i + 1 < j + 1
      BY <1>1, <2>1
    <3> QED
      BY <1>1, <3>1 DEF Sorted
  <2> QED
    BY <2>1 DEF Sorted
<1>3. /\ Range(t) = {t[i] : i \in 1..Len(t)}
      /\ Range(Tail(t)) = {Tail(t)[i] : i \in 1..(Len(t) - 1)}
  BY <1>1, RangeEquality
<1>4. ASSUME NEW b \in Range(Tail(t)) PROVE b \in Range(t) /\ Before(Head(t), b)
  <2>1. PICK i \in 1..(Len(t) - 1) : b = t[i + 1]
    BY <1>1, <1>3
  <2>2. 1 \in 1..Len(t) /\ i + 1 \in 1..Len(t) /\ 1 < i + 1
    BY <1>1
  <2> QED
    BY <1>1, <1>3, <2>1, <2>2 DEF Sorted
<1>5. ASSUME NEW b \in Range(t) PROVE b = Head(t) \/ b \in Range(Tail(t))
  <2>1. PICK i \in 1..Len(t) : b = t[i]
    BY <1>3
  <2>2. i = 1 \/ (i - 1 \in 1..(Len(t) - 1) /\ (i - 1) + 1 = i)
    BY <1>1
  <2> QED
    BY <1>1, <1>3, <2>1, <2>2
<1>6. Head(t) \in Range(t)
  <2>1. 1 \in 1..Len(t)
    BY <1>1
  <2> QED
    BY <1>1, <1>3, <2>1
<1> QED
  BY <1>1, <1>2, <1>4, <1>5, <1>6

LEMMA RangeShort ==
  ASSUME NEW t \in Seq(Calls)
  PROVE  /\ 1..Len(t) = {1} => Range(t) = {t[1]}
         /\ 1..Len(t) = {1, 2} => Range(t) = {t[1], t[2]}
         /\ 1..Len(t) = {1, 2, 3} => Range(t) = {t[1], t[2], t[3]}
<1>1. Range(t) = {t[i] : i \in 1..Len(t)}
  BY RangeEquality
<1> QED
  BY <1>1

LEMMA ListsShort ==
  /\ Lists(<<>>, {})
  /\ \A a \in Calls : Lists(<<a>>, {a})
  /\ \A a, b \in Calls : Before(a, b) => Lists(<<a, b>>, {a, b})
  /\ \A a, b, c \in Calls :
       Before(a, b) /\ Before(a, c) /\ Before(b, c) => Lists(<<a, b, c>>, {a, b, c})
<1>1. Lists(<<>>, {})
  <2>1. <<>> \in Seq(Calls) /\ Len(<<>>) = 0
    BY EmptySeq
  <2>2. Range(<<>>) = {<<>>[i] : i \in 1..Len(<<>>)}
    BY <2>1, RangeEquality
  <2>3. 1..Len(<<>>) = {}
    BY <2>1
  <2>4. Range(<<>>) = {}
    BY <2>2, <2>3
  <2> QED
    BY <2>1, <2>3, <2>4 DEF Lists, Sorted
<1>2. ASSUME NEW a \in Calls PROVE Lists(<<a>>, {a})
  <2>1. <<a>> \in Seq(Calls) /\ Len(<<a>>) = 1 /\ <<a>>[1] = a
    OBVIOUS
  <2>2. 1..Len(<<a>>) = {1}
    BY <2>1
  <2>3. Range(<<a>>) = {a}
    BY <2>1, <2>2, RangeShort, Zenon
  <2>4. Sorted(<<a>>)
    BY <2>2 DEF Sorted
  <2> QED
    BY <2>1, <2>3, <2>4 DEF Lists
<1>3. ASSUME NEW a \in Calls, NEW b \in Calls, Before(a, b)
      PROVE  Lists(<<a, b>>, {a, b})
  <2>1. /\ <<a, b>> \in Seq(Calls) /\ Len(<<a, b>>) = 2
        /\ <<a, b>>[1] = a /\ <<a, b>>[2] = b
    OBVIOUS
  <2>2. 1..Len(<<a, b>>) = {1, 2}
    BY <2>1
  <2>3. Range(<<a, b>>) = {a, b}
    BY <2>1, <2>2, RangeShort, Zenon
  <2>4. Sorted(<<a, b>>)
    BY <1>3, <2>1, <2>2 DEF Sorted
  <2> QED
    BY <2>1, <2>3, <2>4 DEF Lists
<1>4. ASSUME NEW a \in Calls, NEW b \in Calls, NEW c \in Calls,
             Before(a, b), Before(a, c), Before(b, c)
      PROVE  Lists(<<a, b, c>>, {a, b, c})
  <2>1. /\ <<a, b, c>> \in Seq(Calls) /\ Len(<<a, b, c>>) = 3
        /\ <<a, b, c>>[1] = a /\ <<a, b, c>>[2] = b /\ <<a, b, c>>[3] = c
    OBVIOUS
  <2>2. 1..Len(<<a, b, c>>) = {1, 2, 3}
    BY <2>1
  <2>3. Range(<<a, b, c>>) = {a, b, c}
    BY <2>1, <2>2, RangeShort, Zenon
  <2>4. Sorted(<<a, b, c>>)
    BY <1>4, <2>1, <2>2 DEF Sorted
  <2> QED
    BY <2>1, <2>3, <2>4 DEF Lists
<1> QED
  BY <1>1, <1>2, <1>3, <1>4

(***************************************************************************)
(* What the callbacks of the benchmark call.                               *)
(***************************************************************************)
FirstCalls ==
  IF Xport = "tcp" THEN {Make({"lsn"}), Op("bind"), Op("listen")} ELSE {}

PrepareCalls ==
  CASE Xport = "pipe" -> {Make({"p0", "p1"})}
         \cup (IF Alone THEN {} ELSE {Make({"q0", "q1"})})
    [] Xport = "fifo" -> {Make({"a0"}), Make({"a1"})}
         \cup (IF Alone THEN {} ELSE {Make({"b0"}), Make({"b1"})})
    [] Xport = "sock" -> {Make({"s0", "s1"})}
    [] Xport = "tcp"  -> {Make({"cli"}), Op("connect"), Make({"acc"})}

TripCalls == {Op("write"), Op("read")}
PreCalls  == (PrepareCalls \cup (IF Alone THEN {} ELSE {Op("spawn")})) \cup TripCalls

TwoEnds == Xport \in {"pipe", "fifo"}
CloseCalls ==
  (({Close("in")} \cup (IF TwoEnds THEN {Close("out")} ELSE {}))
   \cup (IF Alone THEN {} ELSE {Close("in2")}))
  \cup (IF ~Alone /\ TwoEnds THEN {Close("out2")} ELSE {})
UnlinkCalls == IF Xport = "fifo" THEN {Unlink("a"), Unlink("b")} ELSE {}
PostCalls ==
  ((TripCalls \cup (IF Alone THEN {} ELSE {Op("join")})) \cup CloseCalls)
  \cup UnlinkCalls

\* What benchmark_pre makes, and what of it benchmark_post does not close.
MadeAll ==
  CASE Xport = "pipe" -> IF Alone THEN {"p0", "p1"} ELSE {"p0", "p1", "q0", "q1"}
    [] Xport = "fifo" -> IF Alone THEN {"a0", "a1"} ELSE {"a0", "a1", "b0", "b1"}
    [] Xport = "sock" -> {"s0", "s1"}
    [] Xport = "tcp"  -> {"cli", "acc"}
Leaky == Alone /\ Xport \in {"sock", "tcp"}
Lost  == IF ~Leaky THEN {} ELSE IF Xport = "sock" THEN {"s1"} ELSE {"cli"}

LEMMA BenchType ==
  ASSUME bench \in Options
  PROVE  /\ Mode \in {"st", "mt", "mp"} /\ Xport \in {"pipe", "fifo", "sock", "tcp"}
         /\ Size \in Nat /\ Alone \in BOOLEAN
  BY DEF Options, Mode, Xport, Size, Alone

LEMMA CallType ==
  /\ \A ds \in SUBSET Desc : Make(ds) \in Calls
  /\ \A o \in {"bind", "listen", "connect", "spawn", "write", "read", "join"} :
       Op(o) \in Calls
  /\ \A f \in {"a", "b"} : Unlink(f) \in Calls
  BY DEF Make, Op, Unlink, Calls, Making

\* Which descriptors ts_in, ts_out, ts_in2 and ts_out2 are.
LEMMA EndsType ==
  ASSUME bench \in Options
  PROVE  /\ Ends.in \in Desc /\ Ends.out \in Desc
         /\ ~Alone => Ends.in2 \in Desc /\ Ends.out2 \in Desc
<1>1. CASE Alone
  BY <1>1, BenchType DEF Ends, Desc
<1>2. CASE ~Alone
  BY <1>2, BenchType DEF Ends, PipeEnds, Desc
<1> QED
  BY <1>1, <1>2

LEMMA FirstLists ==
  /\ Lists(Script.first, FirstCalls)
<1>1. Make({"lsn"}) \in Calls /\ Op("bind") \in Calls /\ Op("listen") \in Calls
  BY CallType DEF Desc
<1>2. /\ Before(Make({"lsn"}), Op("bind")) /\ Before(Make({"lsn"}), Op("listen"))
      /\ Before(Op("bind"), Op("listen"))
  BY DEF Before, Make, Op, Making
<1>3. Script.first = IF Xport = "tcp" THEN <<Make({"lsn"}), Op("bind"), Op("listen")>>
                                      ELSE <<>>
  BY DEF Script, Idler
<1>4. Lists(<<Make({"lsn"}), Op("bind"), Op("listen")>>,
            {Make({"lsn"}), Op("bind"), Op("listen")})
  BY <1>1, <1>2, ListsShort, Zenon
<1>5. Lists(<<>>, {})
  BY ListsShort, Zenon
<1> QED
  BY <1>3, <1>4, <1>5, Zenon DEF FirstCalls

LEMMA TripLists == Lists(RoundTrip, TripCalls)
<1>1. Op("write") \in Calls /\ Op("read") \in Calls
  BY CallType
<1>2. Before(Op("write"), Op("read"))
  BY DEF Before, Op, Making
<1> QED
  BY <1>1, <1>2, ListsShort, Zenon DEF RoundTrip, TripCalls

LEMMA PrepareLists ==
  ASSUME bench \in Options
  PROVE  Lists(Prepare, PrepareCalls)
<1> USE DEF Alone
<1>0. Lists(<<>>, {})
  BY ListsShort, Zenon
<1>1. CASE Xport = "pipe"
  <2>1. Make({"p0", "p1"}) \in Calls /\ Make({"q0", "q1"}) \in Calls
    BY CallType DEF Desc
  <2>2. Before(Make({"p0", "p1"}), Make({"q0", "q1"}))
    BY DEF Before, Make, Making
  <2>3. Lists(<<Make({"p0", "p1"})>>, {Make({"p0", "p1"})})
    BY <2>1, ListsShort, Zenon
  <2>4. Lists(<<Make({"q0", "q1"})>>, {Make({"q0", "q1"})})
    BY <2>1, ListsShort, Zenon
  <2>5. Lists(<<Make({"p0", "p1"})>> \o (IF Alone THEN <<>> ELSE <<Make({"q0", "q1"})>>),
              {Make({"p0", "p1"})} \cup (IF Alone THEN {} ELSE {Make({"q0", "q1"})}))
    <3>1. Lists(IF Alone THEN <<>> ELSE <<Make({"q0", "q1"})>>,
                IF Alone THEN {} ELSE {Make({"q0", "q1"})})
      BY <1>0, <2>4, Zenon
    <3>2. \A a \in {Make({"p0", "p1"})}, b \in IF Alone THEN {} ELSE {Make({"q0", "q1"})} :
            Before(a, b)
      BY <2>2, Zenon
    <3> QED
      BY <2>3, <3>1, <3>2, ListsConcat
  <2> QED
    BY <1>1, <2>5 DEF Prepare, PrepareCalls
<1>2. CASE Xport = "fifo"
  <2>1. /\ Make({"a0"}) \in Calls /\ Make({"a1"}) \in Calls
        /\ Make({"b0"}) \in Calls /\ Make({"b1"}) \in Calls
    BY CallType DEF Desc
  <2>2. /\ Before(Make({"a0"}), Make({"a1"})) /\ Before(Make({"b0"}), Make({"b1"}))
        /\ Before(Make({"a0"}), Make({"b0"})) /\ Before(Make({"a0"}), Make({"b1"}))
        /\ Before(Make({"a1"}), Make({"b0"})) /\ Before(Make({"a1"}), Make({"b1"}))
    BY DEF Before, Make, Making
  <2>3. Lists(<<Make({"a0"}), Make({"a1"})>>, {Make({"a0"}), Make({"a1"})})
    BY <2>1, <2>2, ListsShort, Zenon
  <2>4. Lists(<<Make({"b0"}), Make({"b1"})>>, {Make({"b0"}), Make({"b1"})})
    BY <2>1, <2>2, ListsShort, Zenon
  <2>5. Lists(<<Make({"a0"}), Make({"a1"})>>
                \o (IF Alone THEN <<>> ELSE <<Make({"b0"}), Make({"b1"})>>),
              {Make({"a0"}), Make({"a1"})}
                \cup (IF Alone THEN {} ELSE {Make({"b0"}), Make({"b1"})}))
    <3>1. Lists(IF Alone THEN <<>> ELSE <<Make({"b0"}), Make({"b1"})>>,
                IF Alone THEN {} ELSE {Make({"b0"}), Make({"b1"})})
      BY <1>0, <2>4, Zenon
    <3>2. \A a \in {Make({"a0"}), Make({"a1"})},
             b \in IF Alone THEN {} ELSE {Make({"b0"}), Make({"b1"})} :
            Before(a, b)
      BY <2>2, Zenon
    <3> QED
      BY <2>3, <3>1, <3>2, ListsConcat
  <2> QED
    BY <1>2, <2>5 DEF Prepare, PrepareCalls
<1>3. CASE Xport = "sock"
  <2>1. Make({"s0", "s1"}) \in Calls
    BY CallType DEF Desc
  <2>2. Lists(<<Make({"s0", "s1"})>>, {Make({"s0", "s1"})})
    BY <2>1, ListsShort, Zenon
  <2> QED
    BY <1>3, <2>2 DEF Prepare, PrepareCalls
<1>4. CASE Xport = "tcp"
  <2>1. Make({"cli"}) \in Calls /\ Op("connect") \in Calls /\ Make({"acc"}) \in Calls
    BY CallType DEF Desc
  <2>2. /\ Before(Make({"cli"}), Op("connect")) /\ Before(Make({"cli"}), Make({"acc"}))
        /\ Before(Op("connect"), Make({"acc"}))
    BY DEF Before, Make, Op, Making
  <2>3. Lists(<<Make({"cli"}), Op("connect"), Make({"acc"})>>,
              {Make({"cli"}), Op("connect"), Make({"acc"})})
    BY <2>1, <2>2, ListsShort, Zenon
  <2> QED
    BY <1>4, <2>3 DEF Prepare, PrepareCalls
<1> QED
  BY <1>1, <1>2, <1>3, <1>4, BenchType

LEMMA MakingFirst ==
  ASSUME bench \in Options
  PROVE  /\ \A c \in FirstCalls \cup PrepareCalls : c.op \in Making
         /\ \A a \in FirstCalls, b \in PrepareCalls : a.what \cap b.what = {}
<1>1. \A c \in FirstCalls : c.op \in Making /\ c.what \subseteq {"lsn"}
  BY DEF FirstCalls, Make, Op, Making
<1>2. \A c \in PrepareCalls : c.op \in Making /\ "lsn" \notin c.what
  <2>1. CASE Alone
    BY <2>1, BenchType DEF PrepareCalls, Make, Op, Making
  <2>2. CASE ~Alone
    BY <2>2, BenchType DEF PrepareCalls, Make, Op, Making
  <2> QED
    BY <2>1, <2>2
<1> QED
  BY <1>1, <1>2

LEMMA PreLists ==
  ASSUME bench \in Options
  PROVE  /\ Lists(Script.pre, PreCalls)
         /\ Lists(Script.first \o Script.pre, FirstCalls \cup PreCalls)
<1>1. Lists(IF Alone THEN <<>> ELSE <<Op("spawn")>>, IF Alone THEN {} ELSE {Op("spawn")})
  <2>1. Op("spawn") \in Calls
    BY CallType
  <2>2. Lists(<<Op("spawn")>>, {Op("spawn")}) /\ Lists(<<>>, {})
    BY <2>1, ListsShort, Zenon
  <2> QED
    BY <2>2, Zenon
<1>2. \A a \in PrepareCalls, b \in IF Alone THEN {} ELSE {Op("spawn")} : Before(a, b)
  BY MakingFirst DEF Before, Op, Making
<1>3. Lists(Prepare \o (IF Alone THEN <<>> ELSE <<Op("spawn")>>),
            PrepareCalls \cup (IF Alone THEN {} ELSE {Op("spawn")}))
  BY <1>1, <1>2, PrepareLists, ListsConcat
<1>4. \A a \in PrepareCalls \cup (IF Alone THEN {} ELSE {Op("spawn")}), b \in TripCalls :
        Before(a, b)
  BY MakingFirst DEF Before, Op, Making, TripCalls
<1>5. Lists((Prepare \o (IF Alone THEN <<>> ELSE <<Op("spawn")>>)) \o RoundTrip, PreCalls)
  BY <1>3, <1>4, TripLists, ListsConcat DEF PreCalls
<1>6. Script.pre = Prepare \o (IF Alone THEN <<>> ELSE <<Op("spawn")>>) \o RoundTrip
  BY DEF Script, Idler
<1>7. Lists(Script.pre, PreCalls)
  BY <1>5, <1>6
<1>8. \A a \in FirstCalls, b \in PreCalls : Before(a, b)
  BY MakingFirst DEF PreCalls, TripCalls, Before, Op, Making
<1> QED
  BY <1>7, <1>8, FirstLists, ListsConcat

\* No descriptor is closed twice.
LEMMA ClosesApart ==
  ASSUME bench \in Options
  PROVE  /\ TwoEnds => Ends.in # Ends.out
         /\ ~Alone => Ends.in # Ends.in2
         /\ ~Alone /\ TwoEnds => /\ Ends.out2 \notin {Ends.in, Ends.out, Ends.in2}
                                 /\ Ends.out # Ends.in2
<1>1. CASE Alone
  BY <1>1, BenchType DEF Ends, TwoEnds
<1>2. CASE ~Alone
  BY <1>2, BenchType DEF Ends, PipeEnds, TwoEnds
<1> QED
  BY <1>1, <1>2

LEMMA CloseType ==
  ASSUME bench \in Options
  PROVE  /\ Close("in") \in Calls /\ Close("out") \in Calls
         /\ ~Alone => Close("in2") \in Calls /\ Close("out2") \in Calls
  BY EndsType DEF Close, Calls

LEMMA CloseBefore ==
  ASSUME bench \in Options
  PROVE  /\ TwoEnds => Before(Close("in"), Close("out"))
         /\ ~Alone => Before(Close("in"), Close("in2"))
         /\ ~Alone /\ TwoEnds => /\ Before(Close("in"), Close("out2"))
                                 /\ Before(Close("out"), Close("in2"))
                                 /\ Before(Close("out"), Close("out2"))
                                 /\ Before(Close("in2"), Close("out2"))
  BY ClosesApart DEF Before, Close, Making

LEMMA CloseLists ==
  ASSUME bench \in Options
  PROVE  Lists(CloseConns, CloseCalls)
<1>0. Lists(<<>>, {})
  BY ListsShort, Zenon
<1>1. Lists(<<Close("in")>>, {Close("in")})
  BY CloseType, ListsShort, Zenon
<1>2. Lists(IF TwoEnds THEN <<Close("out")>> ELSE <<>>,
            IF TwoEnds THEN {Close("out")} ELSE {})
  BY <1>0, CloseType, ListsShort, Zenon
<1>3. Lists(IF Alone THEN <<>> ELSE <<Close("in2")>>,
            IF Alone THEN {} ELSE {Close("in2")})
  BY <1>0, CloseType, ListsShort, Zenon
<1>4. Lists(IF ~Alone /\ TwoEnds THEN <<Close("out2")>> ELSE <<>>,
            IF ~Alone /\ TwoEnds THEN {Close("out2")} ELSE {})
  BY <1>0, CloseType, ListsShort, Zenon
<1>5. Lists(<<Close("in")>> \o (IF TwoEnds THEN <<Close("out")>> ELSE <<>>),
            {Close("in")} \cup (IF TwoEnds THEN {Close("out")} ELSE {}))
  BY <1>1, <1>2, CloseBefore, ListsConcat
<1>6. Lists((<<Close("in")>> \o (IF TwoEnds THEN <<Close("out")>> ELSE <<>>))
              \o (IF Alone THEN <<>> ELSE <<Close("in2")>>),
            ({Close("in")} \cup (IF TwoEnds THEN {Close("out")} ELSE {}))
              \cup (IF Alone THEN {} ELSE {Close("in2")}))
  <2>1. \A a \in {Close("in")} \cup (IF TwoEnds THEN {Close("out")} ELSE {}),
           b \in IF Alone THEN {} ELSE {Close("in2")} : Before(a, b)
    BY CloseBefore
  <2> QED
    BY <1>3, <1>5, <2>1, ListsConcat
<1>7. \A a \in ({Close("in")} \cup (IF TwoEnds THEN {Close("out")} ELSE {}))
                 \cup (IF Alone THEN {} ELSE {Close("in2")}),
         b \in IF ~Alone /\ TwoEnds THEN {Close("out2")} ELSE {} : Before(a, b)
  BY CloseBefore
<1>8. Lists(((<<Close("in")>> \o (IF TwoEnds THEN <<Close("out")>> ELSE <<>>))
               \o (IF Alone THEN <<>> ELSE <<Close("in2")>>))
              \o (IF ~Alone /\ TwoEnds THEN <<Close("out2")>> ELSE <<>>), CloseCalls)
  BY <1>4, <1>6, <1>7, ListsConcat DEF CloseCalls
<1> QED
  BY <1>8 DEF CloseConns, TwoEnds

LEMMA PostLists ==
  ASSUME bench \in Options
  PROVE  Lists(Script.post, PostCalls)
<1>0. Lists(<<>>, {})
  BY ListsShort, Zenon
<1>1. Op("join") \in Calls /\ Unlink("a") \in Calls /\ Unlink("b") \in Calls
  BY CallType
<1>2. Lists(IF Alone THEN <<>> ELSE <<Op("join")>>, IF Alone THEN {} ELSE {Op("join")})
  BY <1>0, <1>1, ListsShort, Zenon
<1>3. Lists(RoundTrip \o (IF Alone THEN <<>> ELSE <<Op("join")>>),
            TripCalls \cup (IF Alone THEN {} ELSE {Op("join")}))
  <2>1. \A a \in TripCalls, b \in IF Alone THEN {} ELSE {Op("join")} : Before(a, b)
    BY DEF TripCalls, Op, Before, Making
  <2> QED
    BY <1>2, <2>1, TripLists, ListsConcat
<1>4. Lists((RoundTrip \o (IF Alone THEN <<>> ELSE <<Op("join")>>)) \o CloseConns,
            (TripCalls \cup (IF Alone THEN {} ELSE {Op("join")})) \cup CloseCalls)
  <2>1. \A b \in CloseCalls : b.op = "close"
    BY DEF CloseCalls, Close
  <2>2. \A a \in TripCalls \cup (IF Alone THEN {} ELSE {Op("join")}), b \in CloseCalls :
          Before(a, b)
    BY <2>1 DEF TripCalls, Op, Before, Making
  <2> QED
    BY <1>3, <2>2, CloseLists, ListsConcat
<1>5. Lists(IF Xport = "fifo" THEN <<Unlink("a"), Unlink("b")>> ELSE <<>>, UnlinkCalls)
  <2>1. Before(Unlink("a"), Unlink("b"))
    BY DEF Before, Unlink, Making
  <2>2. Lists(<<Unlink("a"), Unlink("b")>>, {Unlink("a"), Unlink("b")})
    BY <1>1, <2>1, ListsShort, Zenon
  <2> QED
    BY <1>0, <2>2, Zenon DEF UnlinkCalls
<1>6. \A a \in (TripCalls \cup (IF Alone THEN {} ELSE {Op("join")})) \cup CloseCalls,
         b \in UnlinkCalls : Before(a, b)
  BY DEF CloseCalls, Close, UnlinkCalls, Unlink, TripCalls, Op, Before, Making
<1>7. Lists(((RoundTrip \o (IF Alone THEN <<>> ELSE <<Op("join")>>)) \o CloseConns)
              \o (IF Xport = "fifo" THEN <<Unlink("a"), Unlink("b")>> ELSE <<>>),
            PostCalls)
  BY <1>4, <1>5, <1>6, ListsConcat DEF PostCalls
<1>8. Script.post = RoundTrip \o (IF Alone THEN <<>> ELSE <<Op("join")>>)
                      \o CloseConns
                      \o (IF Xport = "fifo" THEN <<Unlink("a"), Unlink("b")>> ELSE <<>>)
  BY DEF Script, Idler
<1> QED
  BY <1>7, <1>8

LEMMA ScriptFields ==
  ASSUME NEW first \in Seq(Calls), NEW pre \in Seq(Calls), NEW run \in Seq(Calls),
         NEW post \in Seq(Calls)
  PROVE  LET s == [Idler EXCEPT !.first = first, !.pre = pre, !.bench = run,
                                !.post = post]
         IN  /\ IsScript(s, Calls)
             /\ s.worker = <<>> /\ s.bench = run /\ s.fini = <<>>
<1>1. <<>> \in Seq(Calls)
  BY EmptySeq
<1> QED
  BY <1>1 DEF IsScript, Idler

LEMMA ScriptType ==
  ASSUME bench \in Options
  PROVE  /\ IsScript(Script, Calls)
         /\ Script.worker = <<>> /\ Script.bench = RoundTrip /\ Script.fini = <<>>
<1>1. /\ Script.first \in Seq(Calls) /\ Script.pre \in Seq(Calls)
      /\ RoundTrip \in Seq(Calls) /\ Script.post \in Seq(Calls)
  BY FirstLists, PreLists, TripLists, PostLists DEF Lists
<1>2. /\ IsScript([Idler EXCEPT !.first = Script.first, !.pre = Script.pre,
                                !.bench = RoundTrip, !.post = Script.post], Calls)
  BY <1>1, ScriptFields
<1>3. Script = [Idler EXCEPT !.first = Script.first, !.pre = Script.pre,
                             !.bench = RoundTrip, !.post = Script.post]
  BY DEF Script, Idler
<1>4. Script.worker = <<>> /\ Script.bench = RoundTrip /\ Script.fini = <<>>
  BY DEF Script, Idler
<1> QED
  BY <1>2, <1>3, <1>4

(***************************************************************************)
(* The state, and what a worker still has to call in each callback.        *)
(***************************************************************************)
Left(w, o) == \E c \in Range(todo[w]) : c.op = o
Due(w, o)  == UNION {c.what : c \in {c \in Range(todo[w]) : c.op = o}}

LoopState == [pc : {"none", "read", "write", "done", "dead"}, served : Nat, n : Nat]

TypeInv ==
  /\ PlaceInv(Calls) /\ bench \in Options
  /\ held \in [Worker -> SUBSET Desc]
  /\ chan \in [Worker -> [{"x", "y"} -> Nat]]
  /\ sent \in [Worker -> Nat] /\ got \in [Worker -> Nat]
  /\ loop \in [Worker -> LoopState]

ScriptInv(w) ==
  /\ Sorted(todo[w]) /\ cb[w] # "unborn"
  /\ cb[w] \in {"worker", "fini", "done"} => todo[w] = <<>>
  /\ cb[w] = "pre" =>
       /\ Range(todo[w]) \subseteq FirstCalls \cup PreCalls
       /\ Left(w, "write") => Left(w, "read")
       /\ Left(w, "spawn") => Left(w, "write")
       /\ (\E o \in Making : Left(w, o)) /\ ~Alone => Left(w, "spawn")
  /\ cb[w] = "bench" =>
       /\ Range(todo[w]) \subseteq TripCalls
       /\ Left(w, "write") => Left(w, "read")
  /\ cb[w] = "post" =>
       /\ Range(todo[w]) \subseteq PostCalls
       /\ Left(w, "write") => Left(w, "read")

PlanInv == TypeInv /\ \A w \in Worker : ScriptInv(w)

LEMMA PlanSeq ==
  ASSUME PlanInv, NEW w \in Worker
  PROVE  todo[w] \in Seq(Calls) /\ Sorted(todo[w])
  BY DEF PlanInv, TypeInv, PlaceInv, ScriptInv

LEMMA Empties == Range(<<>>) = {} /\ Sorted(<<>>)
  BY ListsShort, Zenon DEF Lists

\* A worker that has made a call has the later ones left.
LEMMA OneLess ==
  ASSUME PlanInv, NEW w \in Worker, todo[w] # <<>>, Done(w)
  PROVE  /\ cb' = cb /\ once' = once
         /\ \A v \in Worker \ {w} : todo'[v] = todo[v]
         /\ Head(todo[w]) \in Calls /\ Sorted(todo'[w])
         /\ Range(todo[w]) = {Head(todo[w])} \cup Range(todo'[w])
         /\ \A b \in Range(todo'[w]) : Before(Head(todo[w]), b)
<1>1. todo' = [todo EXCEPT ![w] = Tail(todo[w])] /\ cb' = cb /\ once' = once
  BY DEF Done
<1>2. todo'[w] = Tail(todo[w]) /\ \A v \in Worker \ {w} : todo'[v] = todo[v]
  BY <1>1 DEF PlanInv, TypeInv, PlaceInv
<1> QED
  BY <1>1, <1>2, PlanSeq, ListsTail

\* What depends on the options does not change during a run.
LEMMA SameCalls ==
  ASSUME UNCHANGED bench
  PROVE  /\ FirstCalls' = FirstCalls /\ PreCalls' = PreCalls /\ PostCalls' = PostCalls
         /\ TripCalls' = TripCalls /\ Alone' = Alone /\ Leaky' = Leaky /\ Lost' = Lost
         /\ MadeAll' = MadeAll /\ Ends' = Ends /\ Size' = Size /\ Plain' = Plain
         /\ Xport' = Xport /\ Mode' = Mode
  BY DEF FirstCalls, PreCalls, PrepareCalls, PostCalls, TripCalls, CloseCalls,
     UnlinkCalls, TwoEnds, Close, Ends, PipeEnds, Alone, Mode, Xport, Make, Op, Unlink,
     Leaky, Lost, MadeAll, Size, Plain

LEMMA DoneScript ==
  ASSUME PlanInv, NEW w \in Worker, todo[w] # <<>>, Done(w), UNCHANGED bench,
         NEW v \in Worker
  PROVE  ScriptInv(v)'
<1> DEFINE h == Head(todo[w])
<1>1. /\ cb' = cb /\ (v # w => todo'[v] = todo[v])
      /\ h \in Calls /\ Sorted(todo'[w])
      /\ Range(todo[w]) = {h} \cup Range(todo'[w])
      /\ \A b \in Range(todo'[w]) : Before(h, b)
  BY OneLess
<1>2. /\ FirstCalls' = FirstCalls /\ PreCalls' = PreCalls /\ PostCalls' = PostCalls
      /\ TripCalls' = TripCalls /\ Alone' = Alone
  BY SameCalls
<1>3. CASE v # w
  BY <1>1, <1>2, <1>3 DEF PlanInv, ScriptInv, Left
<1>4. CASE v = w
  <2>1. \A o : Left(w, o)' => Left(w, o)
    BY <1>1 DEF Left
  <2>2. \A o : Left(w, o) => Left(w, o)' \/ h.op = o
    BY <1>1 DEF Left
  <2>3. /\ h.op = "read" => ~Left(w, "write")'
        /\ h.op = "write" => ~Left(w, "spawn")'
        /\ h.op = "spawn" => \A o \in Making : ~Left(w, o)'
    BY <1>1 DEF Left, Before, Making
  <2>4. cb[w] \notin {"worker", "fini", "done"}
    BY DEF PlanInv, ScriptInv
  <2> QED
    BY <1>1, <1>2, <1>4, <2>1, <2>2, <2>3, <2>4 DEF PlanInv, ScriptInv, Making
<1> QED
  BY <1>3, <1>4

LEMMA SameScript ==
  ASSUME PlanInv, UNCHANGED <<cb, todo, bench>>
  PROVE  \A v \in Worker : ScriptInv(v)'
<1>1. /\ FirstCalls' = FirstCalls /\ PreCalls' = PreCalls /\ PostCalls' = PostCalls
      /\ TripCalls' = TripCalls /\ Alone' = Alone
  BY SameCalls
<1> QED
  BY <1>1 DEF PlanInv, ScriptInv, Left

\* The calls of a callback that is entered.
Entered(w) ==
  /\ cb'[w] \in {"fini", "done"} => todo'[w] = <<>>
  /\ cb'[w] = "pre" =>
       /\ cb[w] \in {"worker", "post"} /\ todo[w] = <<>>
       /\ Lists(todo'[w], IF once[w] THEN PreCalls ELSE FirstCalls \cup PreCalls)
       /\ once'[w]
  /\ cb'[w] = "bench" => cb[w] = "pre" /\ todo[w] = <<>> /\ Lists(todo'[w], TripCalls)
  /\ cb'[w] = "post"  => cb[w] = "bench" /\ todo[w] = <<>> /\ Lists(todo'[w], PostCalls)

LEMMA AdvanceEntered ==
  ASSUME PlanInv, NEW w \in Worker, LoopTest(w, Script) \/ Return(w, Script)
  PROVE  /\ Entered(w) /\ cb'[w] \in {"pre", "bench", "post", "fini", "done"}
         /\ cb'[w] # "pre" => once' = once
         /\ cb'[w] \in {"fini", "done"} => cb[w] \in {"worker", "post", "fini"} /\ todo[w] = <<>>
         /\ \A v \in Worker \ {w} :
              cb'[v] = cb[v] /\ todo'[v] = todo[v] /\ once'[v] = once[v]
         /\ UNCHANGED <<choice, failed>>
<1> USE DEF PlanInv, TypeInv, PlaceInv
<1>1. bench \in Options /\ todo[w] = <<>>
  BY DEF LoopTest, Return, Idle
<1>2. CASE LoopTest(w, Script)
  <2>1. CASE go
    <3>1. /\ cb' = [cb EXCEPT ![w] = "pre"]
          /\ todo' = [todo EXCEPT ![w] = PreOps(w, Script)]
          /\ once' = [once EXCEPT ![w] = TRUE] /\ cb[w] \in {"worker", "post"}
          /\ UNCHANGED <<choice, failed>>
      BY <1>2, <2>1 DEF LoopTest, Enter
    <3>2. Lists(PreOps(w, Script), IF once[w] THEN PreCalls ELSE FirstCalls \cup PreCalls)
      BY <1>1, PreLists DEF PreOps
    <3> QED
      BY <1>1, <3>1, <3>2 DEF Entered
  <2>2. CASE ~go
    <3>1. /\ cb' = [cb EXCEPT ![w] = "fini"] /\ todo' = [todo EXCEPT ![w] = Script.fini]
          /\ once' = once /\ cb[w] \in {"worker", "post"} /\ UNCHANGED <<choice, failed>>
      BY <1>2, <2>2 DEF LoopTest, Enter
    <3> QED
      BY <1>1, <3>1, ScriptType DEF Entered
  <2> QED
    BY <2>1, <2>2
<1>3. CASE Return(w, Script)
  <2>1. UNCHANGED <<once, choice, failed>>
    BY <1>3 DEF Return
  <2>2. CASE cb[w] = "pre" /\ Enter(w, "bench", Script.bench)
    <3>1. Lists(Script.bench, TripCalls)
      BY <1>1, ScriptType, TripLists
    <3> QED
      BY <1>1, <2>1, <2>2, <3>1 DEF Entered, Enter
  <2>3. CASE cb[w] = "bench" /\ Enter(w, "post", Script.post)
    BY <1>1, <2>1, <2>3, PostLists DEF Entered, Enter
  <2>4. CASE cb[w] = "fini" /\ Enter(w, "done", <<>>)
    BY <1>1, <2>1, <2>4 DEF Entered, Enter
  <2> QED
    BY <1>3, <2>2, <2>3, <2>4 DEF Return
<1> QED
  BY <1>2, <1>3

LEMMA AdvanceScript ==
  ASSUME PlanInv, NEW w \in Worker, LoopTest(w, Script) \/ Return(w, Script),
         NEW v \in Worker
  PROVE  ScriptInv(v)'
<1>1. /\ Entered(w) /\ cb'[w] \in {"pre", "bench", "post", "fini", "done"}
      /\ v # w => cb'[v] = cb[v] /\ todo'[v] = todo[v]
      /\ bench' = bench
  BY AdvanceEntered DEF choice
<1>2. /\ FirstCalls' = FirstCalls /\ PreCalls' = PreCalls /\ PostCalls' = PostCalls
      /\ TripCalls' = TripCalls /\ Alone' = Alone
  BY <1>1, SameCalls
<1>3. CASE v # w
  BY <1>1, <1>2, <1>3 DEF PlanInv, ScriptInv, Left
<1>4. CASE v = w
  <2>1. /\ Op("write") \in TripCalls /\ Op("read") \in TripCalls
        /\ Op("write").op = "write" /\ Op("read").op = "read"
        /\ TripCalls \subseteq PreCalls /\ TripCalls \subseteq PostCalls
        /\ ~Alone => Op("spawn") \in PreCalls /\ Op("spawn").op = "spawn"
    BY DEF TripCalls, PreCalls, PostCalls, Op
  <2>2. CASE cb'[w] = "pre"
    <3>1. /\ Range(todo'[w]) \subseteq FirstCalls \cup PreCalls
          /\ PreCalls \subseteq Range(todo'[w]) /\ Sorted(todo'[w])
      BY <1>1, <2>2 DEF Entered, Lists
    <3>2. Left(w, "write")' /\ Left(w, "read")' /\ (~Alone => Left(w, "spawn")')
      BY <2>1, <3>1 DEF Left
    <3> QED
      BY <1>2, <1>4, <2>2, <3>1, <3>2 DEF ScriptInv
  <2>3. CASE cb'[w] = "bench"
    <3>1. Range(todo'[w]) = TripCalls /\ Sorted(todo'[w])
      BY <1>1, <2>3 DEF Entered, Lists
    <3>2. Left(w, "read")'
      BY <2>1, <3>1 DEF Left
    <3> QED
      BY <1>2, <1>4, <2>3, <3>1, <3>2 DEF ScriptInv
  <2>4. CASE cb'[w] = "post"
    <3>1. Range(todo'[w]) = PostCalls /\ Sorted(todo'[w])
      BY <1>1, <2>4 DEF Entered, Lists
    <3>2. Left(w, "read")'
      BY <2>1, <3>1 DEF Left
    <3> QED
      BY <1>2, <1>4, <2>4, <3>1, <3>2 DEF ScriptInv
  <2>5. CASE cb'[w] \in {"fini", "done"}
    <3>1. todo'[w] = <<>>
      BY <1>1, <2>5 DEF Entered
    <3> QED
      BY <1>4, <2>5, <3>1, Empties DEF ScriptInv
  <2> QED
    BY <1>1, <2>2, <2>3, <2>4, <2>5
<1> QED
  BY <1>3, <1>4

(***************************************************************************)
(* The steps.                                                              *)
(***************************************************************************)
LEMMA NextSteps ==
  ASSUME [Next]_vars
  PROVE  \/ UNCHANGED vars
         \/ \E w \in Worker :
              \/ MakeOne(w) \/ MakeFails(w) \/ BindPort(w) \/ StartListening(w)
              \/ ListenFails(w) \/ Connect(w) \/ Spawn(w) \/ SpawnFails(w)
              \/ Write(w) \/ Read(w) \/ ReadFails(w) \/ Join(w) \/ CloseOne(w)
              \/ UnlinkOne(w) \/ LoopRead(w) \/ LoopWrite(w) \/ LoopFails(w)
              \/ Advance(w) \/ Stop(w)
  BY DEF Next, Step, Call, Loopback, Finished

\* What the steps of Callbacks see of a step.
Placed(w) ==
  \/ todo[w] # <<>> /\ Done(w) /\ UNCHANGED <<round, choice>>
  \/ UNCHANGED <<round, choice, place>>
  \/ LoopTest(w, Script) \/ Return(w, Script)
  \/ Halt(w)

LEMMA NextPlaced ==
  ASSUME [Next]_vars
  PROVE  UNCHANGED <<round, choice, place>> \/ \E w \in Worker : Placed(w)
<1>1. CASE UNCHANGED vars
  BY <1>1 DEF vars
<1>2. ASSUME NEW w \in Worker,
             \/ MakeOne(w) \/ MakeFails(w) \/ BindPort(w) \/ StartListening(w)
             \/ ListenFails(w) \/ Connect(w) \/ Spawn(w)
      PROVE  Placed(w)
  BY <1>2 DEF MakeOne, MakeFails, BindPort, StartListening, ListenFails, Connect,
     Spawn, Fails, Next1, Placed
<1>3. ASSUME NEW w \in Worker, SpawnFails(w) PROVE Placed(w)
  BY <1>3 DEF SpawnFails, Fails, Next1, Placed
<1>4. ASSUME NEW w \in Worker, Write(w) \/ Read(w) PROVE Placed(w)
  BY <1>4 DEF Write, Read, Next1, Placed
<1>5. ASSUME NEW w \in Worker,
             ReadFails(w) \/ Join(w) \/ CloseOne(w) \/ UnlinkOne(w)
      PROVE  Placed(w)
  BY <1>5 DEF ReadFails, Join, CloseOne, UnlinkOne, Fails, Next1, Placed
<1>6. ASSUME NEW w \in Worker, LoopRead(w) \/ LoopWrite(w) \/ LoopFails(w)
      PROVE  Placed(w)
  BY <1>6 DEF LoopRead, LoopWrite, LoopFails, Fails, Placed
<1>7. ASSUME NEW w \in Worker, Advance(w) \/ Stop(w) PROVE Placed(w)
  BY <1>7 DEF Advance, Stop, Placed
<1> QED
  BY <1>1, <1>2, <1>3, <1>4, <1>5, <1>6, <1>7, NextSteps

LEMMA MinTwo ==
  ASSUME NEW a \in Int, NEW b \in Int
  PROVE  Min({a, b}) \in Int /\ Min({a, b}) <= a /\ Min({a, b}) <= b
<1>1. \E x \in {a, b} : \A y \in {a, b} : x <= y
  BY a <= b \/ b <= a
<1> QED
  BY <1>1 DEF Min

LEMMA Sides ==
  /\ \A d : ReadSide(d) \in {"x", "y"} /\ WriteSide(d) \in {"x", "y"}
  BY DEF ReadSide, WriteSide

LEMMA PutType ==
  ASSUME TypeInv, NEW w \in Worker, NEW c \in {"x", "y"}, NEW k \in Nat, Put(w, c, k)
  PROVE  chan' \in [Worker -> [{"x", "y"} -> Nat]]
  BY DEF Put, TypeInv

LEMMA TakeType ==
  ASSUME TypeInv, NEW w \in Worker, NEW c \in {"x", "y"}, NEW k \in Nat,
         k <= chan[w][c], Take(w, c, k)
  PROVE  chan' \in [Worker -> [{"x", "y"} -> Nat]]
<1>1. chan[w][c] - k \in Nat
  BY DEF TypeInv
<1> QED
  BY <1>1 DEF Take, TypeInv

\* How many units a call or a turn moves.
LEMMA WriteType ==
  ASSUME TypeInv, NEW w \in Worker, Write(w)
  PROVE  \E k \in Nat :
           /\ k <= Size - sent[w] /\ Put(w, WriteSide(Ends.out), k)
           /\ k > 0 \/ Size = 0
           /\ IF sent[w] + k = Size
                THEN sent' = [sent EXCEPT ![w] = 0] /\ Done(w)
                ELSE sent' = [sent EXCEPT ![w] = sent[w] + k] /\ UNCHANGED place
<1> DEFINE c == WriteSide(Ends.out)
           m == Min({Room(w, c), Size - sent[w]})
<1>1. c \in {"x", "y"} /\ Size \in Int /\ sent[w] \in Int
  BY Sides, BenchType DEF TypeInv
<1>2. chan[w][c] \in Nat
  BY <1>1 DEF TypeInv
<1>3. Room(w, c) \in Int /\ Size - sent[w] \in Int
  BY <1>1, <1>2, PipeAssumption DEF Room
<1>4. PICK k \in 0..Min({Room(w, c), Size - sent[w]}) :
        /\ k > 0 \/ Size = 0
        /\ Put(w, c, k)
        /\ IF sent[w] + k = Size
             THEN sent' = [sent EXCEPT ![w] = 0] /\ Done(w)
             ELSE sent' = [sent EXCEPT ![w] = sent[w] + k] /\ UNCHANGED place
  BY DEF Write
<1>5. k \in Nat /\ k <= Size - sent[w]
  <2>1. m \in Int /\ m <= Room(w, c) /\ m <= Size - sent[w]
    BY <1>3, MinTwo
  <2> QED
    BY <1>3, <2>1
<1> QED
  BY <1>4, <1>5

LEMMA ReadType ==
  ASSUME TypeInv, NEW w \in Worker, Read(w)
  PROVE  \E k \in Nat :
           /\ k >= 1 /\ k <= Size - got[w] /\ k <= chan[w][ReadSide(Ends.in)]
           /\ Take(w, ReadSide(Ends.in), k)
           /\ IF got[w] + k = Size
                THEN got' = [got EXCEPT ![w] = 0] /\ Done(w)
                ELSE got' = [got EXCEPT ![w] = got[w] + k] /\ UNCHANGED place
<1> DEFINE c == ReadSide(Ends.in)
           m == Min({chan[w][c], Size - got[w]})
<1>1. c \in {"x", "y"} /\ Size \in Int /\ got[w] \in Int
  BY Sides, BenchType DEF TypeInv
<1>2. chan[w][c] \in Int /\ Size - got[w] \in Int
  BY <1>1 DEF TypeInv
<1>3. PICK k \in 1..Min({chan[w][c], Size - got[w]}) :
        /\ Take(w, c, k)
        /\ IF got[w] + k = Size
             THEN got' = [got EXCEPT ![w] = 0] /\ Done(w)
             ELSE got' = [got EXCEPT ![w] = got[w] + k] /\ UNCHANGED place
  BY DEF Read
<1>4. k \in Nat /\ k >= 1 /\ k <= Size - got[w] /\ k <= chan[w][c]
  <2>1. m \in Int /\ m <= chan[w][c] /\ m <= Size - got[w]
    BY <1>2, MinTwo
  <2> QED
    BY <1>2, <2>1
<1> QED
  BY <1>3, <1>4

LEMMA LoopReadType ==
  ASSUME TypeInv, NEW w \in Worker, LoopRead(w)
  PROVE  \E k \in Nat :
           /\ k >= 1 /\ k <= Size - loop[w].n /\ k <= chan[w][ReadSide(Ends.in2)]
           /\ Take(w, ReadSide(Ends.in2), k)
           /\ IF loop[w].n + k = Size
                THEN loop' = [loop EXCEPT ![w] =
                       [pc |-> "write", served |-> loop[w].served + 1, n |-> 0]]
                ELSE loop' = [loop EXCEPT ![w].n = loop[w].n + k]
<1> DEFINE c == ReadSide(Ends.in2)
           m == Min({chan[w][c], Size - loop[w].n})
<1>1. c \in {"x", "y"} /\ Size \in Int /\ loop[w].n \in Int
  BY Sides, BenchType DEF TypeInv, LoopState
<1>2. chan[w][c] \in Int /\ Size - loop[w].n \in Int
  BY <1>1 DEF TypeInv
<1>3. PICK k \in 1..Min({chan[w][c], Size - loop[w].n}) :
        /\ Take(w, c, k)
        /\ IF loop[w].n + k = Size
                THEN loop' = [loop EXCEPT ![w] =
                       [pc |-> "write", served |-> loop[w].served + 1, n |-> 0]]
                ELSE loop' = [loop EXCEPT ![w].n = loop[w].n + k]
  BY DEF LoopRead
<1>4. k \in Nat /\ k >= 1 /\ k <= Size - loop[w].n /\ k <= chan[w][c]
  <2>1. m \in Int /\ m <= chan[w][c] /\ m <= Size - loop[w].n
    BY <1>2, MinTwo
  <2> QED
    BY <1>2, <2>1
<1> QED
  BY <1>3, <1>4

LEMMA LoopWriteType ==
  ASSUME TypeInv, NEW w \in Worker, LoopWrite(w)
  PROVE  \E k \in Nat :
           /\ k >= 1 /\ k <= Size - loop[w].n
           /\ Put(w, WriteSide(Ends.out2), k)
           /\ IF loop[w].n + k < Size
                THEN loop' = [loop EXCEPT ![w].n = loop[w].n + k]
                ELSE loop' = [loop EXCEPT ![w].n = 0,
                       ![w].pc = IF loop[w].served = LoopTurns THEN "done" ELSE "read"]
<1> DEFINE c == WriteSide(Ends.out2)
           m == Min({Room(w, c), Size - loop[w].n})
<1>1. c \in {"x", "y"} /\ Size \in Int /\ loop[w].n \in Int
  BY Sides, BenchType DEF TypeInv, LoopState
<1>2. chan[w][c] \in Nat
  BY <1>1 DEF TypeInv
<1>3. Room(w, c) \in Int /\ Size - loop[w].n \in Int
  BY <1>1, <1>2, PipeAssumption DEF Room
<1>4. PICK k \in 1..Min({Room(w, c), Size - loop[w].n}) :
        /\ Put(w, c, k)
        /\ IF loop[w].n + k < Size
                THEN loop' = [loop EXCEPT ![w].n = loop[w].n + k]
                ELSE loop' = [loop EXCEPT ![w].n = 0,
                       ![w].pc = IF loop[w].served = LoopTurns THEN "done" ELSE "read"]
  BY DEF LoopWrite
<1>5. k \in Nat /\ k >= 1 /\ k <= Size - loop[w].n
  <2>1. m \in Int /\ m <= Room(w, c) /\ m <= Size - loop[w].n
    BY <1>3, MinTwo
  <2> QED
    BY <1>3, <2>1
<1> QED
  BY <1>4, <1>5

LEMMA InitPlan == Init => PlanInv
<1> SUFFICES ASSUME Init PROVE PlanInv
  OBVIOUS
<1>1. R!Init /\ bench \in Benchmarks /\ once = [w \in Worker |-> FALSE]
  BY DEF Init, StartRun
<1>2. bench \in Options
  BY <1>1, PipeAssumption
<1>3. stage = [w \in Worker |-> "between"] /\ go = TRUE /\ R!LockstepInv
  BY <1>1, RoundInit DEF R!Init
<1>4. PlaceInv(Calls)
  <2>1. cb \in [Worker -> CallbackName] /\ todo \in [Worker -> Seq(Calls)]
    BY EmptySeq DEF Init, CallbackName
  <2> QED
    BY <1>1, <1>3, <2>1 DEF Init, PlaceInv, Fits
<1>5. TypeInv
  BY <1>2, <1>4 DEF Init, TypeInv, LoopState, Off
<1>6. \A w \in Worker : ScriptInv(w)
  BY Empties DEF Init, ScriptInv
<1> QED
  BY <1>5, <1>6 DEF PlanInv

LEMMA NextPlace ==
  ASSUME PlanInv, [Next]_vars
  PROVE  PlaceInv(Calls)' /\ bench' = bench /\ \A v \in Worker : ScriptInv(v)'
<1>1. PlaceInv(Calls) /\ IsScript(Script, Calls)
  BY ScriptType DEF PlanInv, TypeInv
<1>2. CASE UNCHANGED <<round, choice, place>>
  BY <1>1, <1>2, SamePlace, SameScript DEF choice, place
<1>3. ASSUME NEW w \in Worker, Placed(w)
      PROVE  PlaceInv(Calls)' /\ bench' = bench /\ \A v \in Worker : ScriptInv(v)'
  <2>1. CASE todo[w] # <<>> /\ Done(w) /\ UNCHANGED <<round, choice>>
    BY <1>1, <2>1, DonePlace, DoneScript DEF choice
  <2>2. CASE LoopTest(w, Script)
    BY <1>1, <2>2, LoopPlace, AdvanceScript DEF LoopTest, choice
  <2>3. CASE Return(w, Script)
    BY <1>1, <2>3, ReturnPlace, AdvanceScript DEF Return, choice
  <2>4. CASE Halt(w)
    <3>1. UNCHANGED <<cb, todo, bench>>
      BY <2>4 DEF Halt, choice, place
    <3> QED
      BY <1>1, <2>4, <3>1, HaltPlace, SameScript
  <2> QED
    BY <1>2, <1>3, <2>1, <2>2, <2>3, <2>4 DEF Placed
<1> QED
  BY <1>2, <1>3, NextPlaced

LEMMA HeadCall ==
  ASSUME PlanInv, NEW w \in Worker, todo[w] # <<>>
  PROVE  Head(todo[w]) \in Calls /\ Head(todo[w]) \in Range(todo[w])
  BY PlanSeq, ListsTail

\* What is made and closed are descriptors, in benchmark_pre and benchmark_post.
LEMMA CallWhat ==
  ASSUME PlanInv, NEW w \in Worker, NEW c \in Range(todo[w])
  PROVE  /\ c.op \in Making \cup {"spawn"} =>
              cb[w] = "pre" /\ c \in FirstCalls \cup PreCalls
         /\ c.op = "spawn" => ~Alone
         /\ c.op \in {"join", "close", "unlink"} => cb[w] = "post" /\ c \in PostCalls
         /\ c.op = "join" => ~Alone
         /\ c.op \in {"write", "read"} => cb[w] \in {"pre", "bench", "post"}
         /\ c.op \in {"make", "close"} => c.what \subseteq Desc
<1>0. bench \in Options
  BY DEF PlanInv, TypeInv
<1>1. cb[w] \in {"worker", "pre", "bench", "post", "fini", "done"}
  BY DEF PlanInv, TypeInv, PlaceInv, ScriptInv, CallbackName
<1>2. cb[w] \notin {"worker", "fini", "done"}
  BY Empties DEF PlanInv, ScriptInv
<1>3. \A d \in FirstCalls \cup PrepareCalls : d.op \in Making /\ d.what \subseteq Desc
  <2>1. \A d \in FirstCalls : d.op \in Making /\ d.what \subseteq Desc
    BY DEF FirstCalls, Make, Op, Making, Desc
  <2>2. CASE Alone
    BY <1>0, <2>1, <2>2, BenchType DEF PrepareCalls, Make, Op, Making, Desc
  <2>3. CASE ~Alone
    BY <1>0, <2>1, <2>3, BenchType DEF PrepareCalls, Make, Op, Making, Desc
  <2> QED
    BY <2>2, <2>3, BenchType, <1>0
<1>4. \A d \in PreCalls : /\ d.op \in Making \cup {"spawn", "write", "read"}
                          /\ d.op = "make" => d.what \subseteq Desc
                          /\ d.op = "spawn" => ~Alone
  BY <1>3 DEF PreCalls, TripCalls, Op, Making
<1>5. \A d \in PostCalls : /\ d.op \in {"write", "read", "join", "close", "unlink"}
                           /\ d.op = "close" => d.what \subseteq Desc
                           /\ d.op = "join" => ~Alone
  BY <1>0, EndsType DEF PostCalls, TripCalls, CloseCalls, UnlinkCalls, Op, Close, Unlink
<1>6. CASE cb[w] = "pre"
  <2>1. c \in FirstCalls \cup PreCalls
    BY <1>6 DEF PlanInv, ScriptInv
  <2> QED
    BY <1>3, <1>4, <1>6, <2>1 DEF Making
<1>7. CASE cb[w] = "bench"
  <2>1. c \in TripCalls
    BY <1>7 DEF PlanInv, ScriptInv
  <2> QED
    BY <1>7, <2>1 DEF TripCalls, Op, Making
<1>8. CASE cb[w] = "post"
  <2>1. c \in PostCalls
    BY <1>8 DEF PlanInv, ScriptInv
  <2> QED
    BY <1>5, <1>8, <2>1 DEF Making
<1> QED
  BY <1>1, <1>2, <1>6, <1>7, <1>8

LEMMA LoopExcept ==
  ASSUME PlanInv, NEW w \in Worker, NEW k \in Nat
  PROVE  /\ [loop EXCEPT ![w].n = loop[w].n + k] \in [Worker -> LoopState]
         /\ \A p \in {"done", "read"} :
              [loop EXCEPT ![w].n = 0, ![w].pc = p] \in [Worker -> LoopState]
         /\ [loop EXCEPT ![w] = [pc |-> "write", served |-> loop[w].served + 1, n |-> 0]]
              \in [Worker -> LoopState]
<1>1. loop \in [Worker -> LoopState] /\ loop[w] \in LoopState
  BY DEF PlanInv, TypeInv
<1>2. loop[w].n + k \in Nat /\ loop[w].served + 1 \in Nat
  BY <1>1 DEF LoopState
<1> QED
  BY <1>1, <1>2 DEF LoopState

LEMMA NextPlan == PlanInv /\ [Next]_vars => PlanInv'
<1> SUFFICES ASSUME PlanInv, [Next]_vars PROVE PlanInv'
  OBVIOUS
<1>1. PlaceInv(Calls)' /\ bench' = bench /\ \A v \in Worker : ScriptInv(v)'
  BY NextPlace
<1> DEFINE DataType ==
             /\ held' \in [Worker -> SUBSET Desc]
             /\ chan' \in [Worker -> [{"x", "y"} -> Nat]]
             /\ sent' \in [Worker -> Nat] /\ got' \in [Worker -> Nat]
             /\ loop' \in [Worker -> LoopState]
<1>2. ASSUME UNCHANGED <<held, data, loop>> PROVE DataType
  BY <1>2 DEF PlanInv, TypeInv, data
<1>3. ASSUME NEW w \in Worker,
             \/ MakeFails(w) \/ BindPort(w) \/ StartListening(w) \/ ListenFails(w)
             \/ Connect(w) \/ ReadFails(w) \/ Join(w) \/ UnlinkOne(w)
             \/ Advance(w) \/ Stop(w)
      PROVE  DataType
  <2>1. UNCHANGED <<held, data, loop>>
    BY <1>3 DEF MakeFails, BindPort, StartListening, ListenFails, Connect, ReadFails,
       Join, UnlinkOne, Advance, Stop, files
  <2> QED
    BY <1>2, <2>1
<1>4. ASSUME NEW w \in Worker, MakeOne(w) PROVE DataType
  <2> DEFINE ds == Head(todo[w]).what
             fresh == {WriteSide(d) : d \in ds \ {"lsn"}}
  <2>1. ds \subseteq Desc
    BY <1>4, HeadCall, CallWhat DEF MakeOne, Next1
  <2>2. /\ held' = [held EXCEPT ![w] = held[w] \cup ds]
        /\ chan' = [chan EXCEPT ![w] = [c \in {"x", "y"} |->
                      IF c \in fresh THEN 0 ELSE chan[w][c]]]
        /\ UNCHANGED <<sent, got, loop>>
    BY <1>4 DEF MakeOne
  <2> QED
    BY <2>1, <2>2 DEF PlanInv, TypeInv
<1>5. ASSUME NEW w \in Worker, Spawn(w) PROVE DataType
  BY <1>5 DEF Spawn, PlanInv, TypeInv, files, data, LoopState, Off
<1>6. ASSUME NEW w \in Worker, SpawnFails(w) PROVE DataType
  BY <1>6 DEF SpawnFails, PlanInv, TypeInv, files, data, LoopState, Off
<1>7. ASSUME NEW w \in Worker, Write(w) PROVE DataType
  <2>1. UNCHANGED <<held, got, loop>>
    BY <1>7 DEF Write, files
  <2>2. PICK k \in Nat :
          /\ Put(w, WriteSide(Ends.out), k)
          /\ IF sent[w] + k = Size
               THEN sent' = [sent EXCEPT ![w] = 0] /\ Done(w)
               ELSE sent' = [sent EXCEPT ![w] = sent[w] + k] /\ UNCHANGED place
    BY <1>7, WriteType DEF PlanInv
  <2>3. chan' \in [Worker -> [{"x", "y"} -> Nat]]
    BY <2>2, Sides, PutType DEF PlanInv
  <2>4. sent[w] + k \in Nat /\ sent' \in [Worker -> Nat]
    BY <2>2 DEF PlanInv, TypeInv
  <2> QED
    BY <2>1, <2>3, <2>4 DEF PlanInv, TypeInv
<1>8. ASSUME NEW w \in Worker, Read(w) PROVE DataType
  <2>1. UNCHANGED <<held, sent, loop>>
    BY <1>8 DEF Read, files
  <2>2. PICK k \in Nat :
          /\ k <= chan[w][ReadSide(Ends.in)] /\ Take(w, ReadSide(Ends.in), k)
          /\ IF got[w] + k = Size
               THEN got' = [got EXCEPT ![w] = 0] /\ Done(w)
               ELSE got' = [got EXCEPT ![w] = got[w] + k] /\ UNCHANGED place
    BY <1>8, ReadType DEF PlanInv
  <2>3. chan' \in [Worker -> [{"x", "y"} -> Nat]]
    BY <2>2, Sides, TakeType DEF PlanInv
  <2>4. got[w] + k \in Nat /\ got' \in [Worker -> Nat]
    BY <2>2 DEF PlanInv, TypeInv
  <2> QED
    BY <2>1, <2>3, <2>4 DEF PlanInv, TypeInv
<1>9. ASSUME NEW w \in Worker, LoopRead(w) PROVE DataType
  <2>1. UNCHANGED <<held, sent, got>>
    BY <1>9 DEF LoopRead, files
  <2>2. PICK k \in Nat :
          /\ k <= chan[w][ReadSide(Ends.in2)] /\ Take(w, ReadSide(Ends.in2), k)
          /\ IF loop[w].n + k = Size
               THEN loop' = [loop EXCEPT ![w] =
                      [pc |-> "write", served |-> loop[w].served + 1, n |-> 0]]
               ELSE loop' = [loop EXCEPT ![w].n = loop[w].n + k]
    BY <1>9, LoopReadType DEF PlanInv
  <2>3. chan' \in [Worker -> [{"x", "y"} -> Nat]]
    BY <2>2, Sides, TakeType DEF PlanInv
  <2>4. loop' \in [Worker -> LoopState]
    <3>1. CASE loop[w].n + k = Size
      <4>1. loop' = [loop EXCEPT ![w] =
                      [pc |-> "write", served |-> loop[w].served + 1, n |-> 0]]
        BY <2>2, <3>1
      <4> QED
        BY <4>1, LoopExcept
    <3>2. CASE loop[w].n + k # Size
      <4>1. loop' = [loop EXCEPT ![w].n = loop[w].n + k]
        BY <2>2, <3>2
      <4> QED
        BY <4>1, LoopExcept
    <3> QED
      BY <3>1, <3>2
  <2> QED
    BY <2>1, <2>3, <2>4 DEF PlanInv, TypeInv
<1>10. ASSUME NEW w \in Worker, LoopWrite(w) PROVE DataType
  <2>1. UNCHANGED <<held, sent, got>>
    BY <1>10 DEF LoopWrite, files
  <2>2. PICK k \in Nat :
          /\ Put(w, WriteSide(Ends.out2), k)
          /\ IF loop[w].n + k < Size
               THEN loop' = [loop EXCEPT ![w].n = loop[w].n + k]
               ELSE loop' = [loop EXCEPT ![w].n = 0,
                      ![w].pc = IF loop[w].served = LoopTurns THEN "done" ELSE "read"]
    BY <1>10, LoopWriteType DEF PlanInv
  <2>3. chan' \in [Worker -> [{"x", "y"} -> Nat]]
    BY <2>2, Sides, PutType DEF PlanInv
  <2>4. loop' \in [Worker -> LoopState]
    <3>1. CASE loop[w].n + k < Size
      <4>1. loop' = [loop EXCEPT ![w].n = loop[w].n + k]
        BY <2>2, <3>1
      <4> QED
        BY <4>1, LoopExcept
    <3>2. CASE ~(loop[w].n + k < Size)
      <4>1. PICK p \in {"done", "read"} :
              loop' = [loop EXCEPT ![w].n = 0, ![w].pc = p]
        BY <2>2, <3>2
      <4> QED
        BY <4>1, LoopExcept
    <3> QED
      BY <3>1, <3>2
  <2> QED
    BY <2>1, <2>3, <2>4 DEF PlanInv, TypeInv
<1>11. ASSUME NEW w \in Worker, LoopFails(w) PROVE DataType
  BY <1>11 DEF LoopFails, PlanInv, TypeInv, files, data, LoopState
<1>12. ASSUME NEW w \in Worker, CloseOne(w) PROVE DataType
  BY <1>12 DEF CloseOne, PlanInv, TypeInv, data
<1>13. DataType
  <2>1. CASE UNCHANGED vars
    BY <1>2, <2>1 DEF vars, files
  <2> QED
    BY <2>1, <1>3, <1>4, <1>5, <1>6, <1>7, <1>8, <1>9, <1>10, <1>11, <1>12, NextSteps
<1> QED
  BY <1>1, <1>13 DEF PlanInv, TypeInv

(***************************************************************************)
(* The descriptors of a round: benchmark_pre makes what it has not made    *)
(* yet, benchmark_post closes what is still to be closed.                  *)
(***************************************************************************)
FilesInv(w) ==
  /\ ~once[w] => held[w] = {} /\ cb[w] \in {"worker", "fini", "done"}
  /\ cb[w] = "worker" => ~once[w]
  /\ ~Leaky => leaked[w] = 0
  /\ cb[w] = "pre" =>
       /\ Due(w, "make") \subseteq MadeAll \cup {"lsn"}
       /\ "lsn" \in Due(w, "make") => "lsn" \notin held[w]
       /\ MadeAll \ Due(w, "make") \subseteq held[w]
       /\ held[w] \ {"lsn"} \subseteq (MadeAll \ Due(w, "make")) \cup Lost
  /\ cb[w] = "bench" => held[w] \ {"lsn"} = MadeAll
  /\ cb[w] = "post" =>
       /\ held[w] \ {"lsn"} = Due(w, "close") \cup Lost
       /\ Due(w, "close") \cap Lost = {} /\ "lsn" \notin Due(w, "close")

\* The loopback lives from spawn to join.
LoopInv(w) ==
  loop[w].pc \in {"read", "write"} =>
    /\ ~Alone /\ InRound(w) /\ ~Left(w, "spawn")
    /\ cb[w] = "post" => Left(w, "join")

ClosesInv == \A w \in Worker : FilesInv(w) /\ LoopInv(w)

(***************************************************************************)
(* The units in flight: what the worker has written and the loopback has   *)
(* not read, what the loopback has written and the worker has not read.    *)
(***************************************************************************)
\* A call that moves data is the next one while it is not over.
MovesInv(w) ==
  /\ sent[w] # 0 => todo[w] # <<>> /\ Head(todo[w]).op = "write" /\ sent[w] < Size
  /\ got[w] # 0  => todo[w] # <<>> /\ Head(todo[w]).op = "read" /\ got[w] < Size

\* Until the loopback is there, what is made is empty.
FreshInv(w) ==
  cb[w] = "pre" /\ Left(w, "spawn") =>
    \A c \in {"x", "y"} :
      chan[w][c] = 0 \/ \E d \in Due(w, "make") \ {"lsn"} : WriteSide(d) = c

Writes(w) == TripsBefore(w) + IF Left(w, "write") THEN 0 ELSE 1
Reads(w)  == TripsBefore(w) + IF Left(w, "read") THEN 0 ELSE 1

\* Units written and read by the worker, read and written by its loopback.
Asks(w)    == Size * Writes(w) + sent[w]
Answers(w) == Size * Reads(w) + got[w]
Heard(w)   == Size * loop[w].served + IF loop[w].pc = "write" THEN 0 ELSE loop[w].n
Echoed(w)  == IF loop[w].pc = "write" THEN Size * (loop[w].served - 1) + loop[w].n
                                      ELSE Size * loop[w].served

Balance(w) ==
  /\ loop[w].n = 0 \/ loop[w].n < Size
  /\ loop[w].pc = "write" => loop[w].served >= 1 /\ loop[w].n < Size
  /\ chan[w][WriteSide(Ends.out)] = Asks(w) - Heard(w)
  /\ chan[w][ReadSide(Ends.in)] = Echoed(w) - Answers(w)

FlightInv(w) == ~Alone /\ InRound(w) /\ ~Left(w, "spawn") => Balance(w)

EchoOf(w) == MovesInv(w) /\ FreshInv(w) /\ FlightInv(w)

EchoInv == \A w \in Worker : EchoOf(w)

(***************************************************************************)
(* A step is one worker's, or its loopback's: the others keep what they    *)
(* have.                                                                   *)
(***************************************************************************)
Same(v) ==
  /\ cb'[v] = cb[v] /\ todo'[v] = todo[v] /\ once'[v] = once[v]
  /\ held'[v] = held[v] /\ leaked'[v] = leaked[v] /\ chan'[v] = chan[v]
  /\ sent'[v] = sent[v] /\ got'[v] = got[v] /\ loop'[v] = loop[v]

LEMMA DoneLocal ==
  ASSUME PlanInv, NEW w \in Worker, Done(w), NEW v \in Worker \ {w}
  PROVE  cb'[v] = cb[v] /\ todo'[v] = todo[v] /\ once'[v] = once[v]
  BY DEF Done, PlanInv, TypeInv, PlaceInv

LEMMA MoveLocal ==
  ASSUME PlanInv, NEW w \in Worker, NEW c \in {"x", "y"}, NEW k \in Nat,
         Put(w, c, k) \/ Take(w, c, k), NEW v \in Worker \ {w}
  PROVE  chan'[v] = chan[v]
  BY DEF Put, Take, PlanInv, TypeInv

LEMMA StepLocal ==
  ASSUME PlanInv, NEW w \in Worker, NEW v \in Worker \ {w},
         \/ MakeOne(w) \/ MakeFails(w) \/ BindPort(w) \/ StartListening(w)
         \/ ListenFails(w) \/ Connect(w) \/ Spawn(w) \/ SpawnFails(w)
         \/ Write(w) \/ Read(w) \/ ReadFails(w) \/ Join(w) \/ CloseOne(w)
         \/ UnlinkOne(w) \/ LoopRead(w) \/ LoopWrite(w) \/ LoopFails(w)
         \/ Advance(w) \/ Stop(w)
  PROVE  Same(v)
<1> USE DEF Same, files, data, place
<1>1. CASE MakeOne(w)
  <2>1. Done(w) /\ UNCHANGED <<sent, got, loop>>
    BY <1>1 DEF MakeOne
  <2>2. held'[v] = held[v] /\ leaked'[v] = leaked[v] /\ chan'[v] = chan[v]
    BY <1>1 DEF MakeOne, PlanInv, TypeInv
  <2> QED
    BY <2>1, <2>2, DoneLocal
<1>2. CASE MakeFails(w) \/ ListenFails(w) \/ ReadFails(w)
  BY <1>2 DEF MakeFails, ListenFails, ReadFails, Fails
<1>3. CASE BindPort(w) \/ StartListening(w) \/ Connect(w) \/ Join(w)
  BY <1>3, DoneLocal DEF BindPort, StartListening, Connect, Join
<1>4. CASE Spawn(w)
  BY <1>4, DoneLocal DEF Spawn, PlanInv, TypeInv
<1>5. CASE SpawnFails(w)
  BY <1>5, DoneLocal DEF SpawnFails, Fails, PlanInv, TypeInv
<1>6. CASE Write(w)
  <2>1. PICK k \in Nat :
          /\ Put(w, WriteSide(Ends.out), k)
          /\ IF sent[w] + k = Size
               THEN sent' = [sent EXCEPT ![w] = 0] /\ Done(w)
               ELSE sent' = [sent EXCEPT ![w] = sent[w] + k] /\ UNCHANGED place
    BY <1>6, WriteType DEF PlanInv
  <2>2. chan'[v] = chan[v]
    BY <2>1, MoveLocal, Sides
  <2>3. UNCHANGED <<held, leaked, got, loop>> /\ sent'[v] = sent[v]
    BY <1>6, <2>1 DEF Write, PlanInv, TypeInv
  <2> QED
    BY <2>1, <2>2, <2>3, DoneLocal
<1>7. CASE Read(w)
  <2>1. PICK k \in Nat :
          /\ Take(w, ReadSide(Ends.in), k)
          /\ IF got[w] + k = Size
               THEN got' = [got EXCEPT ![w] = 0] /\ Done(w)
               ELSE got' = [got EXCEPT ![w] = got[w] + k] /\ UNCHANGED place
    BY <1>7, ReadType DEF PlanInv
  <2>2. chan'[v] = chan[v]
    BY <2>1, MoveLocal, Sides
  <2>3. UNCHANGED <<held, leaked, sent, loop>> /\ got'[v] = got[v]
    BY <1>7, <2>1 DEF Read, PlanInv, TypeInv
  <2> QED
    BY <2>1, <2>2, <2>3, DoneLocal
<1>8. CASE CloseOne(w)
  BY <1>8, DoneLocal DEF CloseOne, PlanInv, TypeInv
<1>9. CASE UnlinkOne(w)
  BY <1>9, DoneLocal DEF UnlinkOne, Fails
<1>10. CASE LoopRead(w)
  <2>1. PICK k \in Nat :
          /\ Take(w, ReadSide(Ends.in2), k)
          /\ IF loop[w].n + k = Size
               THEN loop' = [loop EXCEPT ![w] =
                      [pc |-> "write", served |-> loop[w].served + 1, n |-> 0]]
               ELSE loop' = [loop EXCEPT ![w].n = loop[w].n + k]
    BY <1>10, LoopReadType DEF PlanInv
  <2>2. chan'[v] = chan[v]
    BY <2>1, MoveLocal, Sides
  <2> QED
    BY <1>10, <2>1, <2>2 DEF LoopRead, PlanInv, TypeInv
<1>11. CASE LoopWrite(w)
  <2>1. PICK k \in Nat :
          /\ Put(w, WriteSide(Ends.out2), k)
          /\ IF loop[w].n + k < Size
               THEN loop' = [loop EXCEPT ![w].n = loop[w].n + k]
               ELSE loop' = [loop EXCEPT ![w].n = 0,
                      ![w].pc = IF loop[w].served = LoopTurns THEN "done" ELSE "read"]
    BY <1>11, LoopWriteType DEF PlanInv
  <2>2. chan'[v] = chan[v]
    BY <2>1, MoveLocal, Sides
  <2>3. UNCHANGED <<cb, todo, once, held, leaked, sent, got>>
    BY <1>11 DEF LoopWrite
  <2>4. loop'[v] = loop[v]
    BY <2>1 DEF PlanInv, TypeInv
  <2> QED
    BY <2>2, <2>3, <2>4
<1>12. CASE LoopFails(w)
  BY <1>12 DEF LoopFails, Fails, PlanInv, TypeInv
<1>13. CASE Advance(w)
  BY <1>13, AdvanceEntered DEF Advance
<1>14. CASE Stop(w)
  BY <1>14 DEF Stop, Halt
<1> QED
  BY <1>1, <1>2, <1>3, <1>4, <1>5, <1>6, <1>7, <1>8, <1>9, <1>10, <1>11, <1>12,
     <1>13, <1>14

LEMMA OneActor ==
  ASSUME PlanInv, [Next]_vars
  PROVE  \/ \A v \in Worker : Same(v)
         \/ \E w \in Worker :
              /\ \A v \in Worker \ {w} : Same(v)
              /\ \/ MakeOne(w) \/ MakeFails(w) \/ BindPort(w) \/ StartListening(w)
                 \/ ListenFails(w) \/ Connect(w) \/ Spawn(w) \/ SpawnFails(w)
                 \/ Write(w) \/ Read(w) \/ ReadFails(w) \/ Join(w) \/ CloseOne(w)
                 \/ UnlinkOne(w) \/ LoopRead(w) \/ LoopWrite(w) \/ LoopFails(w)
                 \/ Advance(w) \/ Stop(w)
<1>1. UNCHANGED vars => \A v \in Worker : Same(v)
  BY DEF vars, Same, files, data, place
<1> QED
  BY <1>1, NextSteps, StepLocal

\* The rest of a worker's calls after one of them.
LEMMA LessLeft ==
  ASSUME PlanInv, NEW w \in Worker, todo[w] # <<>>, Done(w)
  PROVE  LET h == Head(todo[w]) IN
         /\ \A o : Left(w, o) <=> Left(w, o)' \/ h.op = o
         /\ \A o \in {"spawn", "write", "read", "join"} : h.op = o => ~Left(w, o)'
         /\ \A o : h.op # o => Due(w, o)' = Due(w, o)
         /\ \A o : h.op = o => Due(w, o) = Due(w, o)' \cup h.what
         /\ \A o \in {"make", "close"} : h.op = o => Due(w, o)' \cap h.what = {}
<1> DEFINE h == Head(todo[w])
<1>1. /\ Range(todo[w]) = {h} \cup Range(todo'[w])
      /\ \A b \in Range(todo'[w]) : Before(h, b)
  BY OneLess
<1>2. \A o : Left(w, o) <=> Left(w, o)' \/ h.op = o
  BY <1>1 DEF Left
<1>3. \A o \in {"spawn", "write", "read", "join"} : h.op = o => ~Left(w, o)'
  BY <1>1 DEF Left, Before
<1>4. \A o : h.op # o => Due(w, o)' = Due(w, o)
  BY <1>1 DEF Due
<1>5. \A o : h.op = o => Due(w, o) = Due(w, o)' \cup h.what
  BY <1>1 DEF Due
<1>6. \A o \in {"make", "close"} : h.op = o => Due(w, o)' \cap h.what = {}
  BY <1>1 DEF Due, Before, Making
<1> QED
  BY <1>2, <1>3, <1>4, <1>5, <1>6

LEMMA MakeFields ==
  /\ \A ds : Make(ds).op = "make" /\ Make(ds).what = ds
  /\ \A e : Close(e).op = "close" /\ Close(e).what = {Ends[e]}
  /\ \A f : Unlink(f).op = "unlink"
  /\ \A o : Op(o).op = o
  BY DEF Make, Close, Unlink, Op

\* benchmark_pre makes MadeAll.
LEMMA MadeFacts ==
  ASSUME bench \in Options
  PROVE  /\ \A x : (\E c \in PreCalls : c.op = "make" /\ x \in c.what) <=> x \in MadeAll
         /\ \A c \in FirstCalls : c.op = "make" => c.what = {"lsn"}
         /\ "lsn" \notin MadeAll /\ Lost \subseteq MadeAll
         /\ ~Leaky => Lost = {}
<1>1. \A c \in FirstCalls : c.op = "make" => c.what = {"lsn"}
  BY DEF FirstCalls, Make, Op
<1>2. Alone \in BOOLEAN /\ Xport \in {"pipe", "fifo", "sock", "tcp"}
  BY BenchType
<1>3. \A c \in PreCalls : c.op = "make" => c.what \subseteq MadeAll
  <2>1. \A c \in PreCalls : c.op = "make" => c \in PrepareCalls
    BY DEF PreCalls, TripCalls, Op
  <2>2. ASSUME NEW c \in PrepareCalls, c.op = "make" PROVE c.what \subseteq MadeAll
    <3>1. CASE Alone
      BY <1>2, <2>2, <3>1, MakeFields DEF PrepareCalls, MadeAll
    <3>2. CASE ~Alone
      BY <1>2, <2>2, <3>2, MakeFields DEF PrepareCalls, MadeAll
    <3> QED
      BY <3>1, <3>2
  <2> QED
    BY <2>1, <2>2
<1>4. ASSUME NEW x \in MadeAll PROVE \E c \in PreCalls : c.op = "make" /\ x \in c.what
  <2>1. \E ds : x \in ds /\ Make(ds) \in PrepareCalls
    <3>1. CASE Xport = "pipe"
      <4>1. x \in {"p0", "p1"} \/ (~Alone /\ x \in {"q0", "q1"})
        BY <1>4, <3>1 DEF MadeAll
      <4>2. /\ Make({"p0", "p1"}) \in PrepareCalls
            /\ ~Alone => Make({"q0", "q1"}) \in PrepareCalls
        BY <3>1 DEF PrepareCalls
      <4> QED
        BY <4>1, <4>2
    <3>2. CASE Xport = "fifo"
      <4>1. x \in {"a0", "a1"} \/ (~Alone /\ x \in {"b0", "b1"})
        BY <1>4, <3>2 DEF MadeAll
      <4>2. /\ Make({"a0"}) \in PrepareCalls /\ Make({"a1"}) \in PrepareCalls
            /\ ~Alone => Make({"b0"}) \in PrepareCalls /\ Make({"b1"}) \in PrepareCalls
        BY <3>2 DEF PrepareCalls
      <4> QED
        BY <4>1, <4>2
    <3>3. CASE Xport = "sock"
      <4>1. x \in {"s0", "s1"} /\ Make({"s0", "s1"}) \in PrepareCalls
        BY <1>4, <3>3 DEF MadeAll, PrepareCalls
      <4> QED
        BY <4>1
    <3>4. CASE Xport = "tcp"
      <4>1. /\ x \in {"cli", "acc"}
            /\ Make({"cli"}) \in PrepareCalls /\ Make({"acc"}) \in PrepareCalls
        BY <1>4, <3>4 DEF MadeAll, PrepareCalls
      <4> QED
        BY <4>1
    <3> QED
      BY <1>2, <3>1, <3>2, <3>3, <3>4
  <2> QED
    BY <2>1, MakeFields DEF PreCalls
<1>5. "lsn" \notin MadeAll /\ Lost \subseteq MadeAll /\ (~Leaky => Lost = {})
  BY <1>2 DEF MadeAll, Lost, Leaky
<1> QED
  BY <1>1, <1>3, <1>4, <1>5

\* benchmark_post closes what is not lost of it.
LEMMA CloseFacts ==
  ASSUME bench \in Options
  PROVE  \A x : (\E c \in PostCalls : c.op = "close" /\ x \in c.what)
                   <=> x \in MadeAll \ Lost
<1> DEFINE Numbers == {"in"} \cup (IF TwoEnds THEN {"out"} ELSE {})
                        \cup (IF Alone THEN {} ELSE {"in2"})
                        \cup (IF ~Alone /\ TwoEnds THEN {"out2"} ELSE {})
<1>1. \A c : c \in CloseCalls <=> \E e \in Numbers : c = Close(e)
  BY DEF CloseCalls
<1>2. \A c \in PostCalls : c.op = "close" => c \in CloseCalls
  BY MakeFields DEF PostCalls, TripCalls, UnlinkCalls
<1>3. CloseCalls \subseteq PostCalls
  BY DEF PostCalls
<1>4. \A x : (\E c \in PostCalls : c.op = "close" /\ x \in c.what)
               <=> \E e \in Numbers : x = Ends[e]
  <2>1. ASSUME NEW x, NEW c \in PostCalls, c.op = "close", x \in c.what
        PROVE  \E e \in Numbers : x = Ends[e]
    BY <1>1, <1>2, <2>1, MakeFields
  <2>2. ASSUME NEW x, NEW e \in Numbers, x = Ends[e]
        PROVE  \E c \in PostCalls : c.op = "close" /\ x \in c.what
    <3>1. Close(e) \in PostCalls
      BY <1>1, <1>3
    <3> QED
      BY <2>2, <3>1, MakeFields
  <2> QED
    BY <2>1, <2>2
<1>5. \A x : x \in MadeAll \ Lost <=> \E e \in Numbers : x = Ends[e]
  <2>1. CASE Alone
    <3>1. \A x : (\E e \in Numbers : x = Ends[e])
                   <=> x = Ends.in \/ (TwoEnds /\ x = Ends.out)
      BY <2>1
    <3>2. \A x : x \in MadeAll \ Lost <=> x = Ends.in \/ (TwoEnds /\ x = Ends.out)
      BY <2>1, BenchType DEF MadeAll, Lost, Leaky, Ends, TwoEnds
    <3> QED
      BY <3>1, <3>2
  <2>2. CASE ~Alone
    <3>1. \A x : (\E e \in Numbers : x = Ends[e])
                   <=> \/ x = Ends.in \/ x = Ends.in2
                       \/ TwoEnds /\ (x = Ends.out \/ x = Ends.out2)
      BY <2>2
    <3>2. \A x : x \in MadeAll \ Lost
                   <=> \/ x = Ends.in \/ x = Ends.in2
                       \/ TwoEnds /\ (x = Ends.out \/ x = Ends.out2)
      BY <2>2, BenchType DEF MadeAll, Lost, Leaky, Ends, PipeEnds, TwoEnds
    <3> QED
      BY <3>1, <3>2
  <2> QED
    BY <2>1, <2>2
<1> QED
  BY <1>4, <1>5

LEMMA SameCloses ==
  ASSUME NEW v \in Worker, FilesInv(v), LoopInv(v), Same(v), UNCHANGED bench
  PROVE  FilesInv(v)' /\ LoopInv(v)'
<1>1. MadeAll' = MadeAll /\ Lost' = Lost /\ Leaky' = Leaky /\ Alone' = Alone
  BY SameCalls
<1>2. /\ \A o : Left(v, o)' <=> Left(v, o)
      /\ \A o : Due(v, o)' = Due(v, o)
  BY DEF Same, Left, Due
<1> QED
  BY <1>1, <1>2 DEF FilesInv, LoopInv, InRound, Same

LEMMA InitCloses == Init => ClosesInv
<1> SUFFICES ASSUME Init, NEW w \in Worker PROVE FilesInv(w) /\ LoopInv(w)
  BY DEF ClosesInv
<1>1. once[w] = FALSE /\ cb[w] = "worker" /\ held[w] = {} /\ leaked[w] = 0
  BY DEF Init, StartRun
<1>2. loop[w].pc = "none"
  BY DEF Init, Off
<1> QED
  BY <1>1, <1>2 DEF FilesInv, LoopInv

LEMMA AdvanceCloses ==
  ASSUME PlanInv, NEW w \in Worker, FilesInv(w), LoopInv(w), Advance(w)
  PROVE  FilesInv(w)' /\ LoopInv(w)'
<1>1. bench \in Options /\ held' = held /\ leaked' = leaked /\ loop' = loop
  BY DEF PlanInv, TypeInv, Advance, files
<1>2. /\ Entered(w) /\ cb'[w] \in {"pre", "bench", "post", "fini", "done"}
      /\ cb'[w] # "pre" => once' = once
      /\ cb'[w] \in {"fini", "done"} => cb[w] \in {"worker", "post", "fini"} /\ todo[w] = <<>>
      /\ bench' = bench
  BY AdvanceEntered DEF Advance, choice
<1>3. MadeAll' = MadeAll /\ Lost' = Lost /\ Leaky' = Leaky /\ Alone' = Alone
  BY <1>2, SameCalls
<1>4. ASSUME todo[w] = <<>>
      PROVE  (\A o : ~Left(w, o)) /\ (\A o : Due(w, o) = {})
  BY <1>4, Empties DEF Left, Due
<1>5. CASE cb'[w] = "pre"
  <2>1. /\ cb[w] \in {"worker", "post"} /\ todo[w] = <<>> /\ once'[w]
        /\ Range(todo'[w]) = IF once[w] THEN PreCalls ELSE FirstCalls \cup PreCalls
    BY <1>2, <1>5 DEF Entered, Lists
  <2>2. held[w] \ {"lsn"} \subseteq Lost /\ (~once[w] => held[w] = {})
    BY <1>4, <2>1 DEF FilesInv
  <2>3. loop[w].pc \notin {"read", "write"}
    BY <1>4, <2>1 DEF LoopInv, InRound
  <2>4. /\ MadeAll \subseteq Due(w, "make")' /\ Due(w, "make")' \subseteq MadeAll \cup {"lsn"}
        /\ "lsn" \in Due(w, "make")' => ~once[w]
    BY <1>1, <2>1, MadeFacts DEF Due
  <2> QED
    BY <1>1, <1>3, <1>5, <2>1, <2>2, <2>3, <2>4 DEF FilesInv, LoopInv
<1>6. CASE cb'[w] = "bench"
  <2>1. cb[w] = "pre" /\ todo[w] = <<>> /\ Range(todo'[w]) = TripCalls /\ once' = once
    BY <1>2, <1>6 DEF Entered, Lists
  <2>2. held[w] \ {"lsn"} = MadeAll /\ once[w]
    BY <1>1, <1>4, <2>1, MadeFacts DEF FilesInv
  <2>3. ~Left(w, "spawn")'
    BY <2>1 DEF Left, TripCalls, Op
  <2> QED
    BY <1>1, <1>3, <1>6, <2>1, <2>2, <2>3 DEF FilesInv, LoopInv, InRound
<1>7. CASE cb'[w] = "post"
  <2>1. cb[w] = "bench" /\ todo[w] = <<>> /\ Range(todo'[w]) = PostCalls /\ once' = once
    BY <1>2, <1>7 DEF Entered, Lists
  <2>2. held[w] \ {"lsn"} = MadeAll /\ once[w]
    BY <2>1 DEF FilesInv
  <2>3. Due(w, "close")' = MadeAll \ Lost
    BY <1>1, <2>1, CloseFacts DEF Due
  <2>4. ~Left(w, "spawn")' /\ (~Alone => Left(w, "join")')
    <3>1. /\ \A c \in PostCalls : c.op # "spawn"
          /\ ~Alone => Op("join") \in PostCalls
      BY MakeFields DEF PostCalls, TripCalls, CloseCalls, UnlinkCalls
    <3> QED
      BY <2>1, <3>1, MakeFields DEF Left
  <2> QED
    BY <1>1, <1>3, <1>7, <2>1, <2>2, <2>3, <2>4, MadeFacts DEF FilesInv, LoopInv, InRound
<1>8. CASE cb'[w] \in {"fini", "done"}
  <2>1. cb[w] \in {"worker", "post", "fini"} /\ todo[w] = <<>> /\ once' = once
    BY <1>2, <1>8
  <2>2. loop[w].pc \notin {"read", "write"}
    BY <1>4, <2>1 DEF LoopInv, InRound
  <2> QED
    BY <1>1, <1>3, <1>8, <2>1, <2>2 DEF FilesInv, LoopInv
<1> QED
  BY <1>2, <1>5, <1>6, <1>7, <1>8

\* Calls that concern neither descriptors nor the loopback.
LEMMA DoneCloses ==
  ASSUME PlanInv, NEW w \in Worker, FilesInv(w), LoopInv(w),
         todo[w] # <<>>, Done(w), UNCHANGED bench,
         held'[w] = held[w], leaked'[w] = leaked[w], loop'[w] = loop[w],
         Head(todo[w]).op \notin {"make", "close", "spawn"},
         Head(todo[w]).op = "join" => loop[w].pc \notin {"read", "write"}
  PROVE  FilesInv(w)' /\ LoopInv(w)'
<1>1. MadeAll' = MadeAll /\ Lost' = Lost /\ Leaky' = Leaky /\ Alone' = Alone
  BY SameCalls
<1>2. cb' = cb /\ once' = once
  BY DEF Done
<1>3. /\ Due(w, "make")' = Due(w, "make") /\ Due(w, "close")' = Due(w, "close")
      /\ Left(w, "spawn")' <=> Left(w, "spawn")
      /\ Left(w, "join") => Left(w, "join")' \/ Head(todo[w]).op = "join"
  BY LessLeft
<1>4. FilesInv(w)'
  BY <1>1, <1>2, <1>3 DEF FilesInv
<1>5. LoopInv(w)'
  BY <1>1, <1>2, <1>3 DEF LoopInv, InRound
<1> QED
  BY <1>4, <1>5

LEMMA MakeCloses ==
  ASSUME PlanInv, NEW w \in Worker, FilesInv(w), LoopInv(w), MakeOne(w)
  PROVE  FilesInv(w)' /\ LoopInv(w)'
<1> DEFINE h == Head(todo[w])
           ds == Head(todo[w]).what
<1>1. /\ todo[w] # <<>> /\ Done(w) /\ h.op = "make" /\ bench' = bench
      /\ loop' = loop
  BY DEF MakeOne, Next1, choice
<1>2. /\ leaked'[w] = leaked[w] \/ leaked'[w] = leaked[w] + Cardinality(held[w] \cap ds)
      /\ held' = [held EXCEPT ![w] = held[w] \cup ds]
      /\ leaked' = [leaked EXCEPT ![w] = leaked[w] + Cardinality(held[w] \cap ds)]
  BY DEF MakeOne
<1>3. MadeAll' = MadeAll /\ Lost' = Lost /\ Leaky' = Leaky /\ Alone' = Alone
  BY <1>1, SameCalls
<1>4. cb' = cb /\ once' = once
  BY <1>1 DEF Done
<1>5. cb[w] = "pre" /\ ds \subseteq Desc
  BY <1>1, HeadCall, CallWhat DEF Making
<1>6. /\ Due(w, "make") = Due(w, "make")' \cup ds /\ Due(w, "make")' \cap ds = {}
      /\ Left(w, "spawn")' <=> Left(w, "spawn")
  BY <1>1, LessLeft
<1>7. held'[w] = held[w] \cup ds
  BY <1>2 DEF PlanInv, TypeInv
<1>8. once[w]
  BY <1>5 DEF FilesInv
<1>9. ~Leaky => leaked'[w] = 0
  <2>1. SUFFICES ASSUME ~Leaky PROVE leaked'[w] = 0
    OBVIOUS
  <2>2. Lost = {} /\ leaked[w] = 0
    BY <2>1, MadeFacts DEF FilesInv, PlanInv, TypeInv
  <2>3. held[w] \cap ds = {}
    BY <1>5, <1>6, <2>2 DEF FilesInv
  <2>4. Cardinality(held[w] \cap ds) = 0
    BY <2>3, FS_EmptySet
  <2> QED
    BY <1>2, <2>2, <2>4
<1>10. FilesInv(w)'
  <2>1. /\ Due(w, "make")' \subseteq MadeAll \cup {"lsn"}
        /\ "lsn" \in Due(w, "make")' => "lsn" \notin held'[w]
        /\ MadeAll \ Due(w, "make")' \subseteq held'[w]
        /\ held'[w] \ {"lsn"} \subseteq (MadeAll \ Due(w, "make")') \cup Lost
    BY <1>5, <1>6, <1>7 DEF FilesInv
  <2> QED
    BY <1>3, <1>4, <1>5, <1>8, <1>9, <2>1 DEF FilesInv
<1>11. LoopInv(w)'
  BY <1>1, <1>3, <1>4, <1>5, <1>6 DEF LoopInv, InRound
<1> QED
  BY <1>10, <1>11

LEMMA CloseCloses ==
  ASSUME PlanInv, NEW w \in Worker, FilesInv(w), LoopInv(w), CloseOne(w)
  PROVE  FilesInv(w)' /\ LoopInv(w)'
<1> DEFINE h == Head(todo[w])
           ds == Head(todo[w]).what
<1>1. /\ todo[w] # <<>> /\ Done(w) /\ h.op = "close" /\ bench' = bench
      /\ loop' = loop /\ leaked' = leaked
  BY DEF CloseOne, Next1, choice
<1>2. held'[w] = held[w] \ ds
  BY DEF CloseOne, PlanInv, TypeInv
<1>3. MadeAll' = MadeAll /\ Lost' = Lost /\ Leaky' = Leaky /\ Alone' = Alone
  BY <1>1, SameCalls
<1>4. cb' = cb /\ once' = once
  BY <1>1 DEF Done
<1>5. cb[w] = "post"
  BY <1>1, HeadCall, CallWhat
<1>6. /\ Due(w, "close") = Due(w, "close")' \cup ds /\ Due(w, "close")' \cap ds = {}
      /\ Left(w, "spawn")' <=> Left(w, "spawn")
      /\ Left(w, "join")' <=> Left(w, "join")
  BY <1>1, LessLeft
<1>7. FilesInv(w)'
  <2>1. /\ held'[w] \ {"lsn"} = Due(w, "close")' \cup Lost
        /\ Due(w, "close")' \cap Lost = {} /\ "lsn" \notin Due(w, "close")'
    BY <1>2, <1>5, <1>6 DEF FilesInv
  <2> QED
    BY <1>1, <1>3, <1>4, <1>5, <2>1 DEF FilesInv
<1>8. LoopInv(w)'
  BY <1>1, <1>3, <1>4, <1>6 DEF LoopInv, InRound
<1> QED
  BY <1>7, <1>8

LEMMA SpawnCloses ==
  ASSUME PlanInv, NEW w \in Worker, FilesInv(w), LoopInv(w),
         Spawn(w) \/ SpawnFails(w)
  PROVE  FilesInv(w)' /\ LoopInv(w)'
<1>1. /\ todo[w] # <<>> /\ Head(todo[w]).op = "spawn" /\ bench' = bench
      /\ held' = held /\ leaked' = leaked
  BY DEF Spawn, SpawnFails, Fails, Next1, choice, files
<1>2. MadeAll' = MadeAll /\ Lost' = Lost /\ Leaky' = Leaky /\ Alone' = Alone
  BY <1>1, SameCalls
<1>3. cb[w] = "pre" /\ ~Alone
  BY <1>1, HeadCall, CallWhat
<1>4. CASE Done(w)
  <2>1. cb' = cb /\ once' = once
    BY <1>4 DEF Done
  <2>2. Due(w, "make")' = Due(w, "make") /\ ~Left(w, "spawn")'
    BY <1>1, <1>4, LessLeft
  <2>3. FilesInv(w)'
    BY <1>1, <1>2, <1>3, <2>1, <2>2 DEF FilesInv
  <2>4. LoopInv(w)'
    BY <1>2, <1>3, <2>1, <2>2 DEF LoopInv, InRound
  <2> QED
    BY <2>3, <2>4
<1>5. CASE UNCHANGED place
  <2>1. SpawnFails(w) \/ Done(w)
    BY DEF Spawn
  <2>2. CASE SpawnFails(w)
    <3>1. loop'[w].pc = "none"
      BY <2>2 DEF SpawnFails, PlanInv, TypeInv, Off
    <3>2. UNCHANGED <<cb, todo, once>>
      BY <1>5 DEF place
    <3>3. FilesInv(w)'
      BY <1>1, <1>2, <3>2 DEF FilesInv, Due
    <3>4. LoopInv(w)'
      BY <3>1 DEF LoopInv
    <3> QED
      BY <3>3, <3>4
  <2> QED
    BY <1>4, <2>1, <2>2
<1> QED
  BY <1>4, <1>5 DEF Spawn, SpawnFails, Fails

LEMMA StayCloses ==
  ASSUME NEW w \in Worker, FilesInv(w), LoopInv(w), UNCHANGED <<bench, place, held, leaked>>,
         loop'[w].pc \in {"read", "write"} => loop[w].pc \in {"read", "write"}
  PROVE  FilesInv(w)' /\ LoopInv(w)'
<1>1. MadeAll' = MadeAll /\ Lost' = Lost /\ Leaky' = Leaky /\ Alone' = Alone
  BY SameCalls
<1>2. /\ \A o : Left(w, o)' <=> Left(w, o)
      /\ \A o : Due(w, o)' = Due(w, o)
  BY DEF place, Left, Due
<1> QED
  BY <1>1, <1>2 DEF FilesInv, LoopInv, InRound, place

LEMMA NextCloses == PlanInv /\ ClosesInv /\ [Next]_vars => ClosesInv'
<1> SUFFICES ASSUME PlanInv, ClosesInv, [Next]_vars PROVE ClosesInv'
  OBVIOUS
<1>1. bench' = bench
  BY NextPlace
<1>2. \A v \in Worker : Same(v) => FilesInv(v)' /\ LoopInv(v)'
  BY <1>1, SameCloses DEF ClosesInv
<1>3. ASSUME NEW w \in Worker,
             \/ MakeOne(w) \/ MakeFails(w) \/ BindPort(w) \/ StartListening(w)
             \/ ListenFails(w) \/ Connect(w) \/ Spawn(w) \/ SpawnFails(w)
             \/ Write(w) \/ Read(w) \/ ReadFails(w) \/ Join(w) \/ CloseOne(w)
             \/ UnlinkOne(w) \/ LoopRead(w) \/ LoopWrite(w) \/ LoopFails(w)
             \/ Advance(w) \/ Stop(w)
      PROVE  FilesInv(w)' /\ LoopInv(w)'
  <2>0. FilesInv(w) /\ LoopInv(w)
    BY DEF ClosesInv
  <2>1. CASE MakeFails(w) \/ ListenFails(w) \/ ReadFails(w) \/ Stop(w)
    <3>1. UNCHANGED <<place, held, leaked, loop>>
      BY <2>1 DEF MakeFails, ListenFails, ReadFails, Stop, Halt, Fails, files
    <3> QED
      BY <1>1, <2>0, <3>1, StayCloses
  <2>2. CASE BindPort(w) \/ StartListening(w) \/ Connect(w) \/ Join(w)
    <3>1. /\ todo[w] # <<>> /\ Done(w) /\ UNCHANGED <<held, leaked, loop>>
          /\ Head(todo[w]).op \notin {"make", "close", "spawn"}
          /\ Head(todo[w]).op = "join" => loop[w].pc \notin {"read", "write"}
      BY <2>2 DEF BindPort, StartListening, Connect, Join, Next1, files
    <3> QED
      BY <1>1, <2>0, <3>1, DoneCloses
  <2>3. CASE Write(w) \/ Read(w)
    <3>1. /\ todo[w] # <<>> /\ UNCHANGED <<held, leaked, loop>>
          /\ Head(todo[w]).op \in {"write", "read"}
          /\ Done(w) \/ UNCHANGED place
      BY <2>3 DEF Write, Read, Next1, files
    <3> QED
      BY <1>1, <2>0, <3>1, DoneCloses, StayCloses
  <2>4. CASE UnlinkOne(w)
    <3>1. /\ todo[w] # <<>> /\ UNCHANGED <<held, leaked, loop>>
          /\ Head(todo[w]).op = "unlink"
          /\ Done(w) \/ UNCHANGED place
      BY <2>4 DEF UnlinkOne, Fails, Next1, files
    <3> QED
      BY <1>1, <2>0, <3>1, DoneCloses, StayCloses
  <2>5. CASE LoopRead(w) \/ LoopWrite(w)
    <3>1. UNCHANGED <<place, held, leaked>> /\ loop[w].pc \in {"read", "write"}
      BY <2>5 DEF LoopRead, LoopWrite, files
    <3> QED
      BY <1>1, <2>0, <3>1, StayCloses
  <2>6. CASE LoopFails(w)
    <3>1. UNCHANGED <<place, held, leaked>> /\ loop[w].pc \in {"read", "write"}
      BY <2>6 DEF LoopFails, Fails, files
    <3> QED
      BY <1>1, <2>0, <3>1, StayCloses
  <2> QED
    BY <1>3, <2>0, <2>1, <2>2, <2>3, <2>4, <2>5, <2>6, MakeCloses, CloseCloses,
       SpawnCloses, AdvanceCloses
<1>4. \A v \in Worker : FilesInv(v)' /\ LoopInv(v)'
  BY <1>2, <1>3, OneActor
<1> QED
  BY <1>4 DEF ClosesInv

LEMMA ClosesRound ==
  ASSUME PlanInv, ClosesInv
  PROVE  RoundCloses
<1> SUFFICES ASSUME NEW w \in Worker
             PROVE  /\ Next1(w, {"close"}) => Head(todo[w]).what \subseteq held[w]
                    /\ Idle(w) /\ cb[w] \in {"worker", "post"} =>
                         /\ loop[w].pc \notin {"read", "write"}
                         /\ IF Alone /\ Xport \in {"sock", "tcp"}
                              THEN Cardinality(held[w] \ {"lsn"}) <= 1
                              ELSE held[w] \subseteq {"lsn"} /\ leaked[w] = 0
  BY DEF RoundCloses
<1>0. FilesInv(w) /\ LoopInv(w) /\ bench \in Options
  BY DEF ClosesInv, PlanInv, TypeInv
<1>1. Next1(w, {"close"}) => Head(todo[w]).what \subseteq held[w]
  <2>1. SUFFICES ASSUME Next1(w, {"close"}) PROVE Head(todo[w]).what \subseteq held[w]
    OBVIOUS
  <2>2. Head(todo[w]) \in Range(todo[w]) /\ Head(todo[w]).op = "close"
    BY <2>1, HeadCall DEF Next1
  <2>3. Head(todo[w]).what \subseteq Due(w, "close") /\ cb[w] = "post"
    BY <2>2, CallWhat DEF Due
  <2> QED
    BY <1>0, <2>3 DEF FilesInv
<1>2. ASSUME Idle(w), cb[w] \in {"worker", "post"}
      PROVE  /\ loop[w].pc \notin {"read", "write"}
             /\ IF Alone /\ Xport \in {"sock", "tcp"}
                  THEN Cardinality(held[w] \ {"lsn"}) <= 1
                  ELSE held[w] \subseteq {"lsn"} /\ leaked[w] = 0
  <2>1. todo[w] = <<>> /\ Due(w, "close") = {} /\ ~Left(w, "join")
    BY <1>2, Empties DEF Idle, Due, Left
  <2>2. loop[w].pc \notin {"read", "write"}
    BY <1>0, <1>2, <2>1 DEF LoopInv, InRound
  <2>3. held[w] \ {"lsn"} \in {{}, Lost}
    BY <1>0, <1>2, <2>1 DEF FilesInv
  <2>4. CASE Leaky
    <3>1. \E x : Lost = {x}
      BY <2>4 DEF Lost
    <3>2. Cardinality(held[w] \ {"lsn"}) \in {0, 1}
      BY <2>3, <3>1, FS_EmptySet, FS_Singleton
    <3> QED
      BY <2>2, <2>4, <3>2 DEF Leaky
  <2>5. CASE ~Leaky
    <3>1. Lost = {} /\ leaked[w] = 0
      BY <1>0, <2>5, MadeFacts DEF FilesInv
    <3> QED
      BY <2>2, <2>3, <2>5, <3>1 DEF Leaky
  <2> QED
    BY <2>4, <2>5
<1> QED
  BY <1>1, <1>2

(***************************************************************************)
(* A round of the pipe benchmark closes each descriptor it made once and   *)
(* leaves no loopback behind, for every mode and transport; with -m st     *)
(* over sockets one end, and no more, is left open (close_conns).          *)
(***************************************************************************)
THEOREM PipeCloses == Spec => []RoundCloses
<1>1. Init => PlanInv /\ ClosesInv
  BY InitPlan, InitCloses
<1>2. PlanInv /\ ClosesInv /\ [Next]_vars => (PlanInv /\ ClosesInv)'
  BY NextPlan, NextCloses
<1>3. PlanInv /\ ClosesInv => RoundCloses
  BY ClosesRound
<1> QED
  BY <1>1, <1>2, <1>3, PTL DEF Spec

(***************************************************************************)
(* Facts about whole buffers.                                              *)
(***************************************************************************)
LEMMA OneMore ==
  ASSUME NEW s \in Nat, NEW a \in Int
  PROVE  s * a \in Int /\ s * (a + 1) = s * a + s
  OBVIOUS

LEMMA WholeBelow ==
  ASSUME NEW s \in Nat, NEW a \in Int, NEW b \in Int, NEW r \in Int,
         r < s, s * a <= s * b + r
  PROVE  a <= b
<1> SUFFICES ASSUME ~(a <= b) PROVE FALSE
  OBVIOUS
<1>1. PICK d \in Nat : a = b + 1 + d
  <2>1. a - (b + 1) \in Nat /\ a = b + 1 + (a - (b + 1))
    OBVIOUS
  <2> QED
    BY <2>1
<1>2. s * a = s * (b + 1) + s * d /\ s * d \in Nat
  BY <1>1
<1>3. s * (b + 1) = s * b + s /\ s * b \in Int
  BY OneMore
<1> QED
  BY <1>2, <1>3

\* The worker and its loopback use the two channels crosswise.
LEMMA Crosswise ==
  ASSUME bench \in Options, ~Alone
  PROVE  /\ ReadSide(Ends.in2) = WriteSide(Ends.out)
         /\ WriteSide(Ends.out2) = ReadSide(Ends.in)
         /\ WriteSide(Ends.out) # ReadSide(Ends.in)
<1>1. CASE Xport = "pipe"
  BY <1>1 DEF Ends, PipeEnds, ReadSide, WriteSide
<1>2. CASE Xport = "fifo"
  BY <1>2 DEF Ends, ReadSide, WriteSide
<1>3. CASE Xport \in {"sock", "tcp"}
  BY <1>3 DEF Ends, ReadSide, WriteSide
<1> QED
  BY <1>1, <1>2, <1>3, BenchType

\* What benchmark_pre makes is all there is to be empty.
LEMMA MadeSides ==
  ASSUME bench \in Options
  PROVE  \A c \in {"x", "y"} : \E d \in MadeAll \ {"lsn"} : WriteSide(d) = c
<1>1. /\ WriteSide("p0") = "y" /\ WriteSide("p1") = "x"
      /\ WriteSide("a0") = "y" /\ WriteSide("a1") = "x"
      /\ WriteSide("s0") = "x" /\ WriteSide("s1") = "y"
      /\ WriteSide("cli") = "x" /\ WriteSide("acc") = "y"
  BY DEF WriteSide
<1>2. /\ Xport = "pipe" => "p0" \in MadeAll /\ "p1" \in MadeAll
      /\ Xport = "fifo" => "a0" \in MadeAll /\ "a1" \in MadeAll
      /\ Xport = "sock" => "s0" \in MadeAll /\ "s1" \in MadeAll
      /\ Xport = "tcp" => "cli" \in MadeAll /\ "acc" \in MadeAll
  BY DEF MadeAll
<1>3. Xport \in {"pipe", "fifo", "sock", "tcp"}
  BY BenchType
<1> QED
  BY <1>1, <1>2, <1>3

\* A worker that reads or writes has made its loopback, or goes without.
LEMMA MovingWorker ==
  ASSUME PlanInv, NEW w \in Worker, todo[w] # <<>>,
         Head(todo[w]).op \in {"write", "read"}
  PROVE  /\ InRound(w) /\ ~Left(w, "spawn")
         /\ Head(todo[w]).op = "read" => ~Left(w, "write") /\ Left(w, "read")
         /\ Head(todo[w]).op = "write" => Left(w, "write") /\ Left(w, "read")
<1> DEFINE h == Head(todo[w])
<1>1. /\ h \in Range(todo[w]) /\ Range(todo[w]) = {h} \cup Range(Tail(todo[w]))
      /\ \A b \in Range(Tail(todo[w])) : Before(h, b)
  BY PlanSeq, ListsTail
<1>2. cb[w] \in {"pre", "bench", "post"}
  BY <1>1, CallWhat
<1>3. ~Left(w, "spawn") /\ (h.op = "read" => ~Left(w, "write"))
  BY <1>1 DEF Left, Before
<1>4. Left(w, h.op)
  BY <1>1 DEF Left
<1>5. Left(w, "write") => Left(w, "read")
  BY <1>2 DEF PlanInv, ScriptInv
<1> QED
  BY <1>2, <1>3, <1>4, <1>5 DEF InRound

LEMMA FlightType ==
  ASSUME PlanInv, NEW w \in Worker
  PROVE  /\ Size \in Nat /\ sent[w] \in Nat /\ got[w] \in Nat
         /\ loop[w] \in LoopState /\ loop[w].n \in Nat /\ loop[w].served \in Nat
         /\ \A c \in {"x", "y"} : chan[w][c] \in Nat
         /\ TripsBefore(w) \in 0..2 /\ Writes(w) \in 0..3 /\ Reads(w) \in 0..3
<1>1. TripsBefore(w) \in 0..2
  BY DEF TripsBefore
<1>2. Writes(w) \in 0..3 /\ Reads(w) \in 0..3
  BY <1>1 DEF Writes, Reads
<1> QED
  BY <1>1, <1>2, BenchType DEF PlanInv, TypeInv, LoopState

LEMMA UnitsType ==
  ASSUME PlanInv, NEW w \in Worker
  PROVE  Asks(w) \in Int /\ Answers(w) \in Int /\ Heard(w) \in Int /\ Echoed(w) \in Int
<1>1. /\ Size \in Nat /\ sent[w] \in Nat /\ got[w] \in Nat
      /\ loop[w].n \in Nat /\ loop[w].served \in Nat
      /\ Writes(w) \in Int /\ Reads(w) \in Int
  BY FlightType
<1>2. /\ Size * Writes(w) \in Int /\ Size * Reads(w) \in Int
      /\ Size * loop[w].served \in Int /\ Size * (loop[w].served - 1) \in Int
  BY <1>1, OneMore
<1> QED
  BY <1>1, <1>2 DEF Asks, Answers, Heard, Echoed

LEMMA SameEcho ==
  ASSUME NEW v \in Worker, EchoOf(v), Same(v), UNCHANGED bench
  PROVE  EchoOf(v)'
<1>1. Alone' = Alone /\ Size' = Size /\ Ends' = Ends
  BY SameCalls
<1>2. /\ \A o : Left(v, o)' <=> Left(v, o)
      /\ Due(v, "make")' = Due(v, "make")
  BY DEF Same, Left, Due
<1>3. TripsBefore(v)' = TripsBefore(v) /\ (InRound(v)' <=> InRound(v))
  BY DEF Same, TripsBefore, InRound
<1>4. Writes(v)' = Writes(v) /\ Reads(v)' = Reads(v)
  BY <1>2, <1>3 DEF Writes, Reads
<1>5. MovesInv(v)'
  BY <1>1 DEF EchoOf, MovesInv, Same
<1>6. FreshInv(v)'
  BY <1>2 DEF EchoOf, FreshInv, Same
<1>7. FlightInv(v)'
  BY <1>1, <1>2, <1>3, <1>4
  DEF EchoOf, FlightInv, Balance, Asks, Answers, Heard, Echoed, Same
<1> QED
  BY <1>5, <1>6, <1>7 DEF EchoOf

LEMMA InitEcho == Init => EchoInv
<1> SUFFICES ASSUME Init, NEW w \in Worker PROVE EchoOf(w)
  BY DEF EchoInv
<1>1. cb[w] = "worker" /\ sent[w] = 0 /\ got[w] = 0
  BY DEF Init
<1> QED
  BY <1>1 DEF EchoOf, MovesInv, FreshInv, FlightInv, InRound

\* Calls that move no data.
LEMMA DoneEcho ==
  ASSUME PlanInv, NEW w \in Worker, EchoOf(w), todo[w] # <<>>, Done(w),
         UNCHANGED bench, chan'[w] = chan[w], sent'[w] = sent[w], got'[w] = got[w],
         loop'[w] = loop[w],
         Head(todo[w]).op \notin {"make", "spawn", "write", "read"}
  PROVE  EchoOf(w)'
<1>1. Alone' = Alone /\ Size' = Size /\ Ends' = Ends
  BY SameCalls
<1>2. cb' = cb
  BY DEF Done
<1>3. /\ Left(w, "spawn")' <=> Left(w, "spawn")
      /\ Left(w, "write")' <=> Left(w, "write")
      /\ Left(w, "read")' <=> Left(w, "read")
      /\ Due(w, "make")' = Due(w, "make")
  BY LessLeft
<1>4. TripsBefore(w)' = TripsBefore(w) /\ (InRound(w)' <=> InRound(w))
  BY <1>2 DEF TripsBefore, InRound
<1>5. Writes(w)' = Writes(w) /\ Reads(w)' = Reads(w)
  BY <1>3, <1>4 DEF Writes, Reads
<1>6. MovesInv(w)'
  BY DEF EchoOf, MovesInv
<1>7. FreshInv(w)'
  BY <1>2, <1>3 DEF EchoOf, FreshInv
<1>8. FlightInv(w)'
  BY <1>1, <1>3, <1>4, <1>5
  DEF EchoOf, FlightInv, Balance, Asks, Answers, Heard, Echoed
<1> QED
  BY <1>6, <1>7, <1>8 DEF EchoOf

LEMMA MakeEcho ==
  ASSUME PlanInv, NEW w \in Worker, EchoOf(w), MakeOne(w)
  PROVE  EchoOf(w)'
<1> DEFINE h == Head(todo[w])
           ds == Head(todo[w]).what
           fresh == {WriteSide(d) : d \in ds \ {"lsn"}}
<1>1. /\ todo[w] # <<>> /\ Done(w) /\ h.op = "make" /\ bench' = bench
      /\ UNCHANGED <<sent, got, loop>>
      /\ chan' = [chan EXCEPT ![w] =
                    [c \in {"x", "y"} |-> IF c \in fresh THEN 0 ELSE chan[w][c]]]
  BY DEF MakeOne, Next1, choice
<1>2. cb' = cb /\ Alone' = Alone
  BY <1>1, SameCalls DEF Done
<1>3. cb[w] = "pre" /\ (~Alone => Left(w, "spawn"))
  <2>1. h \in Range(todo[w])
    BY <1>1, HeadCall
  <2>2. cb[w] = "pre"
    BY <1>1, <2>1, CallWhat DEF Making
  <2>3. "make" \in Making /\ Left(w, "make")
    BY <1>1, <2>1 DEF Left, Making
  <2> QED
    BY <2>2, <2>3 DEF PlanInv, ScriptInv
<1>4. /\ Left(w, "spawn")' <=> Left(w, "spawn")
      /\ Due(w, "make") = Due(w, "make")' \cup ds
  BY <1>1, LessLeft
<1>5. \A c \in {"x", "y"} : chan'[w][c] = IF c \in fresh THEN 0 ELSE chan[w][c]
  BY <1>1 DEF PlanInv, TypeInv
<1>6. MovesInv(w)'
  BY <1>1 DEF EchoOf, MovesInv
<1>7. FreshInv(w)'
  BY <1>2, <1>3, <1>4, <1>5 DEF EchoOf, FreshInv
<1>8. FlightInv(w)'
  BY <1>2, <1>3, <1>4 DEF FlightInv
<1> QED
  BY <1>6, <1>7, <1>8 DEF EchoOf

LEMMA SpawnEcho ==
  ASSUME PlanInv, NEW w \in Worker, EchoOf(w), Spawn(w) \/ SpawnFails(w)
  PROVE  EchoOf(w)'
<1>1. /\ todo[w] # <<>> /\ Head(todo[w]).op = "spawn" /\ bench' = bench
      /\ UNCHANGED <<chan, sent, got>>
      /\ loop'[w].n = 0 /\ loop'[w].served = 0 /\ loop'[w].pc # "write"
  BY DEF Spawn, SpawnFails, Fails, Next1, choice, data, Off, PlanInv, TypeInv
<1>2. Alone' = Alone /\ Size' = Size /\ Ends' = Ends
  BY <1>1, SameCalls
<1>3. cb[w] = "pre" /\ Left(w, "spawn")
  BY <1>1, HeadCall, CallWhat DEF Left
<1>4. CASE Done(w)
  <2>1. cb' = cb
    BY <1>4 DEF Done
  <2>2. /\ ~Left(w, "spawn")' /\ Due(w, "make")' = Due(w, "make")
        /\ Left(w, "write")' <=> Left(w, "write")
        /\ Left(w, "read")' <=> Left(w, "read")
    BY <1>1, <1>4, LessLeft
  <2>3. Left(w, "write") /\ Left(w, "read")
    BY <1>3 DEF PlanInv, ScriptInv
  <2>4. Writes(w)' = 0 /\ Reads(w)' = 0
    BY <1>3, <2>1, <2>2, <2>3 DEF Writes, Reads, TripsBefore
  <2>5. sent[w] = 0 /\ got[w] = 0
    BY <1>1 DEF EchoOf, MovesInv
  <2>6. Due(w, "make") = {}
    <3>1. ASSUME NEW c \in Range(todo[w]), c.op = "make" PROVE FALSE
      <4>1. c # Head(todo[w]) /\ c \in Range(Tail(todo[w]))
        BY <1>1, <3>1, PlanSeq, ListsTail
      <4>2. Before(Head(todo[w]), c)
        BY <1>1, <4>1, PlanSeq, ListsTail
      <4> QED
        BY <1>1, <3>1, <4>2 DEF Before
    <3> QED
      BY <3>1 DEF Due
  <2>7. \A c \in {"x", "y"} : chan[w][c] = 0
    BY <1>3, <2>6 DEF EchoOf, FreshInv
  <2>8. Balance(w)'
    <3>1. Size \in Nat /\ Size * 0 = 0
      BY FlightType
    <3> QED
      BY <1>1, <1>2, <2>4, <2>5, <2>7, <3>1, Sides
      DEF Balance, Asks, Answers, Heard, Echoed
  <2> QED
    BY <1>1, <2>2, <2>5, <2>8 DEF EchoOf, MovesInv, FreshInv, FlightInv
<1>5. CASE UNCHANGED place
  <2>1. MovesInv(w)'
    BY <1>1, <1>2, <1>5 DEF EchoOf, MovesInv, place
  <2>2. Left(w, "spawn")' /\ Due(w, "make")' = Due(w, "make") /\ cb' = cb
    BY <1>3, <1>5 DEF Left, Due, place
  <2>3. FreshInv(w)'
    BY <1>1, <1>3, <2>2 DEF EchoOf, FreshInv
  <2> QED
    BY <2>1, <2>2, <2>3 DEF EchoOf, FlightInv
<1> QED
  BY <1>4, <1>5 DEF Spawn, SpawnFails, Fails

\* Put and Take change one channel of one worker.
LEMMA Moved ==
  ASSUME PlanInv, NEW w \in Worker, NEW c \in {"x", "y"}, NEW k \in Nat
  PROVE  /\ Put(w, c, k) => chan'[w][c] = chan[w][c] + k
         /\ Take(w, c, k) => chan'[w][c] = chan[w][c] - k
         /\ Put(w, c, k) \/ Take(w, c, k) =>
              \A d \in {"x", "y"} \ {c} : chan'[w][d] = chan[w][d]
  BY DEF Put, Take, PlanInv, TypeInv

\* A write() of a part, or of the rest, of the buffer.
LEMMA WriteFacts ==
  ASSUME PlanInv, NEW w \in Worker, EchoOf(w), Write(w)
  PROVE  /\ InRound(w) /\ ~Left(w, "spawn") /\ ~Left(w, "spawn")'
         /\ cb' = cb /\ got' = got /\ loop' = loop /\ bench' = bench
         /\ got[w] = 0 /\ Left(w, "write") /\ Left(w, "read") /\ Left(w, "read")'
         /\ \E k \in Nat :
              /\ Put(w, WriteSide(Ends.out), k)
              /\ \/ sent[w] + k = Size /\ sent'[w] = 0 /\ ~Left(w, "write")'
                 \/ /\ k > 0 /\ sent[w] + k < Size /\ sent'[w] = sent[w] + k
                    /\ Left(w, "write")'
                    /\ todo'[w] = todo[w]
<1>1. /\ todo[w] # <<>> /\ Head(todo[w]).op = "write"
      /\ got' = got /\ loop' = loop /\ bench' = bench
  BY DEF Write, Next1, choice
<1>2. InRound(w) /\ ~Left(w, "spawn") /\ Left(w, "write") /\ Left(w, "read") /\ got[w] = 0
  BY <1>1, MovingWorker DEF EchoOf, MovesInv
<1>3. PICK k \in Nat :
        /\ k <= Size - sent[w] /\ Put(w, WriteSide(Ends.out), k)
        /\ k > 0 \/ Size = 0
        /\ IF sent[w] + k = Size
             THEN sent' = [sent EXCEPT ![w] = 0] /\ Done(w)
             ELSE sent' = [sent EXCEPT ![w] = sent[w] + k] /\ UNCHANGED place
  BY WriteType DEF PlanInv
<1>4. Size \in Nat /\ sent[w] \in Nat /\ sent \in [Worker -> Nat]
  BY FlightType DEF PlanInv, TypeInv
<1>5. CASE sent[w] + k = Size
  <2>1. Done(w) /\ sent'[w] = 0
    BY <1>3, <1>4, <1>5
  <2>2. ~Left(w, "write")' /\ ~Left(w, "spawn")' /\ Left(w, "read")' /\ cb' = cb
    BY <1>1, <1>2, <2>1, LessLeft DEF Done
  <2> QED
    BY <1>1, <1>2, <1>3, <1>5, <2>1, <2>2
<1>6. CASE sent[w] + k # Size
  <2>1. cb' = cb /\ todo' = todo /\ sent'[w] = sent[w] + k
    BY <1>3, <1>4, <1>6 DEF place
  <2>2. sent[w] + k < Size /\ k > 0
    BY <1>3, <1>4, <1>6
  <2>3. \A o : Left(w, o)' <=> Left(w, o)
    BY <2>1 DEF Left
  <2> QED
    BY <1>1, <1>2, <1>3, <2>1, <2>2, <2>3
<1> QED
  BY <1>5, <1>6

LEMMA WriteEcho ==
  ASSUME PlanInv, NEW w \in Worker, EchoOf(w), Write(w)
  PROVE  EchoOf(w)'
<1> DEFINE c == WriteSide(Ends.out)
<1>1. /\ InRound(w) /\ ~Left(w, "spawn") /\ ~Left(w, "spawn")'
      /\ cb' = cb /\ got' = got /\ loop' = loop /\ bench' = bench
      /\ got[w] = 0 /\ Left(w, "write") /\ Left(w, "read") /\ Left(w, "read")'
  BY WriteFacts
<1>2. PICK k \in Nat :
        /\ Put(w, c, k)
        /\ \/ sent[w] + k = Size /\ sent'[w] = 0 /\ ~Left(w, "write")'
           \/ /\ k > 0 /\ sent[w] + k < Size /\ sent'[w] = sent[w] + k
              /\ Left(w, "write")'
              /\ todo'[w] = todo[w]
  BY WriteFacts
<1>3. Alone' = Alone /\ Size' = Size /\ Ends' = Ends
  BY <1>1, SameCalls
<1>4. todo[w] # <<>> /\ Head(todo[w]).op = "write"
  BY DEF Write, Next1
<1>5. MovesInv(w)'
  BY <1>1, <1>2, <1>3, <1>4 DEF MovesInv
<1>6. FreshInv(w)'
  BY <1>1 DEF FreshInv
<1>7. ASSUME ~Alone PROVE Balance(w)'
  <2>1. /\ Size \in Nat /\ sent[w] \in Nat /\ loop[w].n \in Nat /\ loop[w].served \in Nat
        /\ \A d \in {"x", "y"} : chan[w][d] \in Nat
        /\ TripsBefore(w) \in 0..2 /\ Writes(w) \in 0..3
    BY FlightType
  <2>2. Balance(w)
    BY <1>1, <1>7 DEF EchoOf, FlightInv
  <2>3. /\ chan'[w][c] = chan[w][c] + k
        /\ chan'[w][ReadSide(Ends.in)] = chan[w][ReadSide(Ends.in)]
    BY <1>2, <1>7, Sides, Crosswise, Moved DEF PlanInv, TypeInv
  <2>4. TripsBefore(w)' = TripsBefore(w) /\ Reads(w)' = Reads(w)
    BY <1>1 DEF TripsBefore, Reads
  <2>5. Asks(w)' = Asks(w) + k
    <3>1. Asks(w) = Size * TripsBefore(w) + sent[w]
      BY <1>1, <2>1 DEF Asks, Writes
    <3>2. /\ Size * (TripsBefore(w) + 1) = Size * TripsBefore(w) + Size
          /\ Size * TripsBefore(w) \in Int
      BY <2>1, OneMore
    <3>3. CASE sent[w] + k = Size /\ sent'[w] = 0 /\ ~Left(w, "write")'
      <4>1. Asks(w)' = Size * (TripsBefore(w) + 1) + 0
        BY <1>3, <2>4, <3>3 DEF Asks, Writes
      <4> QED
        BY <2>1, <3>1, <3>2, <3>3, <4>1
    <3>4. CASE sent[w] + k < Size /\ sent'[w] = sent[w] + k /\ Left(w, "write")'
      <4>1. Asks(w)' = Size * TripsBefore(w) + (sent[w] + k)
        BY <1>3, <2>1, <2>4, <3>4 DEF Asks, Writes
      <4> QED
        BY <2>1, <3>1, <3>2, <4>1
    <3> QED
      BY <1>2, <3>3, <3>4
  <2>6. Heard(w)' = Heard(w) /\ Echoed(w)' = Echoed(w) /\ Answers(w)' = Answers(w)
    BY <1>1, <1>3, <2>4 DEF Heard, Echoed, Answers
  <2>7. Asks(w) \in Int /\ Heard(w) \in Int
    BY UnitsType
  <2> QED
    BY <1>1, <1>3, <2>2, <2>3, <2>5, <2>6, <2>7 DEF Balance
<1> QED
  BY <1>3, <1>5, <1>6, <1>7 DEF EchoOf, FlightInv

\* A readall() of a part, or of the rest, of the buffer.
LEMMA ReadFacts ==
  ASSUME PlanInv, NEW w \in Worker, EchoOf(w), Read(w)
  PROVE  /\ InRound(w) /\ ~Left(w, "spawn") /\ ~Left(w, "spawn")'
         /\ cb' = cb /\ sent' = sent /\ loop' = loop /\ bench' = bench
         /\ sent[w] = 0 /\ ~Left(w, "write") /\ ~Left(w, "write")' /\ Left(w, "read")
         /\ \E k \in Nat :
              /\ k >= 1 /\ k <= chan[w][ReadSide(Ends.in)]
              /\ Take(w, ReadSide(Ends.in), k)
              /\ \/ got[w] + k = Size /\ got'[w] = 0 /\ ~Left(w, "read")'
                 \/ /\ got[w] + k < Size /\ got'[w] = got[w] + k
                    /\ Left(w, "read")'
                    /\ todo'[w] = todo[w]
<1>1. /\ todo[w] # <<>> /\ Head(todo[w]).op = "read"
      /\ sent' = sent /\ loop' = loop /\ bench' = bench
  BY DEF Read, Next1, choice
<1>2. InRound(w) /\ ~Left(w, "spawn") /\ ~Left(w, "write") /\ Left(w, "read") /\ sent[w] = 0
  BY <1>1, MovingWorker DEF EchoOf, MovesInv
<1>3. PICK k \in Nat :
        /\ k >= 1 /\ k <= Size - got[w] /\ k <= chan[w][ReadSide(Ends.in)]
        /\ Take(w, ReadSide(Ends.in), k)
        /\ IF got[w] + k = Size
             THEN got' = [got EXCEPT ![w] = 0] /\ Done(w)
             ELSE got' = [got EXCEPT ![w] = got[w] + k] /\ UNCHANGED place
  BY ReadType DEF PlanInv
<1>4. Size \in Nat /\ got[w] \in Nat /\ got \in [Worker -> Nat]
  BY FlightType DEF PlanInv, TypeInv
<1>5. CASE got[w] + k = Size
  <2>1. Done(w) /\ got'[w] = 0
    BY <1>3, <1>4, <1>5
  <2>2. ~Left(w, "read")' /\ ~Left(w, "spawn")' /\ ~Left(w, "write")' /\ cb' = cb
    BY <1>1, <1>2, <2>1, LessLeft DEF Done
  <2> QED
    BY <1>1, <1>2, <1>3, <1>5, <2>1, <2>2
<1>6. CASE got[w] + k # Size
  <2>1. cb' = cb /\ todo' = todo /\ got'[w] = got[w] + k
    BY <1>3, <1>4, <1>6 DEF place
  <2>2. got[w] + k < Size
    BY <1>3, <1>4, <1>6
  <2>3. \A o : Left(w, o)' <=> Left(w, o)
    BY <2>1 DEF Left
  <2> QED
    BY <1>1, <1>2, <1>3, <2>1, <2>2, <2>3
<1> QED
  BY <1>5, <1>6

LEMMA ReadEcho ==
  ASSUME PlanInv, NEW w \in Worker, EchoOf(w), Read(w)
  PROVE  EchoOf(w)'
<1> DEFINE c == ReadSide(Ends.in)
<1>1. /\ InRound(w) /\ ~Left(w, "spawn") /\ ~Left(w, "spawn")'
      /\ cb' = cb /\ sent' = sent /\ loop' = loop /\ bench' = bench
      /\ sent[w] = 0 /\ ~Left(w, "write") /\ ~Left(w, "write")' /\ Left(w, "read")
  BY ReadFacts
<1>2. PICK k \in Nat :
        /\ k >= 1 /\ k <= chan[w][c]
        /\ Take(w, c, k)
        /\ \/ got[w] + k = Size /\ got'[w] = 0 /\ ~Left(w, "read")'
           \/ /\ got[w] + k < Size /\ got'[w] = got[w] + k
              /\ Left(w, "read")'
              /\ todo'[w] = todo[w]
  BY ReadFacts
<1>3. Alone' = Alone /\ Size' = Size /\ Ends' = Ends
  BY <1>1, SameCalls
<1>4. todo[w] # <<>> /\ Head(todo[w]).op = "read"
  BY DEF Read, Next1
<1>5. MovesInv(w)'
  BY <1>1, <1>2, <1>3, <1>4 DEF MovesInv
<1>6. FreshInv(w)'
  BY <1>1 DEF FreshInv
<1>7. ASSUME ~Alone PROVE Balance(w)'
  <2>1. /\ Size \in Nat /\ got[w] \in Nat
        /\ \A d \in {"x", "y"} : chan[w][d] \in Nat
        /\ TripsBefore(w) \in 0..2
    BY FlightType
  <2>2. Balance(w)
    BY <1>1, <1>7 DEF EchoOf, FlightInv
  <2>3. /\ chan'[w][c] = chan[w][c] - k
        /\ chan'[w][WriteSide(Ends.out)] = chan[w][WriteSide(Ends.out)]
    BY <1>2, <1>7, Sides, Crosswise, Moved DEF PlanInv, TypeInv
  <2>4. TripsBefore(w)' = TripsBefore(w) /\ Writes(w)' = Writes(w)
    BY <1>1 DEF TripsBefore, Writes
  <2>5. Answers(w)' = Answers(w) + k
    <3>1. Answers(w) = Size * TripsBefore(w) + got[w]
      BY <1>1, <2>1 DEF Answers, Reads
    <3>2. /\ Size * (TripsBefore(w) + 1) = Size * TripsBefore(w) + Size
          /\ Size * TripsBefore(w) \in Int
      BY <2>1, OneMore
    <3>3. CASE got[w] + k = Size /\ got'[w] = 0 /\ ~Left(w, "read")'
      <4>1. Answers(w)' = Size * (TripsBefore(w) + 1) + 0
        BY <1>3, <2>4, <3>3 DEF Answers, Reads
      <4> QED
        BY <2>1, <3>1, <3>2, <3>3, <4>1
    <3>4. CASE got[w] + k < Size /\ got'[w] = got[w] + k /\ Left(w, "read")'
      <4>1. Answers(w)' = Size * TripsBefore(w) + (got[w] + k)
        BY <1>3, <2>1, <2>4, <3>4 DEF Answers, Reads
      <4> QED
        BY <2>1, <3>1, <3>2, <4>1
    <3> QED
      BY <1>2, <3>3, <3>4
  <2>6. Heard(w)' = Heard(w) /\ Echoed(w)' = Echoed(w) /\ Asks(w)' = Asks(w)
    BY <1>1, <1>3, <2>4 DEF Heard, Echoed, Asks
  <2>7. Answers(w) \in Int /\ Echoed(w) \in Int
    BY UnitsType
  <2> QED
    BY <1>1, <1>3, <2>2, <2>3, <2>5, <2>6, <2>7 DEF Balance
<1> QED
  BY <1>3, <1>5, <1>6, <1>7 DEF EchoOf, FlightInv

\* The loopback moves data while its worker is in a round.
LEMMA LoopEcho ==
  ASSUME PlanInv, ClosesInv, NEW w \in Worker, EchoOf(w),
         loop[w].pc \in {"read", "write"},
         UNCHANGED <<bench, place, sent, got>>, Balance(w)'
  PROVE  EchoOf(w)'
<1>1. Alone' = Alone /\ Size' = Size
  BY SameCalls
<1>2. MovesInv(w)'
  BY <1>1 DEF EchoOf, MovesInv, place
<1>3. ~Left(w, "spawn")
  BY DEF ClosesInv, LoopInv
<1>4. ~Left(w, "spawn")'
  BY <1>3 DEF Left, place
<1> QED
  BY <1>2, <1>4 DEF EchoOf, FreshInv, FlightInv

LEMMA LoopReadFacts ==
  ASSUME PlanInv, ClosesInv, NEW w \in Worker, EchoOf(w), LoopRead(w)
  PROVE  /\ Balance(w) /\ ~Alone /\ InRound(w) /\ ~Left(w, "spawn")
         /\ loop[w].pc = "read" /\ UNCHANGED <<bench, place, sent, got>>
         /\ \E k \in Nat :
              /\ k >= 1 /\ k <= chan[w][WriteSide(Ends.out)]
              /\ Take(w, WriteSide(Ends.out), k)
              /\ \/ /\ loop[w].n + k = Size
                    /\ loop'[w] = [pc |-> "write", served |-> loop[w].served + 1, n |-> 0]
                 \/ /\ loop[w].n + k < Size /\ loop'[w].n = loop[w].n + k
                    /\ loop'[w].pc = "read" /\ loop'[w].served = loop[w].served
<1>1. loop[w].pc = "read" /\ UNCHANGED <<bench, place, sent, got>>
  BY DEF LoopRead, choice
<1>2. ~Alone /\ InRound(w) /\ ~Left(w, "spawn")
  BY <1>1 DEF ClosesInv, LoopInv
<1>3. Balance(w)
  BY <1>2 DEF EchoOf, FlightInv
<1>4. PICK k \in Nat :
        /\ k >= 1 /\ k <= Size - loop[w].n /\ k <= chan[w][ReadSide(Ends.in2)]
        /\ Take(w, ReadSide(Ends.in2), k)
        /\ IF loop[w].n + k = Size
             THEN loop' = [loop EXCEPT ![w] =
                    [pc |-> "write", served |-> loop[w].served + 1, n |-> 0]]
             ELSE loop' = [loop EXCEPT ![w].n = loop[w].n + k]
  BY LoopReadType DEF PlanInv
<1>5. ReadSide(Ends.in2) = WriteSide(Ends.out)
  BY <1>2, Crosswise DEF PlanInv, TypeInv
<1>6. Size \in Nat /\ loop[w].n \in Nat /\ loop \in [Worker -> LoopState]
  BY FlightType DEF PlanInv, TypeInv
<1>7. \/ /\ loop[w].n + k = Size
         /\ loop'[w] = [pc |-> "write", served |-> loop[w].served + 1, n |-> 0]
      \/ /\ loop[w].n + k < Size /\ loop'[w].n = loop[w].n + k
         /\ loop'[w].pc = "read" /\ loop'[w].served = loop[w].served
  <2>1. CASE loop[w].n + k = Size
    BY <1>4, <1>6, <2>1
  <2>2. CASE loop[w].n + k # Size
    <3>1. loop[w].n + k < Size
      BY <1>4, <1>6, <2>2
    <3>2. loop' = [loop EXCEPT ![w].n = loop[w].n + k]
      BY <1>4, <2>2
    <3>3. /\ loop'[w].n = loop[w].n + k /\ loop'[w].pc = loop[w].pc
          /\ loop'[w].served = loop[w].served
      BY <1>6, <3>2 DEF LoopState
    <3> QED
      BY <1>1, <3>1, <3>3
  <2> QED
    BY <2>1, <2>2
<1> QED
  BY <1>1, <1>2, <1>3, <1>4, <1>5, <1>7

LEMMA LoopReadEcho ==
  ASSUME PlanInv, ClosesInv, NEW w \in Worker, EchoOf(w), LoopRead(w)
  PROVE  EchoOf(w)'
<1> DEFINE c == WriteSide(Ends.out)
<1>1. /\ Balance(w) /\ ~Alone
      /\ loop[w].pc = "read" /\ UNCHANGED <<bench, place, sent, got>>
  BY LoopReadFacts
<1>2. PICK k \in Nat :
        /\ k >= 1 /\ Take(w, c, k)
        /\ \/ /\ loop[w].n + k = Size
              /\ loop'[w] = [pc |-> "write", served |-> loop[w].served + 1, n |-> 0]
           \/ /\ loop[w].n + k < Size /\ loop'[w].n = loop[w].n + k
              /\ loop'[w].pc = "read" /\ loop'[w].served = loop[w].served
  BY LoopReadFacts
<1>3. Size' = Size /\ Ends' = Ends
  BY <1>1, SameCalls
<1>4. /\ chan'[w][c] = chan[w][c] - k
      /\ chan'[w][ReadSide(Ends.in)] = chan[w][ReadSide(Ends.in)]
  BY <1>1, <1>2, Sides, Crosswise, Moved DEF PlanInv, TypeInv
<1>5. /\ Size \in Nat /\ loop[w].n \in Nat /\ loop[w].served \in Nat
      /\ \A d \in {"x", "y"} : chan[w][d] \in Nat
  BY FlightType
<1>6. Asks(w)' = Asks(w) /\ Answers(w)' = Answers(w)
  BY <1>1, <1>3 DEF Asks, Answers, Writes, Reads, TripsBefore, Left, place
<1>7. /\ Size * (loop[w].served + 1) = Size * loop[w].served + Size
      /\ Size * loop[w].served \in Int
  BY <1>5, OneMore
<1>8. Heard(w) = Size * loop[w].served + loop[w].n /\ Echoed(w) = Size * loop[w].served
  BY <1>1 DEF Heard, Echoed
<1>9. CASE /\ loop[w].n + k = Size
           /\ loop'[w] = [pc |-> "write", served |-> loop[w].served + 1, n |-> 0]
  <2>1. loop'[w].pc = "write" /\ loop'[w].served = loop[w].served + 1 /\ loop'[w].n = 0
    BY <1>9
  <2>2. Heard(w)' = Size * (loop[w].served + 1) + 0
    BY <1>3, <2>1 DEF Heard
  <2>3. Echoed(w)' = Size * (loop'[w].served - 1) + loop'[w].n
    BY <1>3, <2>1 DEF Echoed
  <2>4. loop'[w].served - 1 = loop[w].served /\ loop'[w].n = 0
    BY <1>5, <2>1
  <2>5. Heard(w)' = Heard(w) + k /\ Echoed(w)' = Echoed(w)
    BY <1>5, <1>7, <1>8, <1>9, <2>2, <2>3, <2>4
  <2>6. 0 < Size /\ loop[w].served + 1 >= 1
    BY <1>2, <1>5, <1>9
  <2>7. Balance(w)'
    BY <1>1, <1>3, <1>4, <1>6, <2>1, <2>5, <2>6, UnitsType DEF Balance
  <2> QED
    BY <1>1, <2>7, LoopEcho
<1>10. CASE /\ loop[w].n + k < Size /\ loop'[w].n = loop[w].n + k
            /\ loop'[w].pc = "read" /\ loop'[w].served = loop[w].served
  <2>1. Heard(w)' = Size * loop[w].served + (loop[w].n + k)
    BY <1>3, <1>10 DEF Heard
  <2>2. Echoed(w)' = Size * loop[w].served
    BY <1>3, <1>10 DEF Echoed
  <2>3. Heard(w)' = Heard(w) + k /\ Echoed(w)' = Echoed(w)
    BY <1>5, <1>7, <1>8, <2>1, <2>2
  <2>4. Balance(w)'
    BY <1>1, <1>3, <1>4, <1>6, <1>10, <2>3, UnitsType DEF Balance
  <2> QED
    BY <1>1, <2>4, LoopEcho
<1> QED
  BY <1>2, <1>9, <1>10

LEMMA LoopWriteEcho ==
  ASSUME PlanInv, ClosesInv, NEW w \in Worker, EchoOf(w), LoopWrite(w)
  PROVE  EchoOf(w)'
<1> DEFINE c == ReadSide(Ends.in)
<1>1. loop[w].pc = "write" /\ UNCHANGED <<bench, place, sent, got>>
  BY DEF LoopWrite, choice
<1>2. Balance(w) /\ ~Alone
  BY <1>1 DEF ClosesInv, LoopInv, EchoOf, FlightInv
<1>3. WriteSide(Ends.out2) = c /\ WriteSide(Ends.out) # c
  BY <1>2, Crosswise DEF PlanInv, TypeInv
<1>4. /\ Size \in Nat /\ loop[w].n \in Nat /\ loop[w].served \in Nat
      /\ \A d \in {"x", "y"} : chan[w][d] \in Nat
      /\ loop \in [Worker -> LoopState]
  BY FlightType DEF PlanInv, TypeInv
<1>5. PICK k \in Nat :
        /\ k >= 1 /\ k <= Size - loop[w].n
        /\ Put(w, c, k)
        /\ IF loop[w].n + k < Size
             THEN loop' = [loop EXCEPT ![w].n = loop[w].n + k]
             ELSE loop' = [loop EXCEPT ![w].n = 0,
                    ![w].pc = IF loop[w].served = LoopTurns THEN "done" ELSE "read"]
  BY <1>3, LoopWriteType DEF PlanInv
<1>6. /\ chan'[w][c] = chan[w][c] + k
      /\ chan'[w][WriteSide(Ends.out)] = chan[w][WriteSide(Ends.out)]
  BY <1>3, <1>5, Sides, Moved
<1>7. Size' = Size /\ Ends' = Ends
  BY <1>1, SameCalls
<1>8. Asks(w)' = Asks(w) /\ Answers(w)' = Answers(w)
  BY <1>1, <1>7 DEF Asks, Answers, Writes, Reads, TripsBefore, Left, place
<1>9. /\ loop[w].served - 1 \in Int
      /\ Size * (loop[w].served - 1 + 1) = Size * (loop[w].served - 1) + Size
      /\ Size * (loop[w].served - 1) \in Int
      /\ loop[w].served - 1 + 1 = loop[w].served
  BY <1>4, OneMore
<1>10. /\ Heard(w) = Size * loop[w].served + 0
       /\ Echoed(w) = Size * (loop[w].served - 1) + loop[w].n
  BY <1>1 DEF Heard, Echoed
<1>11. CASE loop[w].n + k < Size
  <2>1. /\ loop'[w].n = loop[w].n + k /\ loop'[w].pc = "write"
        /\ loop'[w].served = loop[w].served
    BY <1>1, <1>4, <1>5, <1>11 DEF LoopState
  <2>2. /\ Heard(w)' = Size * loop[w].served + 0
        /\ Echoed(w)' = Size * (loop[w].served - 1) + (loop[w].n + k)
    BY <1>7, <2>1 DEF Heard, Echoed
  <2>3. Heard(w)' = Heard(w) /\ Echoed(w)' = Echoed(w) + k
    BY <1>4, <1>9, <1>10, <2>2
  <2>4. Balance(w)'
    BY <1>1, <1>2, <1>3, <1>6, <1>7, <1>8, <1>11, <2>1, <2>3, UnitsType DEF Balance
  <2> QED
    BY <1>1, <2>4, LoopEcho
<1>12. CASE ~(loop[w].n + k < Size)
  <2>1. PICK p \in {"done", "read"} : loop' = [loop EXCEPT ![w].n = 0, ![w].pc = p]
    BY <1>5, <1>12
  <2>2. /\ loop'[w].n = 0 /\ loop'[w].pc # "write"
        /\ loop'[w].served = loop[w].served
    BY <1>4, <2>1 DEF LoopState
  <2>3. /\ Heard(w)' = Size * loop[w].served + 0
        /\ Echoed(w)' = Size * loop[w].served
    BY <1>7, <2>2 DEF Heard, Echoed
  <2>4. loop[w].n + k = Size
    BY <1>4, <1>5, <1>12
  <2>5. Heard(w)' = Heard(w) /\ Echoed(w)' = Echoed(w) + k
    <3>1. PICK t \in Int : t = loop[w].served - 1 /\ loop[w].served = t + 1
      BY <1>9
    <3>2. Size * (t + 1) = Size * t + Size /\ Size * t \in Int
      BY <1>4, OneMore
    <3>3. Echoed(w)' = Size * (t + 1) /\ Echoed(w) = Size * t + loop[w].n
      BY <1>10, <2>3, <3>1
    <3> QED
      BY <1>4, <1>10, <2>3, <2>4, <3>2, <3>3
  <2>6. Balance(w)'
    BY <1>1, <1>2, <1>3, <1>6, <1>7, <1>8, <2>2, <2>5, UnitsType DEF Balance
  <2> QED
    BY <1>1, <2>6, LoopEcho
<1> QED
  BY <1>11, <1>12

\* The process of a loopback dies between two parts of a request.
LEMMA LoopDiesEcho ==
  ASSUME PlanInv, ClosesInv, NEW w \in Worker, EchoOf(w), loop[w].pc = "read",
         loop' = [loop EXCEPT ![w].pc = "dead"],
         UNCHANGED <<bench, place, chan, sent, got>>
  PROVE  EchoOf(w)'
<1>1. Balance(w)
  BY DEF ClosesInv, LoopInv, EchoOf, FlightInv
<1>2. /\ loop'[w].pc = "dead" /\ loop'[w].n = loop[w].n
      /\ loop'[w].served = loop[w].served
  BY DEF PlanInv, TypeInv, LoopState
<1>3. Size' = Size /\ Ends' = Ends
  BY SameCalls
<1>4. /\ Asks(w)' = Asks(w) /\ Answers(w)' = Answers(w)
      /\ Heard(w)' = Heard(w) /\ Echoed(w)' = Echoed(w)
  BY <1>2, <1>3 DEF Asks, Answers, Heard, Echoed, Writes, Reads, TripsBefore, Left, place
<1>5. Balance(w)'
  BY <1>1, <1>2, <1>3, <1>4 DEF Balance
<1> QED
  BY <1>5, LoopEcho

LEMMA AdvanceEcho ==
  ASSUME PlanInv, NEW w \in Worker, EchoOf(w), Advance(w)
  PROVE  EchoOf(w)'
<1>1. /\ bench \in Options /\ UNCHANGED <<chan, sent, got, loop>>
      /\ todo[w] = <<>>
  BY DEF PlanInv, TypeInv, Advance, data, LoopTest, Return, Idle
<1>2. /\ Entered(w) /\ cb'[w] \in {"pre", "bench", "post", "fini", "done"}
      /\ bench' = bench
  BY AdvanceEntered DEF Advance, choice
<1>3. Alone' = Alone /\ Size' = Size /\ Ends' = Ends
  BY <1>2, SameCalls
<1>4. sent[w] = 0 /\ got[w] = 0 /\ \A o : ~Left(w, o)
  BY <1>1, Empties DEF EchoOf, MovesInv, Left
<1>5. MovesInv(w)'
  BY <1>1, <1>4 DEF MovesInv
<1>6. CASE cb'[w] = "pre"
  <2>1. PreCalls \subseteq Range(todo'[w])
    BY <1>2, <1>6 DEF Entered, Lists
  <2>2. MadeAll \subseteq Due(w, "make")'
    BY <1>1, <2>1, MadeFacts DEF Due
  <2>3. FreshInv(w)'
    BY <1>1, <2>2, MadeSides DEF FreshInv
  <2>4. ~Alone => Left(w, "spawn")'
    BY <2>1, MakeFields DEF PreCalls, Left
  <2> QED
    BY <1>3, <1>5, <2>3, <2>4 DEF EchoOf, FlightInv
<1>7. CASE cb'[w] \in {"bench", "post"}
  <2>1. /\ cb[w] \in {"pre", "bench"} /\ TripCalls \subseteq Range(todo'[w])
        /\ cb'[w] = "bench" <=> cb[w] = "pre"
    BY <1>2, <1>7 DEF Entered, Lists, PostCalls
  <2>2. Left(w, "write")' /\ Left(w, "read")'
    BY <2>1, MakeFields DEF TripCalls, Left
  <2>3. TripsBefore(w)' = TripsBefore(w) + 1
    BY <1>7, <2>1 DEF TripsBefore
  <2>4. Writes(w)' = Writes(w) /\ Reads(w)' = Reads(w)
    BY <1>4, <2>2, <2>3, FlightType DEF Writes, Reads
  <2>5. /\ Asks(w)' = Asks(w) /\ Answers(w)' = Answers(w)
        /\ Heard(w)' = Heard(w) /\ Echoed(w)' = Echoed(w)
    BY <1>1, <1>3, <2>4 DEF Asks, Answers, Heard, Echoed
  <2>6. ~Alone => Balance(w)'
    <3>1. ~Alone => Balance(w)
      BY <1>4, <2>1 DEF EchoOf, FlightInv, InRound
    <3> QED
      BY <1>1, <1>3, <2>5, <3>1 DEF Balance
  <2> QED
    BY <1>3, <1>5, <1>7, <2>6 DEF EchoOf, FreshInv, FlightInv
<1>8. CASE cb'[w] \in {"fini", "done"}
  BY <1>5, <1>8 DEF EchoOf, FreshInv, FlightInv, InRound
<1> QED
  BY <1>2, <1>6, <1>7, <1>8

LEMMA NextEcho ==
  PlanInv /\ ClosesInv /\ EchoInv /\ [Next]_vars => EchoInv'
<1> SUFFICES ASSUME PlanInv, ClosesInv, EchoInv, [Next]_vars PROVE EchoInv'
  OBVIOUS
<1>1. bench' = bench
  BY NextPlace
<1>2. \A v \in Worker : Same(v) => EchoOf(v)'
  BY <1>1, SameEcho DEF EchoInv
<1>3. ASSUME NEW w \in Worker,
             \/ MakeOne(w) \/ MakeFails(w) \/ BindPort(w) \/ StartListening(w)
             \/ ListenFails(w) \/ Connect(w) \/ Spawn(w) \/ SpawnFails(w)
             \/ Write(w) \/ Read(w) \/ ReadFails(w) \/ Join(w) \/ CloseOne(w)
             \/ UnlinkOne(w) \/ LoopRead(w) \/ LoopWrite(w) \/ LoopFails(w)
             \/ Advance(w) \/ Stop(w)
      PROVE  EchoOf(w)'
  <2>0. EchoOf(w)
    BY DEF EchoInv
  <2>1. CASE MakeFails(w) \/ ListenFails(w) \/ ReadFails(w) \/ Stop(w)
    <3>1. Same(w)
      BY <2>1 DEF MakeFails, ListenFails, ReadFails, Stop, Halt, Fails, files, data,
         place, Same
    <3> QED
      BY <1>2, <3>1
  <2>2. CASE BindPort(w) \/ StartListening(w) \/ Connect(w) \/ Join(w) \/ CloseOne(w)
    <3>1. /\ todo[w] # <<>> /\ Done(w) /\ UNCHANGED <<chan, sent, got, loop>>
          /\ Head(todo[w]).op \notin {"make", "spawn", "write", "read"}
      BY <2>2 DEF BindPort, StartListening, Connect, Join, CloseOne, Next1, data
    <3> QED
      BY <1>1, <2>0, <3>1, DoneEcho
  <2>3. CASE UnlinkOne(w)
    <3>1. /\ todo[w] # <<>> /\ UNCHANGED <<held, leaked, chan, sent, got, loop>>
          /\ Head(todo[w]).op = "unlink"
          /\ Done(w) \/ UNCHANGED place
      BY <2>3 DEF UnlinkOne, Fails, Next1, files, data
    <3>2. UNCHANGED place => Same(w)
      BY <3>1 DEF place, Same
    <3> QED
      BY <1>1, <1>2, <2>0, <3>1, <3>2, DoneEcho
  <2>4. CASE LoopFails(w)
    <3>1. /\ loop[w].pc = "read"
          /\ UNCHANGED <<bench, place, held, leaked, chan, sent, got>>
          /\ loop' = loop \/ loop' = [loop EXCEPT ![w].pc = "dead"]
      BY <1>1, <2>4 DEF LoopFails, Fails, files, data
    <3>2. loop' = loop => Same(w)
      BY <3>1 DEF place, Same
    <3> QED
      BY <1>2, <2>0, <3>1, <3>2, LoopDiesEcho
  <2> QED
    BY <1>3, <2>0, <2>1, <2>2, <2>3, <2>4, MakeEcho, SpawnEcho, WriteEcho, ReadEcho,
       LoopReadEcho, LoopWriteEcho, AdvanceEcho
<1>4. \A v \in Worker : EchoOf(v)'
  BY <1>2, <1>3, OneActor
<1> QED
  BY <1>4 DEF EchoInv

(***************************************************************************)
(* Round trips: every step of a worker or of its loopback is a step of     *)
(* Echo or changes nothing of it.                                          *)
(***************************************************************************)
LEMMA OpsLeftIs ==
  ASSUME NEW w \in Worker
  PROVE  /\ \A o : o \in OpsLeft(w) <=> Left(w, o)
         /\ \A o : o \in OpsLeft(w)' <=> Left(w, o)'
  BY DEF OpsLeft, Left, Range

\* The round trips of a worker, by what it has left to call.
TripsOf(w) ==
  /\ ~InRound(w) => Asked(w) = 0 /\ Served(w) = 0 /\ Answered(w) = 0
  /\ InRound(w) =>
       /\ Asked(w) = TripsBefore(w)
                       + IF ~Left(w, "write") \/ sent[w] > 0 THEN 1 ELSE 0
       /\ Answered(w) = Reads(w)
       /\ Served(w) = IF Alone THEN Asked(w)
                      ELSE IF Left(w, "spawn") THEN 0 ELSE loop[w].served

LEMMA TripsAre ==
  ASSUME NEW w \in Worker
  PROVE  TripsOf(w) /\ TripsOf(w)'
<1>1. TripsOf(w)
  BY OpsLeftIs DEF TripsOf, Asked, Served, Answered, Reads
<1>2. TripsOf(w)'
  BY OpsLeftIs DEF TripsOf, Asked, Served, Answered, Reads
<1> QED
  BY <1>1, <1>2

LEMMA TripsType ==
  ASSUME PlanInv, NEW w \in Worker
  PROVE  Asked(w) \in 0..3 /\ Served(w) \in Nat /\ Answered(w) \in 0..3
  BY FlightType, TripsAre DEF TripsOf

\* What a step means to the trips of a worker.
StaysAt(w)  == Asked(w)' = Asked(w) /\ Served(w)' = Served(w) /\ Answered(w)' = Answered(w)
AsksAt(w)   == /\ Asked(w) = Answered(w) /\ Asked(w) < 3 /\ Asked(w)' = Asked(w) + 1
               /\ Served(w)' \in {Served(w), Served(w) + 1} /\ Answered(w)' = Answered(w)
ServesAt(w) == /\ Served(w) < Asked(w) /\ Served(w)' = Served(w) + 1
               /\ Asked(w)' = Asked(w) /\ Answered(w)' = Answered(w)
AnswersAt(w) == /\ Answered(w) < Served(w) /\ Answered(w)' = Answered(w) + 1
                /\ Asked(w)' = Asked(w) /\ Served(w)' = Served(w)
RenewsAt(w) == /\ Answered(w) = 3
               /\ Asked(w)' = 0 /\ Served(w)' = 0 /\ Answered(w)' = 0

LEMMA TripStep ==
  ASSUME NEW w \in Worker,
         StaysAt(w) \/ AsksAt(w) \/ ServesAt(w) \/ AnswersAt(w) \/ RenewsAt(w),
         \A v \in Worker \ {w} : StaysAt(v)
  PROVE  [Trip!Next]_(Trip!vars)
<1> DEFINE asked    == [v \in Worker |-> Asked(v)]
           served   == [v \in Worker |-> Served(v)]
           answered == [v \in Worker |-> Answered(v)]
           asked1    == [v \in Worker |-> Asked(v)']
           served1   == [v \in Worker |-> Served(v)']
           answered1 == [v \in Worker |-> Answered(v)']
<1>1. /\ asked' = asked1 /\ served' = served1 /\ answered' = answered1
  OBVIOUS
<1>2. \A v \in Worker \ {w} : /\ Asked(v)' = Asked(v) /\ Served(v)' = Served(v)
                              /\ Answered(v)' = Answered(v)
  BY DEF StaysAt
<1>3. CASE StaysAt(w)
  <2>1. asked1 = asked /\ served1 = served /\ answered1 = answered
    BY <1>2, <1>3 DEF StaysAt
  <2> QED
    BY <1>1, <2>1 DEF Trip!vars
<1>4. CASE AsksAt(w)
  <2>1. /\ asked1 = [asked EXCEPT ![w] = Asked(w) + 1] /\ answered1 = answered
        /\ served1 \in {served, [served EXCEPT ![w] = Served(w) + 1]}
    BY <1>2, <1>4 DEF AsksAt
  <2>2. Trip!Ask(w)
    BY <1>1, <1>4, <2>1 DEF Trip!Ask, Trip!Trips, AsksAt
  <2> QED
    BY <2>2 DEF Trip!Next
<1>5. CASE ServesAt(w)
  <2>1. /\ served1 = [served EXCEPT ![w] = Served(w) + 1]
        /\ asked1 = asked /\ answered1 = answered
    BY <1>2, <1>5 DEF ServesAt
  <2>2. Trip!Serve(w)
    BY <1>1, <1>5, <2>1 DEF Trip!Serve, ServesAt
  <2> QED
    BY <2>2 DEF Trip!Next
<1>6. CASE AnswersAt(w)
  <2>1. /\ answered1 = [answered EXCEPT ![w] = Answered(w) + 1]
        /\ asked1 = asked /\ served1 = served
    BY <1>2, <1>6 DEF AnswersAt
  <2>2. Trip!Answer(w)
    BY <1>1, <1>6, <2>1 DEF Trip!Answer, AnswersAt
  <2> QED
    BY <2>2 DEF Trip!Next
<1>7. CASE RenewsAt(w)
  <2>1. /\ asked1 = [asked EXCEPT ![w] = 0] /\ served1 = [served EXCEPT ![w] = 0]
        /\ answered1 = [answered EXCEPT ![w] = 0]
    BY <1>2, <1>7 DEF RenewsAt
  <2>2. Trip!Renew(w)
    BY <1>1, <1>7, <2>1 DEF Trip!Renew, Trip!Trips, RenewsAt
  <2> QED
    BY <2>2 DEF Trip!Next
<1> QED
  BY <1>3, <1>4, <1>5, <1>6, <1>7

LEMMA SameTrips ==
  ASSUME NEW v \in Worker, Same(v), UNCHANGED bench
  PROVE  StaysAt(v)
<1>1. Alone' = Alone
  BY SameCalls
<1>2. \A o : Left(v, o)' <=> Left(v, o)
  BY DEF Same, Left
<1>3. TripsBefore(v)' = TripsBefore(v) /\ (InRound(v)' <=> InRound(v))
  BY DEF Same, TripsBefore, InRound
<1>4. Reads(v)' = Reads(v)
  BY <1>2, <1>3 DEF Reads
<1> QED
  BY <1>1, <1>2, <1>3, <1>4, TripsAre DEF TripsOf, StaysAt, Same

\* Calls that are neither of a round trip nor make the loopback.
LEMMA DoneTrips ==
  ASSUME PlanInv, NEW w \in Worker, todo[w] # <<>>, Done(w),
         UNCHANGED bench, sent'[w] = sent[w], loop'[w] = loop[w],
         Head(todo[w]).op \notin {"spawn", "write", "read"}
  PROVE  StaysAt(w)
<1>1. Alone' = Alone
  BY SameCalls
<1>2. /\ Left(w, "spawn")' <=> Left(w, "spawn")
      /\ Left(w, "write")' <=> Left(w, "write")
      /\ Left(w, "read")' <=> Left(w, "read")
  BY LessLeft
<1>3. TripsBefore(w)' = TripsBefore(w) /\ (InRound(w)' <=> InRound(w))
  BY DEF Done, TripsBefore, InRound
<1>4. Reads(w)' = Reads(w)
  BY <1>2, <1>3 DEF Reads
<1> QED
  BY <1>1, <1>2, <1>3, <1>4, TripsAre DEF TripsOf, StaysAt

LEMMA SpawnTrips ==
  ASSUME PlanInv, NEW w \in Worker, EchoOf(w), Spawn(w) \/ SpawnFails(w)
  PROVE  StaysAt(w)
<1>1. /\ todo[w] # <<>> /\ Head(todo[w]).op = "spawn" /\ bench' = bench
      /\ sent' = sent /\ loop'[w].served = 0 /\ (Done(w) \/ UNCHANGED place)
  BY DEF Spawn, SpawnFails, Fails, Next1, choice, data, Off, PlanInv, TypeInv
<1>2. Alone' = Alone
  BY <1>1, SameCalls
<1>3. cb[w] = "pre" /\ Left(w, "spawn") /\ ~Alone
  BY <1>1, HeadCall, CallWhat DEF Left
<1>4. cb' = cb
  BY <1>1 DEF Done, place
<1>5. /\ Left(w, "write")' <=> Left(w, "write")
      /\ Left(w, "read")' <=> Left(w, "read")
  <2>1. UNCHANGED place => \A o : Left(w, o)' <=> Left(w, o)
    BY DEF place, Left
  <2> QED
    BY <1>1, <2>1, LessLeft
<1>6. TripsBefore(w)' = TripsBefore(w) /\ InRound(w) /\ InRound(w)'
  BY <1>3, <1>4 DEF TripsBefore, InRound
<1>7. Reads(w)' = Reads(w)
  BY <1>5, <1>6 DEF Reads
<1> QED
  BY <1>1, <1>2, <1>3, <1>5, <1>6, <1>7, TripsAre DEF TripsOf, StaysAt

LEMMA WriteTrips ==
  ASSUME PlanInv, NEW w \in Worker, EchoOf(w), Write(w)
  PROVE  StaysAt(w) \/ AsksAt(w)
<1>1. /\ InRound(w) /\ ~Left(w, "spawn") /\ ~Left(w, "spawn")'
      /\ cb' = cb /\ got' = got /\ loop' = loop /\ bench' = bench
      /\ Left(w, "write") /\ Left(w, "read") /\ Left(w, "read")'
  BY WriteFacts
<1>2. PICK k \in Nat :
        \/ sent[w] + k = Size /\ sent'[w] = 0 /\ ~Left(w, "write")'
        \/ /\ k > 0 /\ sent[w] + k < Size /\ sent'[w] = sent[w] + k
           /\ Left(w, "write")'
  BY WriteFacts
<1>3. Alone' = Alone
  BY <1>1, SameCalls
<1>4. TripsBefore(w)' = TripsBefore(w) /\ InRound(w)' /\ Reads(w)' = Reads(w)
  BY <1>1 DEF TripsBefore, InRound, Reads
<1>5. Reads(w) = TripsBefore(w) + 0 /\ TripsBefore(w) \in 0..2 /\ sent[w] \in Nat
  BY <1>1, FlightType DEF Reads
<1>6. /\ Asked(w) = TripsBefore(w) + IF sent[w] > 0 THEN 1 ELSE 0
      /\ Answered(w) = Reads(w) /\ Answered(w)' = Reads(w)'
      /\ Served(w) = IF Alone THEN Asked(w) ELSE loop[w].served
      /\ Served(w)' = IF Alone THEN Asked(w)' ELSE loop[w].served
  BY <1>1, <1>3, <1>4, TripsAre DEF TripsOf
<1>7. Asked(w)' = TripsBefore(w) + 1
  <2>1. ~Left(w, "write")' \/ sent'[w] > 0
    BY <1>2, <1>5
  <2>2. Asked(w)' = TripsBefore(w)'
                      + IF ~Left(w, "write")' \/ sent'[w] > 0 THEN 1 ELSE 0
    BY <1>4, TripsAre DEF TripsOf
  <2> QED
    BY <1>4, <2>1, <2>2
<1>8. CASE sent[w] > 0
  <2>1. Asked(w) = TripsBefore(w) + 1
    BY <1>6, <1>8
  <2> QED
    BY <1>4, <1>6, <1>7, <2>1 DEF StaysAt
<1>9. CASE ~(sent[w] > 0)
  <2>1. Asked(w) = TripsBefore(w)
    BY <1>5, <1>6, <1>9
  <2> QED
    BY <1>4, <1>5, <1>6, <1>7, <2>1 DEF AsksAt
<1> QED
  BY <1>8, <1>9

LEMMA ReadTrips ==
  ASSUME PlanInv, NEW w \in Worker, EchoOf(w), Read(w)
  PROVE  StaysAt(w) \/ AnswersAt(w)
<1>1. /\ InRound(w) /\ ~Left(w, "spawn") /\ ~Left(w, "spawn")'
      /\ cb' = cb /\ sent' = sent /\ loop' = loop /\ bench' = bench
      /\ sent[w] = 0 /\ ~Left(w, "write") /\ ~Left(w, "write")' /\ Left(w, "read")
  BY ReadFacts
<1>2. PICK k \in Nat :
        /\ k >= 1 /\ k <= chan[w][ReadSide(Ends.in)]
        /\ \/ got[w] + k = Size /\ ~Left(w, "read")'
           \/ Left(w, "read")'
  BY ReadFacts
<1>3. Alone' = Alone
  BY <1>1, SameCalls
<1>4. TripsBefore(w)' = TripsBefore(w) /\ InRound(w)'
  BY <1>1 DEF TripsBefore, InRound
<1>5. /\ Size \in Nat /\ got[w] \in Nat /\ loop[w] \in LoopState /\ loop[w].n \in Nat
      /\ loop[w].served \in Nat /\ TripsBefore(w) \in 0..2
      /\ chan[w][ReadSide(Ends.in)] \in Nat
  BY FlightType, Sides
<1>6. Reads(w) = TripsBefore(w) /\ TripsBefore(w) \in Int
  BY <1>1, <1>5 DEF Reads
<1>7. /\ Asked(w) = TripsBefore(w) + 1 /\ Asked(w)' = Asked(w)
      /\ Served(w) = (IF Alone THEN Asked(w) ELSE loop[w].served)
      /\ Served(w)' = Served(w)
      /\ Answered(w) = TripsBefore(w) /\ Answered(w)' = Reads(w)'
  BY <1>1, <1>3, <1>4, <1>6, TripsAre DEF TripsOf
<1>8. CASE Left(w, "read")'
  <2>1. Reads(w)' = TripsBefore(w)
    BY <1>4, <1>5, <1>8 DEF Reads
  <2> QED
    BY <1>7, <2>1 DEF StaysAt
<1>9. CASE got[w] + k = Size /\ ~Left(w, "read")'
  <2>1. Reads(w)' = TripsBefore(w) + 1
    BY <1>4, <1>9 DEF Reads
  <2>2. TripsBefore(w) < Served(w)
    <3>1. CASE Alone
      BY <1>5, <1>7, <3>1
    <3>2. CASE ~Alone
      <4>1. Balance(w)
        BY <1>1, <3>2 DEF EchoOf, FlightInv
      <4>2. Echoed(w) >= Answers(w) + k /\ Answers(w) = Size * TripsBefore(w) + got[w]
        <5>1. chan[w][ReadSide(Ends.in)] = Echoed(w) - Answers(w)
          BY <4>1 DEF Balance
        <5> QED
          BY <1>2, <1>5, <1>6, <5>1, UnitsType DEF Answers
      <4>3. Size * (TripsBefore(w) + 1) = Size * TripsBefore(w) + Size
        BY <1>5, <1>6, OneMore
      <4>4. Echoed(w) >= Size * (TripsBefore(w) + 1)
        <5>1. Size * TripsBefore(w) \in Int /\ Echoed(w) \in Int
          BY <1>5, <1>6, OneMore, UnitsType
        <5> QED
          BY <1>5, <1>9, <4>2, <4>3, <5>1
      <4>5. Size > 0
        BY <1>2, <1>5, <1>9
      <4>6. CASE loop[w].pc = "write"
        <5>1. loop[w].n < Size /\ Echoed(w) = Size * (loop[w].served - 1) + loop[w].n
          BY <4>1, <4>6 DEF Balance, Echoed
        <5>2. TripsBefore(w) + 1 \in Int /\ loop[w].served - 1 \in Int
          BY <1>5
        <5>3. TripsBefore(w) + 1 <= loop[w].served - 1
          BY <1>5, <4>4, <5>1, <5>2, WholeBelow
        <5> QED
          BY <1>5, <1>7, <3>2, <5>3
      <4>7. CASE loop[w].pc # "write"
        <5>1. Echoed(w) = Size * loop[w].served + 0
          BY <1>5, <4>7, OneMore DEF Echoed
        <5>2. TripsBefore(w) + 1 \in Int /\ loop[w].served \in Int /\ 0 \in Int
          BY <1>5
        <5>3. TripsBefore(w) + 1 <= loop[w].served
          BY <1>5, <4>4, <4>5, <5>1, <5>2, WholeBelow
        <5> QED
          BY <1>5, <1>7, <3>2, <5>3
      <4> QED
        BY <4>6, <4>7
    <3> QED
      BY <3>1, <3>2
  <2> QED
    BY <1>7, <2>1, <2>2 DEF AnswersAt
<1> QED
  BY <1>2, <1>8, <1>9

LEMMA LoopReadTrips ==
  ASSUME PlanInv, ClosesInv, NEW w \in Worker, EchoOf(w), LoopRead(w)
  PROVE  StaysAt(w) \/ ServesAt(w)
<1>1. /\ Balance(w) /\ ~Alone /\ InRound(w) /\ ~Left(w, "spawn")
      /\ loop[w].pc = "read" /\ UNCHANGED <<bench, place, sent, got>>
  BY LoopReadFacts
<1>2. PICK k \in Nat :
        /\ k >= 1 /\ k <= chan[w][WriteSide(Ends.out)]
        /\ \/ /\ loop[w].n + k = Size
              /\ loop'[w] = [pc |-> "write", served |-> loop[w].served + 1, n |-> 0]
           \/ loop[w].n + k < Size /\ loop'[w].served = loop[w].served
  BY LoopReadFacts
<1>3. Alone' = Alone
  BY <1>1, SameCalls
<1>4. /\ \A o : Left(w, o)' <=> Left(w, o)
      /\ TripsBefore(w)' = TripsBefore(w) /\ InRound(w)' /\ Reads(w)' = Reads(w)
  BY <1>1 DEF place, TripsBefore, InRound, Reads, Left
<1>5. /\ Asked(w)' = Asked(w) /\ Answered(w)' = Answered(w)
      /\ Served(w) = loop[w].served /\ Served(w)' = loop'[w].served
      /\ Asked(w) = TripsBefore(w) + IF ~Left(w, "write") \/ sent[w] > 0 THEN 1 ELSE 0
  BY <1>1, <1>3, <1>4, TripsAre DEF TripsOf
<1>6. CASE loop'[w].served = loop[w].served
  BY <1>5, <1>6 DEF StaysAt
<1>7. CASE /\ loop[w].n + k = Size
           /\ loop'[w] = [pc |-> "write", served |-> loop[w].served + 1, n |-> 0]
  <2>1. /\ Size \in Nat /\ sent[w] \in Nat /\ loop[w].n \in Nat
        /\ loop[w].served \in Nat /\ TripsBefore(w) \in 0..2 /\ Writes(w) \in 0..3
        /\ chan[w][WriteSide(Ends.out)] \in Nat
    BY FlightType, Sides
  <2>2. /\ Size * (loop[w].served + 1) = Size * loop[w].served + Size
        /\ Size * loop[w].served \in Int /\ Size * Writes(w) \in Int
    <3>1. loop[w].served \in Int /\ Writes(w) \in Int
      BY <2>1
    <3> QED
      BY <2>1, <3>1, OneMore
  <2>3. Size > 0 /\ sent[w] < Size
    BY <1>2, <1>7, <2>1 DEF EchoOf, MovesInv
  <2>4. Heard(w) = Size * loop[w].served + loop[w].n
    BY <1>1 DEF Heard
  <2>5. Asks(w) - Heard(w) >= k
    BY <1>1, <1>2, <2>1 DEF Balance
  <2>6. Size * (loop[w].served + 1) <= Size * Writes(w) + sent[w]
    <3>1. Asks(w) >= Size * loop[w].served + Size
      BY <1>7, <2>1, <2>2, <2>4, <2>5, UnitsType
    <3> QED
      BY <2>2, <3>1 DEF Asks
  <2>7. loop[w].served + 1 \in Int /\ Writes(w) \in Int
    BY <2>1
  <2>8. loop[w].served + 1 <= Writes(w)
    BY <2>1, <2>3, <2>6, <2>7, WholeBelow
  <2>9. Writes(w) <= Asked(w) /\ Asked(w) \in Int
    BY <1>5, <2>1 DEF Writes
  <2>10. loop'[w].served = loop[w].served + 1
    BY <1>7
  <2> QED
    BY <1>5, <2>1, <2>8, <2>9, <2>10 DEF ServesAt
<1> QED
  BY <1>2, <1>6, <1>7

\* The loopback's answer is counted when the worker has it.
LEMMA LoopTrips ==
  ASSUME PlanInv, NEW w \in Worker, LoopWrite(w) \/ LoopFails(w)
  PROVE  StaysAt(w)
<1>1. UNCHANGED <<bench, place, sent>>
  BY DEF LoopWrite, LoopFails, Fails, choice, data
<1>2. loop'[w].served = loop[w].served
  <2>1. CASE LoopWrite(w)
    <3>1. PICK k \in Nat :
            IF loop[w].n + k < Size
              THEN loop' = [loop EXCEPT ![w].n = loop[w].n + k]
              ELSE loop' = [loop EXCEPT ![w].n = 0,
                     ![w].pc = IF loop[w].served = LoopTurns THEN "done" ELSE "read"]
      BY <2>1, LoopWriteType DEF PlanInv
    <3> QED
      BY <3>1 DEF PlanInv, TypeInv, LoopState
  <2>2. CASE LoopFails(w)
    BY <2>2 DEF LoopFails, PlanInv, TypeInv, LoopState
  <2> QED
    BY <2>1, <2>2
<1>3. Alone' = Alone
  BY <1>1, SameCalls
<1>4. /\ \A o : Left(w, o)' <=> Left(w, o)
      /\ TripsBefore(w)' = TripsBefore(w) /\ (InRound(w)' <=> InRound(w))
      /\ Reads(w)' = Reads(w)
  BY <1>1 DEF place, TripsBefore, InRound, Reads, Left
<1> QED
  BY <1>1, <1>2, <1>3, <1>4, TripsAre DEF TripsOf, StaysAt

LEMMA AdvanceTrips ==
  ASSUME PlanInv, NEW w \in Worker, EchoOf(w), Advance(w)
  PROVE  StaysAt(w) \/ RenewsAt(w)
<1>1. /\ UNCHANGED <<sent, loop>> /\ todo[w] = <<>> /\ cb[w] # "unborn"
      /\ cb[w] \in CallbackName
  BY DEF PlanInv, TypeInv, PlaceInv, ScriptInv, Advance, data, LoopTest, Return, Idle
<1>2. /\ Entered(w) /\ cb'[w] \in {"pre", "bench", "post", "fini", "done"}
      /\ cb'[w] \in {"fini", "done"} => cb[w] \in {"worker", "post", "fini"}
      /\ bench' = bench
  BY AdvanceEntered DEF Advance, choice
<1>3. Alone' = Alone
  BY <1>2, SameCalls
<1>4. sent[w] = 0 /\ \A o : ~Left(w, o)
  BY <1>1, Empties DEF EchoOf, MovesInv, Left
<1>5. CASE cb'[w] \in {"bench", "post"}
  <2>1. /\ cb[w] \in {"pre", "bench"} /\ (cb'[w] = "bench" <=> cb[w] = "pre")
        /\ Range(todo'[w]) = IF cb'[w] = "bench" THEN TripCalls ELSE PostCalls
    BY <1>2, <1>5 DEF Entered, Lists
  <2>2. Left(w, "write")' /\ Left(w, "read")' /\ ~Left(w, "spawn")'
    BY <2>1, MakeFields DEF TripCalls, PostCalls, CloseCalls, UnlinkCalls, Left
  <2>3. TripsBefore(w)' = TripsBefore(w) + 1 /\ TripsBefore(w) \in Int
    BY <1>5, <2>1 DEF TripsBefore
  <2>4. Reads(w)' = Reads(w) /\ Reads(w) = TripsBefore(w) + 1
    BY <1>4, <2>2, <2>3 DEF Reads
  <2>5. InRound(w) /\ InRound(w)'
    BY <1>5, <2>1 DEF InRound
  <2>6. /\ Asked(w) = TripsBefore(w) + 1 /\ Answered(w) = TripsBefore(w) + 1
        /\ Served(w) = IF Alone THEN Asked(w) ELSE loop[w].served
    BY <1>4, <2>4, <2>5, TripsAre DEF TripsOf
  <2>7. /\ Asked(w)' = TripsBefore(w) + 1 + 0 /\ Answered(w)' = TripsBefore(w) + 1
        /\ Served(w)' = IF Alone THEN Asked(w)' ELSE loop[w].served
    BY <1>1, <1>3, <1>4, <2>2, <2>3, <2>4, <2>5, TripsAre DEF TripsOf
  <2>8. Asked(w)' = Asked(w)
    BY <2>3, <2>6, <2>7
  <2> QED
    BY <2>6, <2>7, <2>8 DEF StaysAt
<1>6. CASE cb'[w] \in {"pre", "fini", "done"}
  <2>1. Asked(w)' = 0 /\ Served(w)' = 0 /\ Answered(w)' = 0
    <3>1. CASE cb'[w] = "pre"
      <4>1. PreCalls \subseteq Range(todo'[w])
        BY <1>2, <3>1 DEF Entered, Lists
      <4>2. Left(w, "write")' /\ Left(w, "read")' /\ (~Alone => Left(w, "spawn")')
        BY <4>1, MakeFields DEF PreCalls, TripCalls, Left
      <4>3. TripsBefore(w)' = 0 /\ InRound(w)'
        BY <3>1 DEF TripsBefore, InRound
      <4>4. Asked(w)' = 0 + 0 /\ Reads(w)' = 0 + 0
        BY <1>1, <1>4, <4>2, <4>3, TripsAre DEF TripsOf, Reads
      <4> QED
        BY <1>3, <4>2, <4>3, <4>4, TripsAre DEF TripsOf
    <3>2. CASE cb'[w] \in {"fini", "done"}
      BY <3>2, TripsAre DEF TripsOf, InRound
    <3> QED
      BY <1>6, <3>1, <3>2
  <2>2. CASE cb[w] = "post"
    <3>1. Answered(w) = 3
      BY <1>4, <2>2, TripsAre DEF TripsOf, InRound, Reads, TripsBefore
    <3> QED
      BY <2>1, <3>1 DEF RenewsAt
  <2>3. CASE cb[w] # "post"
    <3>1. ~InRound(w)
      BY <1>2, <1>6, <2>3 DEF Entered, InRound
    <3> QED
      BY <2>1, <3>1, TripsAre DEF TripsOf, StaysAt
  <2> QED
    BY <2>2, <2>3
<1> QED
  BY <1>2, <1>5, <1>6

LEMMA InitTrips == Init => Trip!Init
<1> SUFFICES ASSUME Init PROVE Trip!Init
  OBVIOUS
<1>1. \A w \in Worker : Asked(w) = 0 /\ Served(w) = 0 /\ Answered(w) = 0
  <2>1. \A w \in Worker : ~InRound(w)
    BY DEF Init, InRound
  <2> QED
    BY <2>1, TripsAre DEF TripsOf
<1> QED
  BY <1>1 DEF Trip!Init, Trip!Zero

LEMMA NextTrips ==
  PlanInv /\ ClosesInv /\ EchoInv /\ [Next]_vars => [Trip!Next]_(Trip!vars)
<1> SUFFICES ASSUME PlanInv, ClosesInv, EchoInv, [Next]_vars
             PROVE  [Trip!Next]_(Trip!vars)
  OBVIOUS
<1>1. bench' = bench
  BY NextPlace
<1>2. \A v \in Worker : Same(v) => StaysAt(v)
  BY <1>1, SameTrips
<1>3. CASE \A v \in Worker : Same(v)
  <2>1. 0 \in Worker
    BY CallbacksAssumption DEF Worker
  <2> QED
    BY <1>2, <1>3, <2>1, TripStep
<1>4. ASSUME NEW w \in Worker,
             \/ MakeOne(w) \/ MakeFails(w) \/ BindPort(w) \/ StartListening(w)
             \/ ListenFails(w) \/ Connect(w) \/ Spawn(w) \/ SpawnFails(w)
             \/ Write(w) \/ Read(w) \/ ReadFails(w) \/ Join(w) \/ CloseOne(w)
             \/ UnlinkOne(w) \/ LoopRead(w) \/ LoopWrite(w) \/ LoopFails(w)
             \/ Advance(w) \/ Stop(w)
      PROVE  StaysAt(w) \/ AsksAt(w) \/ ServesAt(w) \/ AnswersAt(w) \/ RenewsAt(w)
  <2>0. EchoOf(w)
    BY DEF EchoInv
  <2>1. CASE MakeFails(w) \/ ListenFails(w) \/ ReadFails(w) \/ Stop(w)
    <3>1. Same(w)
      BY <2>1 DEF MakeFails, ListenFails, ReadFails, Stop, Halt, Fails, files, data,
         place, Same
    <3> QED
      BY <1>2, <3>1
  <2>2. CASE \/ MakeOne(w) \/ BindPort(w) \/ StartListening(w) \/ Connect(w)
             \/ Join(w) \/ CloseOne(w)
    <3>1. /\ todo[w] # <<>> /\ Done(w) /\ UNCHANGED <<sent, loop>>
          /\ Head(todo[w]).op \notin {"spawn", "write", "read"}
      BY <2>2 DEF MakeOne, BindPort, StartListening, Connect, Join, CloseOne, Next1, data
    <3> QED
      BY <1>1, <3>1, DoneTrips
  <2>3. CASE UnlinkOne(w)
    <3>1. /\ todo[w] # <<>> /\ UNCHANGED <<held, leaked, chan, sent, got, loop>>
          /\ Head(todo[w]).op = "unlink"
          /\ Done(w) \/ UNCHANGED place
      BY <2>3 DEF UnlinkOne, Fails, Next1, files, data
    <3>2. UNCHANGED place => Same(w)
      BY <3>1 DEF place, Same
    <3> QED
      BY <1>1, <1>2, <3>1, <3>2, DoneTrips
  <2> QED
    BY <1>4, <2>0, <2>1, <2>2, <2>3, SpawnTrips, WriteTrips, ReadTrips, LoopReadTrips,
       LoopTrips, AdvanceTrips
<1>5. ASSUME NEW w \in Worker, \A v \in Worker \ {w} : Same(v),
             \/ MakeOne(w) \/ MakeFails(w) \/ BindPort(w) \/ StartListening(w)
             \/ ListenFails(w) \/ Connect(w) \/ Spawn(w) \/ SpawnFails(w)
             \/ Write(w) \/ Read(w) \/ ReadFails(w) \/ Join(w) \/ CloseOne(w)
             \/ UnlinkOne(w) \/ LoopRead(w) \/ LoopWrite(w) \/ LoopFails(w)
             \/ Advance(w) \/ Stop(w)
      PROVE  [Trip!Next]_(Trip!vars)
  BY <1>2, <1>4, <1>5, TripStep
<1> QED
  BY <1>3, <1>5, OneActor

(***************************************************************************)
(* Every callback of a worker is one round trip: its request is written,   *)
(* its own loopback reads all of it and only then is there an answer to    *)
(* read, for every transport, mode, size and capacity (write, readall and  *)
(* loopback of src/pipe.c).                                                *)
(***************************************************************************)
THEOREM PipeRefinement == Spec => ImplementsEcho
<1>1. Init => PlanInv /\ ClosesInv /\ EchoInv /\ Trip!Init
  BY InitPlan, InitCloses, InitEcho, InitTrips
<1>2. PlanInv /\ ClosesInv /\ EchoInv /\ [Next]_vars => (PlanInv /\ ClosesInv /\ EchoInv)'
  BY NextPlan, NextCloses, NextEcho
<1>3. PlanInv /\ ClosesInv /\ EchoInv /\ [Next]_vars => [Trip!Next]_(Trip!vars)
  BY NextTrips
<1> QED
  BY <1>1, <1>2, <1>3, PTL DEF Spec, ImplementsEcho, Trip!Spec

(***************************************************************************)
(* Why a run fails.  A worker that reads alone finds what it wrote; the    *)
(* descriptors of a process are as many as its workers have.               *)
(***************************************************************************)
FirstMade == IF Xport = "tcp" THEN {"lsn"} ELSE {}

\* Units that a worker alone has in its channel.
Pending(w) ==
  IF Left(w, "write") THEN sent[w] ELSE IF Left(w, "read") THEN Size - got[w] ELSE 0

SoloInv(w) ==
  LET c == ReadSide(Ends.in) IN
  Alone /\ InRound(w) =>
    \/ cb[w] = "pre" /\ \E d \in Due(w, "make") \ {"lsn"} : WriteSide(d) = c
    \/ chan[w][c] = Pending(w)

OwnInv(w) ==
  /\ held[w] \subseteq MadeAll \cup FirstMade
  /\ cb[w] = "pre" /\ Left(w, "make") => Left(w, "write")
  /\ SoloInv(w)

SupplyInv == \A w \in Worker : OwnInv(w)

LEMMA SameOwn ==
  ASSUME NEW v \in Worker, OwnInv(v), UNCHANGED bench,
         cb'[v] = cb[v], todo'[v] = todo[v], held'[v] \subseteq held[v],
         Alone => chan'[v] = chan[v], sent'[v] = sent[v], got'[v] = got[v]
  PROVE  OwnInv(v)'
<1>1. /\ Alone' = Alone /\ Size' = Size /\ Ends' = Ends /\ MadeAll' = MadeAll
      /\ FirstMade' = FirstMade
  BY SameCalls DEF FirstMade
<1>2. /\ \A o : Left(v, o)' <=> Left(v, o)
      /\ Due(v, "make")' = Due(v, "make")
      /\ InRound(v)' <=> InRound(v)
  BY DEF Left, Due, InRound
<1>3. Pending(v)' = Pending(v)
  BY <1>1, <1>2 DEF Pending
<1>4. SoloInv(v)'
  BY <1>1, <1>2, <1>3 DEF OwnInv, SoloInv
<1> QED
  BY <1>1, <1>2, <1>4 DEF OwnInv

\* Calls that move no data and make nothing.
LEMMA DoneOwn ==
  ASSUME PlanInv, NEW w \in Worker, OwnInv(w), todo[w] # <<>>, Done(w),
         UNCHANGED <<bench, chan, sent, got>>, held'[w] \subseteq held[w],
         Head(todo[w]).op \notin {"make", "write", "read"}
  PROVE  OwnInv(w)'
<1>1. /\ Alone' = Alone /\ Size' = Size /\ Ends' = Ends /\ MadeAll' = MadeAll
      /\ FirstMade' = FirstMade
  BY SameCalls DEF FirstMade
<1>2. cb' = cb
  BY DEF Done
<1>3. /\ Left(w, "make")' <=> Left(w, "make")
      /\ Left(w, "write")' <=> Left(w, "write")
      /\ Left(w, "read")' <=> Left(w, "read")
      /\ Due(w, "make")' = Due(w, "make")
  BY LessLeft
<1>4. Pending(w)' = Pending(w) /\ (InRound(w)' <=> InRound(w))
  BY <1>1, <1>2, <1>3 DEF Pending, InRound
<1>5. SoloInv(w)'
  BY <1>1, <1>2, <1>3, <1>4 DEF OwnInv, SoloInv
<1> QED
  BY <1>1, <1>2, <1>3, <1>5 DEF OwnInv

\* What is made is one of at most four, and at most two at a time.
LEMMA MakeWhat ==
  ASSUME PlanInv, NEW w \in Worker, NEW c \in Range(todo[w]), c.op = "make"
  PROVE  c.what \subseteq MadeAll \cup FirstMade /\ \E a, b : c.what \subseteq {a, b}
<1>0. bench \in Options
  BY DEF PlanInv, TypeInv
<1>1. c \in FirstCalls \cup PreCalls
  BY CallWhat DEF Making
<1>2. CASE c \in FirstCalls
  <2>1. c.what = {"lsn"} /\ Xport = "tcp"
    BY <1>0, <1>2, MadeFacts DEF FirstCalls
  <2> QED
    BY <2>1 DEF FirstMade
<1>3. CASE c \in PreCalls
  <2>1. c.what \subseteq MadeAll
    BY <1>0, <1>3, MadeFacts
  <2>2. c \in PrepareCalls
    BY <1>3, MakeFields DEF PreCalls, TripCalls
  <2>3. \E a, b : c.what \subseteq {a, b}
    <3>1. Alone \in BOOLEAN /\ Xport \in {"pipe", "fifo", "sock", "tcp"}
      BY <1>0, BenchType
    <3>2. c.what \in {{"p0", "p1"}, {"q0", "q1"}, {"s0", "s1"}, {"a0"}, {"a1"}, {"b0"},
                     {"b1"}, {"cli"}, {"acc"}}
      <4>1. CASE Alone
        BY <2>2, <3>1, <4>1, MakeFields DEF PrepareCalls
      <4>2. CASE ~Alone
        BY <2>2, <3>1, <4>2, MakeFields DEF PrepareCalls
      <4> QED
        BY <4>1, <4>2
    <3>3. \A a : {a} \subseteq {a, a}
      OBVIOUS
    <3> QED
      BY <3>2, <3>3, Zenon
  <2> QED
    BY <2>1, <2>3
<1> QED
  BY <1>1, <1>2, <1>3

LEMMA MakeOwn ==
  ASSUME PlanInv, NEW w \in Worker, EchoOf(w), OwnInv(w), MakeOne(w)
  PROVE  OwnInv(w)'
<1> DEFINE h == Head(todo[w])
           ds == Head(todo[w]).what
           fresh == {WriteSide(d) : d \in ds \ {"lsn"}}
<1>1. /\ todo[w] # <<>> /\ Done(w) /\ h.op = "make" /\ bench' = bench
      /\ UNCHANGED <<sent, got>> /\ held' = [held EXCEPT ![w] = held[w] \cup ds]
      /\ chan' = [chan EXCEPT ![w] =
                    [c \in {"x", "y"} |-> IF c \in fresh THEN 0 ELSE chan[w][c]]]
  BY DEF MakeOne, Next1, choice
<1>2. /\ cb' = cb /\ Alone' = Alone /\ Size' = Size /\ Ends' = Ends
      /\ MadeAll' = MadeAll /\ FirstMade' = FirstMade
  BY <1>1, SameCalls DEF Done, FirstMade
<1>3. h \in Range(todo[w]) /\ Left(w, "make")
  BY <1>1, HeadCall DEF Left
<1>4. cb[w] = "pre" /\ Left(w, "write")
  BY <1>1, <1>3, CallWhat DEF Making, OwnInv
<1>5. Left(w, "write")' /\ Due(w, "make") = Due(w, "make")' \cup ds
  BY <1>1, <1>4, LessLeft
<1>6. held'[w] \subseteq MadeAll \cup FirstMade
  BY <1>1, <1>3, MakeWhat DEF OwnInv, PlanInv, TypeInv
<1>7. sent[w] = 0 /\ Pending(w) = 0 /\ Pending(w)' = 0
  BY <1>1, <1>4, <1>5 DEF EchoOf, MovesInv, Pending
<1>8. \A c \in {"x", "y"} : chan'[w][c] = IF c \in fresh THEN 0 ELSE chan[w][c]
  BY <1>1 DEF PlanInv, TypeInv
<1>9. SoloInv(w)'
  BY <1>2, <1>4, <1>5, <1>7, <1>8, Sides DEF OwnInv, SoloInv, InRound
<1> QED
  BY <1>2, <1>5, <1>6, <1>9 DEF OwnInv

\* Alone, a worker reads from the channel that it writes to.
LEMMA SoloSides ==
  ASSUME bench \in Options, Alone
  PROVE  ReadSide(Ends.in) = WriteSide(Ends.out)
  BY BenchType DEF Ends, ReadSide, WriteSide

\* Who reads or writes has made everything.
LEMMA MadeBefore ==
  ASSUME PlanInv, NEW w \in Worker, todo[w] # <<>>,
         Head(todo[w]).op \in {"write", "read"}
  PROVE  ~Left(w, "make") /\ Due(w, "make") = {}
<1>1. /\ Range(todo[w]) = {Head(todo[w])} \cup Range(Tail(todo[w]))
      /\ \A b \in Range(Tail(todo[w])) : Before(Head(todo[w]), b)
  BY PlanSeq, ListsTail
<1>2. \A b \in Range(todo[w]) : b.op # "make"
  BY <1>1 DEF Before
<1> QED
  BY <1>2 DEF Left, Due

LEMMA WriteOwn ==
  ASSUME PlanInv, NEW w \in Worker, EchoOf(w), OwnInv(w), Write(w)
  PROVE  OwnInv(w)'
<1> DEFINE c == WriteSide(Ends.out)
<1>1. /\ InRound(w) /\ cb' = cb /\ got' = got /\ bench' = bench /\ got[w] = 0
      /\ Left(w, "write") /\ Left(w, "read")'
  BY WriteFacts
<1>2. PICK k \in Nat :
        /\ Put(w, c, k)
        /\ \/ sent[w] + k = Size /\ sent'[w] = 0 /\ ~Left(w, "write")'
           \/ /\ k > 0 /\ sent[w] + k < Size /\ sent'[w] = sent[w] + k
              /\ Left(w, "write")'
              /\ todo'[w] = todo[w]
  BY WriteFacts
<1>3. /\ Alone' = Alone /\ Size' = Size /\ Ends' = Ends /\ MadeAll' = MadeAll
      /\ FirstMade' = FirstMade
  BY <1>1, SameCalls DEF FirstMade
<1>4. /\ todo[w] # <<>> /\ Head(todo[w]).op = "write" /\ held' = held
      /\ Done(w) \/ todo' = todo
  BY DEF Write, Next1, files, place
<1>5. ~Left(w, "make") /\ Due(w, "make") = {}
  BY <1>4, MadeBefore
<1>6. ~Left(w, "make")'
  <2>1. CASE Done(w)
    BY <1>4, <1>5, <2>1, LessLeft
  <2>2. CASE todo' = todo
    BY <1>5, <2>2 DEF Left
  <2> QED
    BY <1>4, <2>1, <2>2
<1>7. ASSUME Alone PROVE SoloInv(w)'
  <2>1. /\ Size \in Nat /\ sent[w] \in Nat /\ got[w] \in Nat
        /\ \A d \in {"x", "y"} : chan[w][d] \in Nat
    BY FlightType
  <2>2. bench \in Options /\ ReadSide(Ends.in) = c
    BY <1>7, SoloSides DEF PlanInv, TypeInv
  <2>3. chan[w][c] = sent[w]
    BY <1>1, <1>5, <1>7, <2>2 DEF OwnInv, SoloInv, Pending
  <2>4. chan'[w][c] = chan[w][c] + k
    BY <1>2, Sides, Moved
  <2>5. chan'[w][c] = Pending(w)'
    <3>1. CASE sent[w] + k = Size /\ sent'[w] = 0 /\ ~Left(w, "write")'
      BY <1>1, <1>3, <2>1, <2>3, <2>4, <3>1 DEF Pending
    <3>2. CASE sent'[w] = sent[w] + k /\ Left(w, "write")'
      BY <2>3, <2>4, <3>2 DEF Pending
    <3> QED
      BY <1>2, <3>1, <3>2
  <2> QED
    BY <1>3, <2>2, <2>5 DEF SoloInv
<1> QED
  BY <1>3, <1>4, <1>6, <1>7 DEF OwnInv, SoloInv

LEMMA ReadOwn ==
  ASSUME PlanInv, NEW w \in Worker, EchoOf(w), OwnInv(w), Read(w)
  PROVE  OwnInv(w)'
<1> DEFINE c == ReadSide(Ends.in)
<1>1. /\ InRound(w) /\ cb' = cb /\ sent' = sent /\ bench' = bench
      /\ ~Left(w, "write") /\ ~Left(w, "write")' /\ Left(w, "read")
  BY ReadFacts
<1>2. PICK k \in Nat :
        /\ k >= 1 /\ k <= chan[w][c]
        /\ Take(w, c, k)
        /\ \/ got[w] + k = Size /\ got'[w] = 0 /\ ~Left(w, "read")'
           \/ /\ got[w] + k < Size /\ got'[w] = got[w] + k
              /\ Left(w, "read")'
              /\ todo'[w] = todo[w]
  BY ReadFacts
<1>3. /\ Alone' = Alone /\ Size' = Size /\ Ends' = Ends /\ MadeAll' = MadeAll
      /\ FirstMade' = FirstMade
  BY <1>1, SameCalls DEF FirstMade
<1>4. /\ todo[w] # <<>> /\ Head(todo[w]).op = "read" /\ held' = held
      /\ Done(w) \/ todo' = todo
  BY DEF Read, Next1, files, place
<1>5. ~Left(w, "make") /\ Due(w, "make") = {}
  BY <1>4, MadeBefore
<1>6. ~Left(w, "make")'
  <2>1. CASE Done(w)
    BY <1>4, <1>5, <2>1, LessLeft
  <2>2. CASE todo' = todo
    BY <1>5, <2>2 DEF Left
  <2> QED
    BY <1>4, <2>1, <2>2
<1>7. ASSUME Alone PROVE SoloInv(w)'
  <2>1. /\ Size \in Nat /\ sent[w] \in Nat /\ got[w] \in Nat
        /\ \A d \in {"x", "y"} : chan[w][d] \in Nat
    BY FlightType
  <2>2. chan[w][c] = Size - got[w]
    BY <1>1, <1>5, <1>7 DEF OwnInv, SoloInv, Pending
  <2>3. chan'[w][c] = chan[w][c] - k
    BY <1>2, Sides, Moved
  <2>4. chan'[w][c] = Pending(w)'
    <3>1. CASE got[w] + k = Size /\ got'[w] = 0 /\ ~Left(w, "read")'
      BY <1>1, <2>1, <2>2, <2>3, <3>1 DEF Pending
    <3>2. CASE got'[w] = got[w] + k /\ Left(w, "read")'
      BY <1>1, <1>3, <2>1, <2>2, <2>3, <3>2 DEF Pending
    <3> QED
      BY <1>2, <3>1, <3>2
  <2> QED
    BY <1>3, <2>4 DEF SoloInv
<1> QED
  BY <1>3, <1>4, <1>6, <1>7 DEF OwnInv, SoloInv

LEMMA AdvanceOwn ==
  ASSUME PlanInv, NEW w \in Worker, EchoOf(w), OwnInv(w), Advance(w)
  PROVE  OwnInv(w)'
<1>1. /\ bench \in Options /\ UNCHANGED <<held, chan, sent, got>>
      /\ todo[w] = <<>>
  BY DEF PlanInv, TypeInv, Advance, data, files, LoopTest, Return, Idle
<1>2. /\ Entered(w) /\ cb'[w] \in {"pre", "bench", "post", "fini", "done"}
      /\ bench' = bench
  BY AdvanceEntered DEF Advance, choice
<1>3. /\ Alone' = Alone /\ Size' = Size /\ Ends' = Ends /\ MadeAll' = MadeAll
      /\ FirstMade' = FirstMade
  BY <1>2, SameCalls DEF FirstMade
<1>4. sent[w] = 0 /\ \A o : ~Left(w, o)
  BY <1>1, Empties DEF EchoOf, MovesInv, Left
<1>5. CASE cb'[w] = "pre"
  <2>1. PreCalls \subseteq Range(todo'[w])
    BY <1>2, <1>5 DEF Entered, Lists
  <2>2. MadeAll \subseteq Due(w, "make")'
    BY <1>1, <2>1, MadeFacts DEF Due
  <2>3. Left(w, "write")'
    BY <2>1, MakeFields DEF PreCalls, TripCalls, Left
  <2>4. SoloInv(w)'
    BY <1>1, <1>3, <1>5, <2>2, MadeSides, Sides DEF SoloInv
  <2> QED
    BY <1>1, <1>3, <2>3, <2>4 DEF OwnInv
<1>6. CASE cb'[w] \in {"bench", "post"}
  <2>1. cb[w] \in {"pre", "bench"} /\ TripCalls \subseteq Range(todo'[w])
    BY <1>2, <1>6 DEF Entered, Lists, PostCalls
  <2>2. Left(w, "write")'
    BY <2>1, MakeFields DEF TripCalls, Left
  <2>3. Alone => chan[w][ReadSide(Ends.in)] = 0
    <3>1. Due(w, "make") = {}
      BY <1>4 DEF Due, Left
    <3> QED
      BY <1>4, <2>1, <3>1 DEF OwnInv, SoloInv, Pending, InRound
  <2>4. Pending(w)' = 0
    BY <1>1, <1>4, <2>2 DEF Pending
  <2> QED
    BY <1>1, <1>3, <1>6, <2>2, <2>3, <2>4 DEF OwnInv, SoloInv
<1>7. CASE cb'[w] \in {"fini", "done"}
  BY <1>1, <1>3, <1>7 DEF OwnInv, SoloInv, InRound
<1> QED
  BY <1>2, <1>5, <1>6, <1>7

LEMMA InitSupply == Init => SupplyInv
<1> SUFFICES ASSUME Init, NEW w \in Worker PROVE OwnInv(w)
  BY DEF SupplyInv
<1>1. cb[w] = "worker" /\ held[w] = {}
  BY DEF Init
<1> QED
  BY <1>1 DEF OwnInv, SoloInv, InRound

LEMMA NextSupply ==
  PlanInv /\ ClosesInv /\ EchoInv /\ SupplyInv /\ [Next]_vars => SupplyInv'
<1> SUFFICES ASSUME PlanInv, ClosesInv, EchoInv, SupplyInv, [Next]_vars
             PROVE  SupplyInv'
  OBVIOUS
<1>1. bench' = bench
  BY NextPlace
<1>2. \A v \in Worker : Same(v) => OwnInv(v)'
  BY <1>1, SameOwn DEF SupplyInv, Same
<1>3. ASSUME NEW w \in Worker,
             \/ MakeOne(w) \/ MakeFails(w) \/ BindPort(w) \/ StartListening(w)
             \/ ListenFails(w) \/ Connect(w) \/ Spawn(w) \/ SpawnFails(w)
             \/ Write(w) \/ Read(w) \/ ReadFails(w) \/ Join(w) \/ CloseOne(w)
             \/ UnlinkOne(w) \/ LoopRead(w) \/ LoopWrite(w) \/ LoopFails(w)
             \/ Advance(w) \/ Stop(w)
      PROVE  OwnInv(w)'
  <2>0. OwnInv(w) /\ EchoOf(w)
    BY DEF SupplyInv, EchoInv
  <2>1. CASE MakeFails(w) \/ ListenFails(w) \/ ReadFails(w) \/ Stop(w)
    <3>1. Same(w)
      BY <2>1 DEF MakeFails, ListenFails, ReadFails, Stop, Halt, Fails, files, data,
         place, Same
    <3> QED
      BY <1>2, <3>1
  <2>2. CASE BindPort(w) \/ StartListening(w) \/ Connect(w) \/ Spawn(w) \/ SpawnFails(w)
             \/ Join(w) \/ CloseOne(w) \/ UnlinkOne(w)
    <3>1. /\ todo[w] # <<>> /\ UNCHANGED <<chan, sent, got>>
          /\ Head(todo[w]).op \notin {"make", "write", "read"}
          /\ Done(w) \/ UNCHANGED place
          /\ \/ held' = held
             \/ held' = [held EXCEPT ![w] = held[w] \ Head(todo[w]).what]
      BY <2>2 DEF BindPort, StartListening, Connect, Spawn, SpawnFails, Join, CloseOne,
         UnlinkOne, Fails, Next1, files, data
    <3>2. held'[w] \subseteq held[w]
      BY <3>1 DEF PlanInv, TypeInv
    <3>3. CASE Done(w)
      BY <1>1, <2>0, <3>1, <3>2, <3>3, DoneOwn
    <3>4. CASE UNCHANGED place
      BY <1>1, <2>0, <3>1, <3>2, <3>4, SameOwn DEF place
    <3> QED
      BY <3>1, <3>3, <3>4
  <2>3. CASE LoopRead(w) \/ LoopWrite(w) \/ LoopFails(w)
    <3>1. /\ loop[w].pc \in {"read", "write"}
          /\ UNCHANGED <<place, held, sent, got>>
      BY <2>3 DEF LoopRead, LoopWrite, LoopFails, Fails, files, data
    <3>2. ~Alone
      BY <3>1 DEF ClosesInv, LoopInv
    <3> QED
      BY <1>1, <2>0, <3>1, <3>2, SameOwn DEF place
  <2> QED
    BY <1>3, <2>0, <2>1, <2>2, <2>3, MakeOwn, WriteOwn, ReadOwn, AdvanceOwn
<1>4. \A v \in Worker : OwnInv(v)'
  BY <1>2, <1>3, OneActor
<1> QED
  BY <1>4 DEF SupplyInv

(***************************************************************************)
(* The sum of the descriptors of a process.  The fold over a set is a      *)
(* recursive function on its subsets; that it exists, and what bounds it,  *)
(* is shown by the least cardinality for which it would fail.              *)
(***************************************************************************)
OpenOf(v) == Cardinality(held[v]) + leaked[v]
One(s) == CHOOSE x \in s : TRUE
Summing(S, it) ==
  [s \in SUBSET S |-> IF s = {} THEN 0 ELSE OpenOf(One(s)) + it[s \ {One(s)}]]
SumOver(S) == CHOOSE it : it = Summing(S, it)
Mates(w) == {v \in Worker : Proc(v) = Proc(w)}

LEMMA FdsOpenIs ==
  ASSUME NEW w
  PROVE  FdsOpen(w) = 3 + SumOver(Mates(w))[Mates(w)]
  BY DEF FdsOpen, MapThenSumSet, MapThenFoldSet, SumOver, Summing, OpenOf, One, Mates

LEMMA LeastNumber ==
  ASSUME NEW B \in SUBSET Nat, B # {}
  PROVE  \E m \in B : m = 0 \/ m - 1 \in Nat \ B
<1> DEFINE Less == OpToRel(<, Nat)
<1>1. PICK m \in B : \A y \in B : <<y, m>> \notin Less
  BY NatLessThanWellFounded, WFMin
<1>2. CASE m # 0
  <2>1. m - 1 \in Nat /\ m \in Nat
    BY <1>2
  <2>2. <<m - 1, m>> \in Less
    BY <2>1 DEF OpToRel
  <2> QED
    BY <1>1, <2>1, <2>2
<1> QED
  BY <1>2

LEMMA OneOf ==
  ASSUME NEW S, IsFiniteSet(S), NEW s \in SUBSET S, s # {}
  PROVE  /\ One(s) \in s /\ s \ {One(s)} \in SUBSET S
         /\ Cardinality(s) \in Nat \ {0}
         /\ Cardinality(s \ {One(s)}) = Cardinality(s) - 1
<1>1. One(s) \in s
  BY DEF One
<1>2. IsFiniteSet(s)
  BY FS_Subset
<1> QED
  BY <1>1, <1>2, FS_RemoveElement, FS_CardinalityType, FS_EmptySet

LEMMA SumExists ==
  ASSUME NEW S, IsFiniteSet(S)
  PROVE  SumOver(S) = Summing(S, SumOver(S))
<1> DEFINE Claim(n) ==
             \E g : \A s \in SUBSET S : Cardinality(s) <= n => g[s] = Summing(S, g)[s]
           B == {n \in Nat : ~Claim(n)}
<1>1. ASSUME NEW s \in SUBSET S PROVE IsFiniteSet(s) /\ Cardinality(s) \in Nat
  BY FS_Subset, FS_CardinalityType
<1>2. Claim(0)
  <2> DEFINE g == [s \in SUBSET S |-> 0]
  <2>1. ASSUME NEW s \in SUBSET S, Cardinality(s) <= 0 PROVE g[s] = Summing(S, g)[s]
    <3>1. s = {}
      BY <1>1, <2>1, FS_EmptySet
    <3> QED
      BY <3>1 DEF Summing
  <2> HIDE DEF g
  <2> QED
    BY <2>1
<1>3. ASSUME NEW m \in Nat, m # 0, Claim(m - 1) PROVE Claim(m)
  <2>1. PICK g : \A s \in SUBSET S : Cardinality(s) <= m - 1 => g[s] = Summing(S, g)[s]
    BY <1>3
  <2> DEFINE h == Summing(S, g)
  <2>2. ASSUME NEW s \in SUBSET S, Cardinality(s) <= m PROVE h[s] = Summing(S, h)[s]
    <3>1. CASE s = {}
      BY <3>1 DEF Summing
    <3>2. CASE s # {}
      <4> DEFINE r == s \ {One(s)}
      <4>1. r \in SUBSET S /\ Cardinality(r) <= m - 1
        BY <1>1, <2>2, <3>2, OneOf
      <4>2. h[r] = g[r]
        BY <2>1, <4>1
      <4>3. h[s] = OpenOf(One(s)) + g[r] /\ Summing(S, h)[s] = OpenOf(One(s)) + h[r]
        BY <3>2 DEF Summing
      <4> QED
        BY <4>2, <4>3
    <3> QED
      BY <3>1, <3>2
  <2> HIDE DEF h
  <2> QED
    BY <2>2
<1>4. B = {}
  <2> HIDE DEF Claim
  <2>1. ASSUME B # {} PROVE FALSE
    <3>1. PICK m \in B : m = 0 \/ m - 1 \in Nat \ B
      BY <2>1, LeastNumber
    <3> QED
      BY <1>2, <1>3, <3>1
  <2> QED
    BY <2>1
<1>5. Claim(Cardinality(S))
  <2> HIDE DEF Claim
  <2> QED
    BY <1>1, <1>4
<1>6. PICK g : \A s \in SUBSET S : g[s] = Summing(S, g)[s]
  <2>1. PICK g : \A s \in SUBSET S : Cardinality(s) <= Cardinality(S) =>
                   g[s] = Summing(S, g)[s]
    BY <1>5
  <2>2. \A s \in SUBSET S : Cardinality(s) <= Cardinality(S)
    BY FS_Subset
  <2> QED
    BY <2>1, <2>2
<1> DEFINE h == Summing(S, g)
<1>7. h = Summing(S, h)
  <2>1. \A s \in SUBSET S : h[s] = g[s]
    BY <1>6
  <2>2. \A s \in SUBSET S : s # {} => s \ {One(s)} \in SUBSET S
    OBVIOUS
  <2> HIDE DEF h
  <2>3. Summing(S, g) = Summing(S, h)
    BY <2>1, <2>2 DEF Summing
  <2> QED
    BY <2>3 DEF h
<1> HIDE DEF h
<1> QED
  BY <1>7 DEF SumOver

LEMMA SumBound ==
  ASSUME NEW S, IsFiniteSet(S), \A v \in S : OpenOf(v) \in 0..4
  PROVE  SumOver(S)[S] \in 0..(4 * Cardinality(S))
<1> DEFINE it == SumOver(S)
           Claim(n) == \A s \in SUBSET S : Cardinality(s) = n => it[s] \in 0..(4 * n)
           B == {n \in Nat : ~Claim(n)}
<1>1. ASSUME NEW s \in SUBSET S PROVE IsFiniteSet(s) /\ Cardinality(s) \in Nat
  BY FS_Subset, FS_CardinalityType
<1>2. \A s \in SUBSET S :
        it[s] = IF s = {} THEN 0 ELSE OpenOf(One(s)) + it[s \ {One(s)}]
  BY SumExists DEF Summing
<1> HIDE DEF it
<1>3. Claim(0)
  <2>1. ASSUME NEW s \in SUBSET S, Cardinality(s) = 0 PROVE it[s] = 0
    <3>1. s = {}
      BY <1>1, <2>1, FS_EmptySet
    <3> QED
      BY <1>2, <3>1
  <2>2. 0 \in 0..(4 * 0)
    OBVIOUS
  <2> QED
    BY <2>1, <2>2
<1>4. ASSUME NEW m \in Nat, m # 0, Claim(m - 1) PROVE Claim(m)
  <2>1. ASSUME NEW s \in SUBSET S, Cardinality(s) = m PROVE it[s] \in 0..(4 * m)
    <3>1. s # {}
      BY <1>4, <2>1, FS_EmptySet
    <3>2. /\ One(s) \in S /\ s \ {One(s)} \in SUBSET S
          /\ Cardinality(s \ {One(s)}) = m - 1
      BY <2>1, <3>1, OneOf
    <3>3. it[s \ {One(s)}] \in 0..(4 * (m - 1)) /\ OpenOf(One(s)) \in 0..4
      BY <1>4, <3>2
    <3>4. it[s] = OpenOf(One(s)) + it[s \ {One(s)}]
      BY <1>2, <3>1
    <3> QED
      BY <3>3, <3>4
  <2> QED
    BY <2>1
<1>5. B = {}
  <2> HIDE DEF Claim
  <2>1. ASSUME B # {} PROVE FALSE
    <3>1. PICK m \in B : m = 0 \/ m - 1 \in Nat \ B
      BY <2>1, LeastNumber
    <3> QED
      BY <1>3, <1>4, <3>1
  <2> QED
    BY <2>1
<1> QED
  BY <1>1, <1>5 DEF it

LEMMA OneElement ==
  ASSUME NEW S, IsFiniteSet(S), NEW x, NEW V, V = S \cup {x}
  PROVE  /\ IsFiniteSet(V) /\ Cardinality(V) \in Nat /\ Cardinality(S) \in Nat
         /\ Cardinality(V) <= Cardinality(S) + 1
  BY FS_AddElement, FS_CardinalityType

LEMMA AtMostFour ==
  ASSUME NEW a, NEW b, NEW c, NEW d
  PROVE  /\ IsFiniteSet({a, b}) /\ Cardinality({a, b}) \in 0..2
         /\ IsFiniteSet({a, b, c, d}) /\ Cardinality({a, b, c, d}) \in 0..4
<1>1. PICK A : A = {a}
  OBVIOUS
<1>2. PICK B : B = A \cup {b}
  OBVIOUS
<1>3. PICK C : C = B \cup {c}
  OBVIOUS
<1>4. PICK D : D = C \cup {d}
  OBVIOUS
<1>5. IsFiniteSet(A) /\ Cardinality(A) \in 0..1
  <2>1. IsFiniteSet(A) /\ Cardinality(A) = 1
    BY <1>1, FS_Singleton, Zenon
  <2> QED
    BY <2>1
<1>6. IsFiniteSet(B) /\ Cardinality(B) \in 0..2
  <2>1. /\ IsFiniteSet(B) /\ Cardinality(B) \in Nat /\ Cardinality(A) \in Nat
        /\ Cardinality(B) <= Cardinality(A) + 1
    BY <1>2, <1>5, OneElement, Zenon
  <2> QED
    BY <1>5, <2>1
<1>7. IsFiniteSet(C) /\ Cardinality(C) \in 0..3
  <2>1. /\ IsFiniteSet(C) /\ Cardinality(C) \in Nat /\ Cardinality(B) \in Nat
        /\ Cardinality(C) <= Cardinality(B) + 1
    BY <1>3, <1>6, OneElement, Zenon
  <2> QED
    BY <1>6, <2>1
<1>8. IsFiniteSet(D) /\ Cardinality(D) \in 0..4
  <2>1. /\ IsFiniteSet(D) /\ Cardinality(D) \in Nat /\ Cardinality(C) \in Nat
        /\ Cardinality(D) <= Cardinality(C) + 1
    BY <1>4, <1>7, OneElement, Zenon
  <2> QED
    BY <1>7, <2>1
<1>9. B = {a, b} /\ D = {a, b, c, d}
  BY <1>1, <1>2, <1>3, <1>4
<1> QED
  BY <1>6, <1>8, <1>9, Zenon

\* Each worker has at most four descriptors.
LEMMA HeldBound ==
  ASSUME PlanInv, ClosesInv, SupplyInv, ~Leaky, NEW v \in Worker
  PROVE  OpenOf(v) \in 0..4
<1>1. bench \in Options
  BY DEF PlanInv, TypeInv
<1>2. leaked[v] = 0
  BY DEF ClosesInv, FilesInv
<1>3. held[v] \subseteq MadeAll \cup FirstMade
  BY DEF SupplyInv, OwnInv
<1>4. \/ MadeAll \cup FirstMade \subseteq {"p0", "p1", "q0", "q1"}
      \/ MadeAll \cup FirstMade \subseteq {"a0", "a1", "b0", "b1"}
      \/ MadeAll \cup FirstMade \subseteq {"s0", "s1", "s0", "s1"}
      \/ MadeAll \cup FirstMade \subseteq {"cli", "acc", "lsn", "lsn"}
  BY <1>1, BenchType DEF MadeAll, FirstMade
<1>5. PICK a, b, c, d : held[v] \subseteq {a, b, c, d}
  BY <1>3, <1>4
<1>6. /\ Cardinality(held[v]) \in Nat
      /\ Cardinality(held[v]) <= Cardinality({a, b, c, d})
      /\ Cardinality({a, b, c, d}) \in 0..4
  BY <1>5, AtMostFour, FS_Subset, FS_CardinalityType
<1> QED
  BY <1>2, <1>6 DEF OpenOf

LEMMA MatesCount ==
  ASSUME lm_optT \in ThreadCounts, NEW w \in Worker
  PROVE  /\ Mates(w) \subseteq Worker /\ IsFiniteSet(Mates(w))
         /\ Cardinality(Mates(w)) = lm_optT /\ lm_optT \in Nat
  BY MateCount, LayoutThreads DEF Mates

LEMMA LimitBound == ASSUME lm_optT \in Nat PROVE FdLimit \in Nat /\ FdLimit >= 4 * lm_optT + 10
<1> DEFINE S == {InitLimit, 4 * lm_optT + 10}
<1>1. InitLimit \in Nat /\ 4 * lm_optT + 10 \in Nat
  BY PipeAssumption
<1>2. \E x \in S : \A y \in S : x >= y
  BY <1>1
<1>3. FdLimit \in S /\ \A y \in S : FdLimit >= y
  BY <1>2 DEF FdLimit, Max
<1> QED
  BY <1>1, <1>3

\* The limit is enough, unless descriptors leak.
LEMMA LimitEnough ==
  ASSUME lm_optT \in ThreadCounts, PlanInv, ClosesInv, SupplyInv, NEW w \in Worker, MakeFails(w)
  PROVE  Leaky
<1> SUFFICES ASSUME ~Leaky PROVE FALSE
  OBVIOUS
<1> DEFINE ds == Head(todo[w]).what
<1>1. /\ todo[w] # <<>> /\ Head(todo[w]).op = "make"
      /\ FdsOpen(w) + Cardinality(ds) > FdLimit
  BY DEF MakeFails, Next1
<1>2. PICK a, b : ds \subseteq {a, b}
  BY <1>1, HeadCall, MakeWhat
<1>3. Cardinality(ds) \in 0..2
  <2>1. /\ Cardinality({a, b}) \in 0..2 /\ IsFiniteSet({a, b})
        /\ Cardinality(ds) <= Cardinality({a, b}) /\ Cardinality(ds) \in Nat
    BY <1>2, AtMostFour, FS_Subset, FS_CardinalityType
  <2> QED
    BY <2>1
<1>4. SumOver(Mates(w))[Mates(w)] \in 0..(4 * lm_optT) /\ lm_optT \in Nat
  BY MatesCount, HeldBound, SumBound
<1>5. FdsOpen(w) = 3 + SumOver(Mates(w))[Mates(w)]
  BY FdsOpenIs
<1>6. FdLimit \in Nat /\ FdLimit >= 4 * lm_optT + 10
  BY <1>4, LimitBound
<1> QED
  BY <1>1, <1>3, <1>4, <1>5, <1>6

\* What a worker alone reads from a file is there.
LEMMA ReadFinds ==
  ASSUME PlanInv, EchoInv, SupplyInv, NEW w \in Worker, ReadFails(w)
  PROVE  Size = 0 \/ (Plain /\ ~Alone)
<1>1. /\ todo[w] # <<>> /\ Head(todo[w]).op = "read"
      /\ Size = 0 \/ (Plain /\ chan[w][ReadSide(Ends.in)] = 0)
  BY DEF ReadFails, Next1, AtEof
<1>2. ASSUME Alone, Size # 0 PROVE chan[w][ReadSide(Ends.in)] # 0
  <2>1. InRound(w) /\ ~Left(w, "write") /\ Left(w, "read")
    BY <1>1, MovingWorker
  <2>2. Due(w, "make") = {}
    BY <1>1, MadeBefore
  <2>3. chan[w][ReadSide(Ends.in)] = Size - got[w]
    BY <1>2, <2>1, <2>2 DEF SupplyInv, OwnInv, SoloInv, Pending
  <2>4. Size \in Nat /\ got[w] \in Nat
    BY FlightType
  <2>5. got[w] = 0 \/ got[w] < Size
    BY DEF EchoInv, EchoOf, MovesInv
  <2> QED
    BY <1>2, <2>3, <2>4, <2>5
<1> QED
  BY <1>1, <1>2

LEMMA ListenAlone ==
  ASSUME PlanInv, NEW w \in Worker, ListenFails(w)
  PROVE  Xport = "tcp" /\ N > 1
<1>1. todo[w] # <<>> /\ Head(todo[w]).op = "listen" /\ Taken(w)
  BY DEF ListenFails, Next1
<1>2. Head(todo[w]) \in FirstCalls \cup PreCalls
  BY <1>1, HeadCall, CallWhat DEF Making
<1>3. bench \in Options
  BY DEF PlanInv, TypeInv
<1>4. \A c \in PreCalls : c.op # "listen"
  <2>1. \A c \in PrepareCalls : c.op # "listen"
    BY <1>3, BenchType, MakeFields DEF PrepareCalls
  <2> QED
    BY <2>1, MakeFields DEF PreCalls, TripCalls
<1>5. Xport = "tcp"
  BY <1>1, <1>2, <1>4 DEF FirstCalls
<1>6. N > 1
  <2>1. PICK u \in Worker \ {w} : TRUE
    BY <1>1 DEF Taken
  <2> QED
    BY <2>1, CallbacksAssumption DEF Worker
<1> QED
  BY <1>5, <1>6

LEMMA UnlinkFile ==
  ASSUME PlanInv, NEW w \in Worker, UnlinkOne(w), failed' # failed
  PROVE  Plain /\ Alone /\ failed' = "unlink"
<1>1. /\ todo[w] # <<>> /\ Head(todo[w]).op = "unlink" /\ failed' = "unlink"
      /\ ~(\A f \in Head(todo[w]).what : Made(f))
  BY DEF UnlinkOne, Next1, Fails
<1>2. Head(todo[w]) \in PostCalls
  BY <1>1, HeadCall, CallWhat
<1>3. Head(todo[w]) \in UnlinkCalls
  BY <1>1, <1>2, MakeFields DEF PostCalls, TripCalls, CloseCalls
<1> QED
  BY <1>1, <1>3 DEF UnlinkCalls, Made, Plain

LEMMA SameThreads ==
  ASSUME PlanInv, [Next]_vars
  PROVE  lm_optT' = lm_optT
  BY NextPlaced DEF Placed, LoopTest, Return, Halt, choice

LEMMA NextFailures ==
  lm_optT \in ThreadCounts /\ PlanInv /\ ClosesInv /\ EchoInv /\ SupplyInv
    /\ FailuresKnown /\ [Next]_vars
  => FailuresKnown'
<1> SUFFICES ASSUME lm_optT \in ThreadCounts, PlanInv, ClosesInv, EchoInv, SupplyInv,
                    FailuresKnown, [Next]_vars
             PROVE  FailuresKnown'
  OBVIOUS
<1>0. bench' = bench
  BY NextPlace
<1>1. /\ Alone' = Alone /\ Xport' = Xport /\ Mode' = Mode /\ Size' = Size
      /\ Plain' = Plain
  BY <1>0, SameCalls
<1>2. CASE failed' = failed
  BY <1>1, <1>2 DEF FailuresKnown
<1>3. CASE failed' # failed
  <2>1. PICK w \in Worker :
          \/ MakeFails(w) \/ ListenFails(w) \/ SpawnFails(w) \/ ReadFails(w)
          \/ UnlinkOne(w) \/ LoopFails(w)
    BY <1>3, NextSteps DEF vars, MakeOne, BindPort, StartListening, Connect, Spawn,
       Write, Read, Join, CloseOne, LoopRead, LoopWrite, Advance, LoopTest, Return,
       Stop, Halt
  <2>2. CASE MakeFails(w)
    <3>1. failed' = "emfile"
      BY <2>2 DEF MakeFails, Fails
    <3> QED
      BY <1>1, <2>2, <3>1, LimitEnough DEF FailuresKnown, Leaky
  <2>3. CASE ListenFails(w)
    <3>1. failed' = "listen"
      BY <2>3 DEF ListenFails, Fails
    <3> QED
      BY <1>1, <2>3, <3>1, ListenAlone DEF FailuresKnown
  <2>4. CASE SpawnFails(w)
    <3>1. failed' = "spawn" /\ Mode = "mp"
      BY <1>3, <2>4 DEF SpawnFails, Fails
    <3> QED
      BY <1>1, <3>1 DEF FailuresKnown
  <2>5. CASE ReadFails(w)
    <3>1. failed' = "eof"
      BY <2>5 DEF ReadFails, Fails
    <3> QED
      BY <1>1, <2>5, <3>1, ReadFinds DEF FailuresKnown
  <2>6. CASE UnlinkOne(w)
    BY <1>1, <1>3, <2>6, UnlinkFile DEF FailuresKnown
  <2>7. CASE LoopFails(w)
    <3>1. /\ failed' = "eof" /\ loop[w].pc = "read"
          /\ Size = 0 \/ Plain
      BY <1>3, <2>7 DEF LoopFails, Fails, AtEof
    <3>2. ~Alone
      BY <3>1 DEF ClosesInv, LoopInv
    <3> QED
      BY <1>1, <3>1, <3>2 DEF FailuresKnown
  <2> QED
    BY <2>1, <2>2, <2>3, <2>4, <2>5, <2>6, <2>7
<1> QED
  BY <1>2, <1>3

(***************************************************************************)
(* A run is cut short only for the known reasons.  In particular the limit *)
(* that setfdlimit(4 * lm_optT + 10) asks for is enough for any number of  *)
(* threads, and with -x fifo a worker alone finds what it has written      *)
(* (benchmark_initrun, benchmark_pre and readall of src/pipe.c).           *)
(***************************************************************************)
THEOREM PipeFailures == Spec => []FailuresKnown
<1> DEFINE Inv == /\ lm_optT \in ThreadCounts
                  /\ PlanInv /\ ClosesInv /\ EchoInv /\ SupplyInv /\ FailuresKnown
<1>1. Init => Inv
  <2>1. Init => FailuresKnown /\ lm_optT \in ThreadCounts
    BY DEF Init, StartRun, FailuresKnown
  <2> QED
    BY <2>1, InitPlan, InitCloses, InitEcho, InitSupply
<1>2. Inv /\ [Next]_vars => Inv'
  BY NextPlan, NextCloses, NextEcho, NextSupply, NextFailures, SameThreads
<1>3. Inv => FailuresKnown
  OBVIOUS
<1> QED
  BY <1>1, <1>2, <1>3, PTL DEF Spec
====
