-------------------------- MODULE DescriptorsProof --------------------------
(***************************************************************************)
(* The benchmarks of Descriptors, for every number of workers: each call   *)
(* is made on the very descriptor that the worker opened for it, a round   *)
(* closes what it opens, accept() returns the worker's own connection, and *)
(* a run is cut short for the known reasons only.                          *)
(*                                                                         *)
(* The argument: what a worker has (open descriptors, a bound and a        *)
(* listening socket, a connection it waits for) is what the calls that are *)
(* left of its callback start from.  Each call is legal for what the       *)
(* worker has, and takes it to what the next call starts from.             *)
(***************************************************************************)
EXTENDS Descriptors, CallbacksProof, FiniteSetTheorems, FunctionTheorems

Calls == [op : {"open", "dup", "pair", "forge", "use", "close", "bind", "bindreuse",
                "listen", "start", "connect", "reconnect", "await", "accept"},
          var : Var \cup {"shared"}]

\* The sockets that are connected to.
TcpNames == {"close_tcp", "connection", "connection_a", "connection_c"}
\* Benchmarks whose workers work on the descriptor of benchmark_initrun.
SharedNames == {"dup", "pread", "pwrite", "fcntl", "fcntl_ndelay", "listen",
                "getsockname", "getpeername"}

Opening == {"open", "dup", "pair", "accept"}
Calling == {"start", "connect", "reconnect"}

\* The variables a worker of benchmark b opens descriptors for.
Needs(b) ==
  IF b \in TcpNames THEN {"lsn", "conn", "acc"}
  ELSE IF b = "bind" THEN {"lsn"}
  ELSE IF b = "close_b" \/ (b \in SharedNames /\ b # "dup") THEN {}
  ELSE {"fd"}

\* What a worker has: open descriptors, a bound and a listening socket, a
\* connection that it asked for and that it has not accepted.
Thing == Var \cup {"bound", "listens", "calling"}

\* The call c of benchmark b may be made by a worker that has h.
Legal(b, h, c) ==
  /\ c.op \in Opening => c.var \in Needs(b) \ h
  /\ c.op = "dup" => b = "dup"
  /\ c.op = "pair" => b = "socketpair"
  /\ c.op = "accept" => /\ c.var = "acc" /\ b # "connection_c"
                        /\ "lsn" \in h /\ "calling" \in h
  /\ c.op = "forge" => b = "close_b" /\ c.var \in Var \ h
  /\ c.op = "use" => \/ c.var \in Var /\ c.var \in h
                     \/ c.var = "shared" /\ b \in SharedNames
  /\ c.op = "close" => c.var \in Var /\ c.var \in h
  /\ c.op = "close" /\ c.var = "lsn" => "calling" \notin h
  /\ c.op = "close" /\ c.var = "conn" => "calling" \notin h \/ b = "connection_c"
  /\ c.op \in {"bind", "bindreuse"} => c.var = "lsn" /\ "lsn" \in h /\ "bound" \notin h
  /\ c.op = "bindreuse" => b = "close_tcp"
  /\ c.op = "listen" => /\ c.var = "lsn" /\ "lsn" \in h /\ "bound" \in h
                        /\ "listens" \notin h
  /\ c.op \in Calling => /\ c.var = "conn" /\ "conn" \in h
                         /\ "listens" \in h /\ "calling" \notin h
  /\ c.op \in {"connect", "reconnect"} => b = "close_tcp"
  /\ c.op = "await" => c.var = "conn" /\ "conn" \in h

\* What closing a descriptor takes away.
With(v) == CASE v = "lsn"  -> {"lsn", "bound", "listens"}
             [] v = "conn" -> {"conn", "calling"}
             [] OTHER      -> {v}

After(h, c) ==
  CASE c.op \in {"open", "dup", "pair"}    -> h \cup {c.var}
    [] c.op = "accept"                     -> (h \cup {c.var}) \ {"calling"}
    [] c.op = "close"                      -> h \ With(c.var)
    [] c.op \in {"bind", "bindreuse"}      -> h \cup {"bound"}
    [] c.op = "listen"                     -> h \cup {"listens"}
    [] c.op \in Calling                    -> h \cup {"calling"}
    [] c.op \in {"use", "forge", "await"}  -> h

\* What a worker has between rounds, and at the end of each callback.
Kept(b) ==
  IF b \in {"read", "write", "writev", "lseek", "isatty"} THEN {"fd"}
  ELSE IF b \in TcpNames THEN {"lsn", "bound", "listens"}
  ELSE {}

Ready(b) ==
  CASE b \in {"close", "setsockopt"}          -> {"fd"}
    [] b = "bind"                             -> {"lsn"}
    [] b = "close_tcp"                        -> {"conn", "acc"}
    [] b = "connection_a"                     -> {"conn", "calling"}
    [] b \in {"connection", "connection_c"}   -> {"conn"}
    [] OTHER                                  -> {}

Made(b) ==
  CASE b \in {"open", "socket", "socketpair", "dup", "setsockopt"} -> {"fd"}
    [] b = "bind"                             -> {"lsn"}
    [] b = "close_tcp"                        -> {"conn"}
    [] b \in {"connection", "connection_a"}   -> {"conn", "acc"}
    [] b = "connection_c"                     -> {"conn", "calling"}
    [] OTHER                                  -> {}

AtEnd(b, c) ==
  CASE c = "worker" -> IF b \in {"isatty", "close_tcp"} THEN Kept(b) ELSE {}
    [] c = "pre"    -> Kept(b) \cup Ready(b)
    [] c = "bench"  -> Kept(b) \cup Made(b)
    [] c = "post"   -> Kept(b)
    [] OTHER        -> IF b = "close_tcp" THEN {} ELSE Kept(b)

\* The calls t of benchmark b are legal one after the other, for a worker that
\* has h at first, and it has e at their end: f[i] is what it has before t[i].
Runs(b, t, h, e) ==
  \E f \in [1..(Len(t) + 1) -> SUBSET Thing] :
    /\ f[1] = h /\ f[Len(t) + 1] = e
    /\ \A i \in 1..Len(t) : Legal(b, f[i], t[i]) /\ f[i + 1] = After(f[i], t[i])

(***************************************************************************)
(* Runs of calls.                                                          *)
(***************************************************************************)
LEMMA AfterType ==
  ASSUME NEW b, NEW h \in SUBSET Thing, NEW c \in Calls, Legal(b, h, c)
  PROVE  After(h, c) \in SUBSET Thing
<1>1. c.op \in Opening => c.var \in Var
  BY DEF Legal, Needs, Var
<1> QED
  BY <1>1 DEF After, Thing, Var, Opening, Calling, Calls, With

LEMMA RunsNone ==
  ASSUME NEW b, NEW h \in SUBSET Thing
  PROVE  Runs(b, <<>>, h, h) /\ \A g, e : Runs(b, <<>>, g, e) => g = e
<1>1. Len(<<>>) = 0
  BY EmptySeq
<1>2. Runs(b, <<>>, h, h)
  <2> DEFINE f == [i \in 1..(0 + 1) |-> h]
  <2>1. f \in [1..(0 + 1) -> SUBSET Thing] /\ f[1] = h /\ f[0 + 1] = h /\ 1..0 = {}
    OBVIOUS
  <2> HIDE DEF f
  <2>2. \E g \in [1..(Len(<<>>) + 1) -> SUBSET Thing] :
          /\ g[1] = h /\ g[Len(<<>>) + 1] = h
          /\ \A i \in 1..Len(<<>>) : Legal(b, g[i], <<>>[i])
                                     /\ g[i + 1] = After(g[i], <<>>[i])
    BY <1>1, <2>1
  <2> QED
    BY <2>2 DEF Runs
<1>3. \A g, e : Runs(b, <<>>, g, e) => g = e
  BY <1>1 DEF Runs
<1> QED
  BY <1>2, <1>3

LEMMA RunsTail ==
  ASSUME NEW b, NEW h, NEW e, NEW t \in Seq(Calls), t # <<>>, Runs(b, t, h, e)
  PROVE  /\ h \in SUBSET Thing /\ Legal(b, h, Head(t))
         /\ Runs(b, Tail(t), After(h, Head(t)), e)
<1>1. PICK f \in [1..(Len(t) + 1) -> SUBSET Thing] :
        /\ f[1] = h /\ f[Len(t) + 1] = e
        /\ \A i \in 1..Len(t) : Legal(b, f[i], t[i]) /\ f[i + 1] = After(f[i], t[i])
  BY DEF Runs
<1>2. /\ Len(t) \in Nat \ {0} /\ Len(Tail(t)) = Len(t) - 1
      /\ \A i \in 1..Len(Tail(t)) : Tail(t)[i] = t[i + 1]
      /\ Head(t) = t[1]
  BY EmptySeq, HeadTailProperties
<1> DEFINE n == Len(Tail(t))
           g == [i \in 1..(n + 1) |-> f[i + 1]]
<1>3. n \in Nat /\ Len(t) = n + 1
  BY <1>2
<1>4. 1 \in 1..Len(t) /\ 1 \in 1..(Len(t) + 1)
  BY <1>2
<1>5. h \in SUBSET Thing /\ Legal(b, h, Head(t)) /\ f[2] = After(h, Head(t))
  BY <1>1, <1>2, <1>4
<1>6. g \in [1..(n + 1) -> SUBSET Thing]
  BY <1>3
<1>7. g[1] = After(h, Head(t)) /\ g[n + 1] = e
  BY <1>1, <1>3, <1>5
<1>8. ASSUME NEW i \in 1..n
      PROVE  Legal(b, g[i], Tail(t)[i]) /\ g[i + 1] = After(g[i], Tail(t)[i])
  <2>1. i + 1 \in 1..Len(t) /\ i \in 1..(n + 1) /\ i + 1 \in 1..(n + 1)
    BY <1>3
  <2>2. Legal(b, f[i + 1], t[i + 1]) /\ f[(i + 1) + 1] = After(f[i + 1], t[i + 1])
    BY <1>1, <2>1
  <2>3. g[i] = f[i + 1] /\ g[i + 1] = f[(i + 1) + 1] /\ Tail(t)[i] = t[i + 1]
    BY <1>2, <2>1
  <2> QED
    BY <2>2, <2>3
<1> QED
  BY <1>5, <1>6, <1>7, <1>8 DEF Runs

LEMMA RunsConcat ==
  ASSUME NEW b, NEW h, NEW m, NEW e, NEW s \in Seq(Calls), NEW t \in Seq(Calls),
         Runs(b, s, h, m), Runs(b, t, m, e)
  PROVE  Runs(b, s \o t, h, e)
<1>1. PICK p \in [1..(Len(s) + 1) -> SUBSET Thing] :
        /\ p[1] = h /\ p[Len(s) + 1] = m
        /\ \A i \in 1..Len(s) : Legal(b, p[i], s[i]) /\ p[i + 1] = After(p[i], s[i])
  BY DEF Runs
<1>2. PICK q \in [1..(Len(t) + 1) -> SUBSET Thing] :
        /\ q[1] = m /\ q[Len(t) + 1] = e
        /\ \A i \in 1..Len(t) : Legal(b, q[i], t[i]) /\ q[i + 1] = After(q[i], t[i])
  BY DEF Runs
<1> DEFINE k == Len(s)  n == Len(t)
           f == [i \in 1..((k + n) + 1) |-> IF i <= k THEN p[i] ELSE q[i - k]]
<1>3. /\ k \in Nat /\ n \in Nat /\ Len(s \o t) = k + n
      /\ \A i \in 1..(k + n) : (s \o t)[i] = IF i <= k THEN s[i] ELSE t[i - k]
  BY LenProperties, ConcatProperties
<1> HIDE DEF k, n
<1>4. f \in [1..((k + n) + 1) -> SUBSET Thing]
  <2>1. ASSUME NEW i \in 1..((k + n) + 1)
        PROVE  (IF i <= k THEN p[i] ELSE q[i - k]) \in SUBSET Thing
    <3>1. CASE i <= k
      BY <1>3, <3>1 DEF k
    <3>2. CASE ~(i <= k)
      <4>1. i - k \in 1..(n + 1)
        BY <1>3, <3>2
      <4> QED
        BY <3>2, <4>1 DEF n
    <3> QED
      BY <3>1, <3>2
  <2> QED
    BY <2>1
<1>5. f[1] = h
  <2>1. CASE k = 0
    <3>1. f[1] = q[1] /\ p[1] = p[k + 1]
      BY <1>3, <2>1
    <3> QED
      BY <3>1, <1>1, <1>2 DEF k
  <2>2. CASE k # 0
    BY <1>1, <1>3, <2>2
  <2> QED
    BY <2>1, <2>2
<1>6. f[(k + n) + 1] = e
  <2>1. f[(k + n) + 1] = q[n + 1]
    BY <1>3
  <2> QED
    BY <2>1, <1>2 DEF n
<1>7. ASSUME NEW i \in 1..(k + n)
      PROVE  Legal(b, f[i], (s \o t)[i]) /\ f[i + 1] = After(f[i], (s \o t)[i])
  <2>1. CASE i <= k
    <3>1. /\ i \in 1..k /\ f[i] = p[i] /\ (s \o t)[i] = s[i]
      BY <1>3, <2>1
    <3>2. f[i + 1] = p[i + 1]
      <4>1. CASE i = k
        <5>1. f[i + 1] = q[1] /\ p[i + 1] = p[k + 1]
          BY <1>3, <4>1
        <5> QED
          BY <5>1, <1>1, <1>2 DEF k
      <4>2. CASE i # k
        BY <1>3, <2>1, <4>2
      <4> QED
        BY <4>1, <4>2
    <3> QED
      BY <3>1, <3>2, <1>1 DEF k
  <2>2. CASE ~(i <= k)
    <3>1. i - k \in 1..n /\ (s \o t)[i] = t[i - k]
      BY <1>3, <2>2
    <3>2. /\ i \in 1..((k + n) + 1) /\ i + 1 \in 1..((k + n) + 1)
          /\ ~(i + 1 <= k) /\ (i + 1) - k = (i - k) + 1
      BY <1>3, <2>2
    <3>3. f[i] = q[i - k] /\ f[i + 1] = q[(i + 1) - k]
      BY <2>2, <3>2
    <3> QED
      BY <3>1, <3>2, <3>3, <1>2 DEF n
  <2> QED
    BY <2>1, <2>2
<1>8. \E g \in [1..(Len(s \o t) + 1) -> SUBSET Thing] :
        /\ g[1] = h /\ g[Len(s \o t) + 1] = e
        /\ \A i \in 1..Len(s \o t) : Legal(b, g[i], (s \o t)[i])
                                     /\ g[i + 1] = After(g[i], (s \o t)[i])
  <2> HIDE DEF f
  <2> QED
    BY <1>3, <1>4, <1>5, <1>6, <1>7
<1> QED
  BY <1>8 DEF Runs

LEMMA RunsOne ==
  ASSUME NEW b, NEW h \in SUBSET Thing, NEW c \in Calls, Legal(b, h, c)
  PROVE  Runs(b, <<c>>, h, After(h, c)) /\ <<c>> \in Seq(Calls)
<1>1. After(h, c) \in SUBSET Thing
  BY AfterType
<1> DEFINE g == After(h, c)
           f == [i \in 1..(1 + 1) |-> IF i = 1 THEN h ELSE g]
<1>2. Len(<<c>>) = 1 /\ <<c>>[1] = c /\ <<c>> \in Seq(Calls)
  OBVIOUS
<1>3. f \in [1..(1 + 1) -> SUBSET Thing] /\ f[1] = h /\ f[1 + 1] = g
  <2> HIDE DEF g
  <2> QED
    BY <1>1 DEF g
<1>4. \A i \in 1..1 : Legal(b, f[i], <<c>>[i]) /\ f[i + 1] = After(f[i], <<c>>[i])
  BY <1>2, <1>3
<1> QED
  BY <1>2, <1>3, <1>4 DEF Runs

LEMMA RunsTwo ==
  ASSUME NEW b, NEW h \in SUBSET Thing, NEW c \in Calls, NEW d \in Calls,
         Legal(b, h, c), Legal(b, After(h, c), d)
  PROVE  Runs(b, <<c, d>>, h, After(After(h, c), d)) /\ <<c, d>> \in Seq(Calls)
<1>1. After(h, c) \in SUBSET Thing
  BY AfterType
<1>2. /\ Runs(b, <<c>>, h, After(h, c)) /\ <<c>> \in Seq(Calls)
      /\ Runs(b, <<d>>, After(h, c), After(After(h, c), d)) /\ <<d>> \in Seq(Calls)
  BY <1>1, RunsOne
<1>3. <<c, d>> = <<c>> \o <<d>>
  <2>1. Len(<<c>>) = 1 /\ Len(<<d>>) = 1 /\ Len(<<c, d>>) = 2 /\ <<c, d>> \in Seq(Calls)
        /\ <<c>>[1] = c /\ <<d>>[1] = d /\ <<c, d>>[1] = c /\ <<c, d>>[2] = d
    OBVIOUS
  <2>2. /\ <<c>> \o <<d>> \in Seq(Calls) /\ Len(<<c>> \o <<d>>) = 2
        /\ (<<c>> \o <<d>>)[1] = c /\ (<<c>> \o <<d>>)[2] = d
    BY <1>2, <2>1, ConcatProperties
  <2> DEFINE r == <<c, d>>
             s == <<c>> \o <<d>>
  <2>3. r \in Seq(Calls) /\ s \in Seq(Calls) /\ Len(r) = 2 /\ Len(s) = 2
        /\ r[1] = s[1] /\ r[2] = s[2]
    BY <2>1, <2>2
  <2> HIDE DEF r, s
  <2>4. \A i \in 1..Len(r) : r[i] = s[i]
    BY <2>3
  <2>5. r = s
    BY <2>3, <2>4, SeqEqual
  <2> QED
    BY <2>5 DEF r, s
<1> QED
  BY <1>2, <1>3, RunsConcat, ConcatProperties

LEMMA RunsThree ==
  ASSUME NEW b, NEW h \in SUBSET Thing, NEW g1, NEW g2, NEW g3,
         NEW c1 \in Calls, NEW c2 \in Calls, NEW c3 \in Calls,
         Legal(b, h, c1), After(h, c1) = g1, Legal(b, g1, c2), After(g1, c2) = g2,
         Legal(b, g2, c3), After(g2, c3) = g3
  PROVE  Runs(b, <<c1, c2, c3>>, h, g3) /\ <<c1, c2, c3>> \in Seq(Calls)
<1>1. g1 \in SUBSET Thing
  BY AfterType
<1>2. /\ Runs(b, <<c1>>, h, g1) /\ <<c1>> \in Seq(Calls)
      /\ Runs(b, <<c2, c3>>, g1, g3) /\ <<c2, c3>> \in Seq(Calls)
  BY <1>1, RunsOne, RunsTwo
<1>3. <<c1, c2, c3>> = <<c1>> \o <<c2, c3>>
  OBVIOUS
<1> QED
  BY <1>2, <1>3, RunsConcat, ConcatProperties

LEMMA RunsFour ==
  ASSUME NEW b, NEW h \in SUBSET Thing, NEW g1, NEW g2, NEW g3, NEW g4,
         NEW c1 \in Calls, NEW c2 \in Calls, NEW c3 \in Calls, NEW c4 \in Calls,
         Legal(b, h, c1), After(h, c1) = g1, Legal(b, g1, c2), After(g1, c2) = g2,
         Legal(b, g2, c3), After(g2, c3) = g3, Legal(b, g3, c4), After(g3, c4) = g4
  PROVE  Runs(b, <<c1, c2, c3, c4>>, h, g4) /\ <<c1, c2, c3, c4>> \in Seq(Calls)
<1>1. g1 \in SUBSET Thing
  BY AfterType
<1>2. /\ Runs(b, <<c1>>, h, g1) /\ <<c1>> \in Seq(Calls)
      /\ Runs(b, <<c2, c3, c4>>, g1, g4) /\ <<c2, c3, c4>> \in Seq(Calls)
  BY <1>1, RunsOne, RunsThree
<1>3. <<c1, c2, c3, c4>> = <<c1>> \o <<c2, c3, c4>>
  OBVIOUS
<1> QED
  BY <1>2, <1>3, RunsConcat, ConcatProperties

(***************************************************************************)
(* The scripts: what a worker has at the end of a callback is what the     *)
(* next callback starts from.                                              *)
(***************************************************************************)
WellRun(b, s) ==
  /\ IsScript(s, Calls)
  /\ Runs(b, s.worker, {}, AtEnd(b, "worker"))
  /\ Runs(b, s.first, AtEnd(b, "worker"), AtEnd(b, "post"))
  /\ Runs(b, s.pre, AtEnd(b, "post"), AtEnd(b, "pre"))
  /\ Runs(b, s.bench, AtEnd(b, "pre"), AtEnd(b, "bench"))
  /\ Runs(b, s.post, AtEnd(b, "bench"), AtEnd(b, "post"))
  /\ Runs(b, s.fini, AtEnd(b, "post"), AtEnd(b, "fini"))

LEMMA FdCalls ==
  ASSUME NEW b, Needs(b) = {"fd"}
  PROVE  /\ <<Open("fd")>> \in Seq(Calls) /\ Runs(b, <<Open("fd")>>, {}, {"fd"})
         /\ <<Use("fd")>> \in Seq(Calls) /\ Runs(b, <<Use("fd")>>, {"fd"}, {"fd"})
         /\ <<Use("fd"), Use("fd")>> \in Seq(Calls)
         /\ Runs(b, <<Use("fd"), Use("fd")>>, {"fd"}, {"fd"})
         /\ <<Close("fd")>> \in Seq(Calls) /\ Runs(b, <<Close("fd")>>, {"fd"}, {})
<1>1. /\ {Open("fd"), Use("fd"), Close("fd")} \subseteq Calls
      /\ {{}, {"fd"}} \subseteq SUBSET Thing
  BY DEF Calls, Var, Thing, Close, Open, Use
<1>2. <<Open("fd")>> \in Seq(Calls) /\ Runs(b, <<Open("fd")>>, {}, {"fd"})
  <2>1. /\ Legal(b, {}, Open("fd"))
        /\ After({}, Open("fd")) = {"fd"}
    BY DEF Legal, After, Opening, Calling, With, Var, Open
  <2> QED
    BY <1>1, <2>1, RunsOne
<1>3. <<Use("fd")>> \in Seq(Calls) /\ Runs(b, <<Use("fd")>>, {"fd"}, {"fd"})
  <2>1. /\ Legal(b, {"fd"}, Use("fd"))
        /\ After({"fd"}, Use("fd")) = {"fd"}
    BY DEF Legal, After, Opening, Calling, With, Var, Use
  <2> QED
    BY <1>1, <2>1, RunsOne
<1>4. /\ <<Use("fd"), Use("fd")>> \in Seq(Calls)
      /\ Runs(b, <<Use("fd"), Use("fd")>>, {"fd"}, {"fd"})
  <2>1. /\ Legal(b, {"fd"}, Use("fd"))
        /\ After({"fd"}, Use("fd")) = {"fd"}
    BY DEF Legal, After, Opening, Calling, With, Var, Use
  <2> QED
    BY <1>1, <2>1, RunsTwo
<1>5. <<Close("fd")>> \in Seq(Calls) /\ Runs(b, <<Close("fd")>>, {"fd"}, {})
  <2>1. /\ Legal(b, {"fd"}, Close("fd"))
        /\ After({"fd"}, Close("fd")) = {}
    BY DEF Legal, After, Opening, Calling, With, Var, Close
  <2> QED
    BY <1>1, <2>1, RunsOne
<1> QED
  BY <1>2, <1>3, <1>4, <1>5

LEMMA SharedCalls ==
  ASSUME NEW b, b \in SharedNames
  PROVE  /\ <<Use("shared")>> \in Seq(Calls) /\ Runs(b, <<Use("shared")>>, {}, {})
         /\ <<Use("shared"), Use("shared")>> \in Seq(Calls)
         /\ Runs(b, <<Use("shared"), Use("shared")>>, {}, {})
         /\ <<Use("shared"), Use("shared"), Use("shared"), Use("shared")>> \in Seq(Calls)
         /\ Runs(b, <<Use("shared"), Use("shared"), Use("shared"), Use("shared")>>, {}, {})
<1>1. /\ {Use("shared")} \subseteq Calls
      /\ {{}} \subseteq SUBSET Thing
  BY DEF Calls, Var, Thing, Use
<1>2. <<Use("shared")>> \in Seq(Calls) /\ Runs(b, <<Use("shared")>>, {}, {})
  <2>1. /\ Legal(b, {}, Use("shared"))
        /\ After({}, Use("shared")) = {}
    BY DEF Legal, After, Opening, Calling, With, Var, Use, SharedNames
  <2> QED
    BY <1>1, <2>1, RunsOne
<1>3. /\ <<Use("shared"), Use("shared")>> \in Seq(Calls)
      /\ Runs(b, <<Use("shared"), Use("shared")>>, {}, {})
  <2>1. /\ Legal(b, {}, Use("shared"))
        /\ After({}, Use("shared")) = {}
    BY DEF Legal, After, Opening, Calling, With, Var, Use, SharedNames
  <2> QED
    BY <1>1, <2>1, RunsTwo
<1>4. /\ <<Use("shared"), Use("shared"), Use("shared"), Use("shared")>> \in Seq(Calls)
      /\ Runs(b, <<Use("shared"), Use("shared"), Use("shared"), Use("shared")>>, {}, {})
  <2>1. /\ Legal(b, {}, Use("shared"))
        /\ After({}, Use("shared")) = {}
    BY DEF Legal, After, Opening, Calling, With, Var, Use, SharedNames
  <2> QED
    BY <1>1, <2>1, RunsFour
<1> QED
  BY <1>2, <1>3, <1>4

LEMMA LsnCalls ==
  ASSUME NEW b, Needs(b) = {"lsn"}
  PROVE  /\ <<Open("lsn"), Use("lsn")>> \in Seq(Calls)
         /\ Runs(b, <<Open("lsn"), Use("lsn")>>, {}, {"lsn"})
         /\ <<Use("lsn")>> \in Seq(Calls) /\ Runs(b, <<Use("lsn")>>, {"lsn"}, {"lsn"})
         /\ <<Close("lsn")>> \in Seq(Calls) /\ Runs(b, <<Close("lsn")>>, {"lsn"}, {})
<1>1. /\ {Open("lsn"), Use("lsn"), Close("lsn")} \subseteq Calls
      /\ {{}, {"lsn"}} \subseteq SUBSET Thing
  BY DEF Calls, Var, Thing, Close, Open, Use
<1>2. /\ <<Open("lsn"), Use("lsn")>> \in Seq(Calls)
      /\ Runs(b, <<Open("lsn"), Use("lsn")>>, {}, {"lsn"})
  <2>1. /\ Legal(b, {}, Open("lsn"))
        /\ After({}, Open("lsn")) = {"lsn"}
    BY DEF Legal, After, Opening, Calling, With, Var, Open
  <2>2. /\ Legal(b, {"lsn"}, Use("lsn"))
        /\ After({"lsn"}, Use("lsn")) = {"lsn"}
    BY DEF Legal, After, Opening, Calling, With, Var, Use
  <2> QED
    BY <1>1, <2>1, <2>2, RunsTwo
<1>3. <<Use("lsn")>> \in Seq(Calls) /\ Runs(b, <<Use("lsn")>>, {"lsn"}, {"lsn"})
  <2>1. /\ Legal(b, {"lsn"}, Use("lsn"))
        /\ After({"lsn"}, Use("lsn")) = {"lsn"}
    BY DEF Legal, After, Opening, Calling, With, Var, Use
  <2> QED
    BY <1>1, <2>1, RunsOne
<1>4. <<Close("lsn")>> \in Seq(Calls) /\ Runs(b, <<Close("lsn")>>, {"lsn"}, {})
  <2>1. /\ Legal(b, {"lsn"}, Close("lsn"))
        /\ After({"lsn"}, Close("lsn")) = {}
    BY DEF Legal, After, Opening, Calling, With, Var, Close
  <2> QED
    BY <1>1, <2>1, RunsOne
<1> QED
  BY <1>2, <1>3, <1>4

LEMMA TcpCalls ==
  ASSUME NEW b, b = "close_tcp"
  PROVE  /\ <<Open("lsn"), BindReuse, Listen>> \in Seq(Calls)
         /\ Runs(b, <<Open("lsn"), BindReuse, Listen>>, {}, {"lsn", "bound", "listens"})
         /\ <<Open("conn"), Connect, Await, Accept>> \in Seq(Calls)
         /\ Runs(b, <<Open("conn"), Connect, Await, Accept>>,
              {"lsn", "bound", "listens"}, {"lsn", "bound", "listens", "conn", "acc"})
         /\ <<Close("acc")>> \in Seq(Calls)
         /\ Runs(b, <<Close("acc")>>, {"lsn", "bound", "listens", "conn", "acc"},
              {"lsn", "bound", "listens", "conn"})
         /\ <<Close("conn")>> \in Seq(Calls)
         /\ Runs(b, <<Close("conn")>>, {"lsn", "bound", "listens", "conn"},
              {"lsn", "bound", "listens"})
         /\ <<Close("lsn")>> \in Seq(Calls)
         /\ Runs(b, <<Close("lsn")>>, {"lsn", "bound", "listens"}, {})
<1>1. /\ {Open("lsn"), BindReuse, Listen, Open("conn"), Connect, Await, Accept,
           Close("acc"), Close("conn"), Close("lsn")} \subseteq Calls
      /\ {{}, {"lsn", "bound", "listens"}, {"lsn", "bound", "listens", "conn", "acc"},
           {"lsn", "bound", "listens", "conn"}} \subseteq SUBSET Thing
  BY DEF Calls, Var, Thing, Accept, Await, BindReuse, Close, Connect, Listen, Open
<1>2. /\ <<Open("lsn"), BindReuse, Listen>> \in Seq(Calls)
      /\ Runs(b, <<Open("lsn"), BindReuse, Listen>>, {}, {"lsn", "bound", "listens"})
  <2>1. /\ Legal(b, {}, Open("lsn"))
        /\ After({}, Open("lsn")) = {"lsn"}
    BY DEF Legal, After, Opening, Calling, With, Var, Open, Needs, TcpNames
  <2>2. /\ Legal(b, {"lsn"}, BindReuse)
        /\ After({"lsn"}, BindReuse) = {"lsn", "bound"}
    BY DEF Legal, After, Opening, Calling, With, Var, BindReuse, Needs, TcpNames
  <2>3. /\ Legal(b, {"lsn", "bound"}, Listen)
        /\ After({"lsn", "bound"}, Listen) = {"lsn", "bound", "listens"}
    BY DEF Legal, After, Opening, Calling, With, Var, Listen, Needs, TcpNames
  <2> QED
    BY <1>1, <2>1, <2>2, <2>3, RunsThree
<1>3. /\ <<Open("conn"), Connect, Await, Accept>> \in Seq(Calls)
      /\ Runs(b, <<Open("conn"), Connect, Await, Accept>>, {"lsn", "bound", "listens"},
           {"lsn", "bound", "listens", "conn", "acc"})
  <2>1. /\ Legal(b, {"lsn", "bound", "listens"}, Open("conn"))
        /\ After({"lsn", "bound", "listens"}, Open("conn"))
             = {"lsn", "bound", "listens", "conn"}
    BY DEF Legal, After, Opening, Calling, With, Var, Open, Needs, TcpNames
  <2>2. /\ Legal(b, {"lsn", "bound", "listens", "conn"}, Connect)
        /\ After({"lsn", "bound", "listens", "conn"}, Connect)
             = {"lsn", "bound", "listens", "conn", "calling"}
    BY DEF Legal, After, Opening, Calling, With, Var, Connect, Needs, TcpNames
  <2>3. /\ Legal(b, {"lsn", "bound", "listens", "conn", "calling"}, Await)
        /\ After({"lsn", "bound", "listens", "conn", "calling"}, Await)
             = {"lsn", "bound", "listens", "conn", "calling"}
    BY DEF Legal, After, Opening, Calling, With, Var, Await, Needs, TcpNames
  <2>4. /\ Legal(b, {"lsn", "bound", "listens", "conn", "calling"}, Accept)
        /\ After({"lsn", "bound", "listens", "conn", "calling"}, Accept)
             = {"lsn", "bound", "listens", "conn", "acc"}
    BY DEF Legal, After, Opening, Calling, With, Var, Accept, Needs, TcpNames
  <2> QED
    BY <1>1, <2>1, <2>2, <2>3, <2>4, RunsFour
<1>4. /\ <<Close("acc")>> \in Seq(Calls)
      /\ Runs(b, <<Close("acc")>>, {"lsn", "bound", "listens", "conn", "acc"},
           {"lsn", "bound", "listens", "conn"})
  <2>1. /\ Legal(b, {"lsn", "bound", "listens", "conn", "acc"}, Close("acc"))
        /\ After({"lsn", "bound", "listens", "conn", "acc"}, Close("acc"))
             = {"lsn", "bound", "listens", "conn"}
    BY DEF Legal, After, Opening, Calling, With, Var, Close, Needs, TcpNames
  <2> QED
    BY <1>1, <2>1, RunsOne
<1>5. /\ <<Close("conn")>> \in Seq(Calls)
      /\ Runs(b, <<Close("conn")>>, {"lsn", "bound", "listens", "conn"},
           {"lsn", "bound", "listens"})
  <2>1. /\ Legal(b, {"lsn", "bound", "listens", "conn"}, Close("conn"))
        /\ After({"lsn", "bound", "listens", "conn"}, Close("conn"))
             = {"lsn", "bound", "listens"}
    BY DEF Legal, After, Opening, Calling, With, Var, Close, Needs, TcpNames
  <2> QED
    BY <1>1, <2>1, RunsOne
<1>6. /\ <<Close("lsn")>> \in Seq(Calls)
      /\ Runs(b, <<Close("lsn")>>, {"lsn", "bound", "listens"}, {})
  <2>1. /\ Legal(b, {"lsn", "bound", "listens"}, Close("lsn"))
        /\ After({"lsn", "bound", "listens"}, Close("lsn")) = {}
    BY DEF Legal, After, Opening, Calling, With, Var, Close, Needs, TcpNames
  <2> QED
    BY <1>1, <2>1, RunsOne
<1> QED
  BY <1>2, <1>3, <1>4, <1>5, <1>6

LEMMA ConnectionCalls ==
  ASSUME NEW b, b \in {"connection", "connection_a", "connection_c"}
  PROVE  /\ <<Open("lsn"), Bind, Listen>> \in Seq(Calls)
         /\ Runs(b, <<Open("lsn"), Bind, Listen>>, {}, {"lsn", "bound", "listens"})
         /\ <<Open("conn")>> \in Seq(Calls)
         /\ Runs(b, <<Open("conn")>>, {"lsn", "bound", "listens"},
              {"lsn", "bound", "listens", "conn"})
         /\ <<Open("conn"), Start>> \in Seq(Calls)
         /\ Runs(b, <<Open("conn"), Start>>, {"lsn", "bound", "listens"},
              {"lsn", "bound", "listens", "conn", "calling"})
         /\ <<Start>> \in Seq(Calls)
         /\ Runs(b, <<Start>>, {"lsn", "bound", "listens", "conn"},
              {"lsn", "bound", "listens", "conn", "calling"})
<1>1. /\ {Open("lsn"), Bind, Listen, Open("conn"), Start} \subseteq Calls
      /\ {{}, {"lsn", "bound", "listens"},
           {"lsn", "bound", "listens", "conn"}} \subseteq SUBSET Thing
  BY DEF Calls, Var, Thing, Bind, Listen, Open, Start
<1>2. /\ <<Open("lsn"), Bind, Listen>> \in Seq(Calls)
      /\ Runs(b, <<Open("lsn"), Bind, Listen>>, {}, {"lsn", "bound", "listens"})
  <2>1. /\ Legal(b, {}, Open("lsn"))
        /\ After({}, Open("lsn")) = {"lsn"}
    BY DEF Legal, After, Opening, Calling, With, Var, Open, Needs, TcpNames
  <2>2. /\ Legal(b, {"lsn"}, Bind)
        /\ After({"lsn"}, Bind) = {"lsn", "bound"}
    BY DEF Legal, After, Opening, Calling, With, Var, Bind, Needs, TcpNames
  <2>3. /\ Legal(b, {"lsn", "bound"}, Listen)
        /\ After({"lsn", "bound"}, Listen) = {"lsn", "bound", "listens"}
    BY DEF Legal, After, Opening, Calling, With, Var, Listen, Needs, TcpNames
  <2> QED
    BY <1>1, <2>1, <2>2, <2>3, RunsThree
<1>3. /\ <<Open("conn")>> \in Seq(Calls)
      /\ Runs(b, <<Open("conn")>>, {"lsn", "bound", "listens"},
           {"lsn", "bound", "listens", "conn"})
  <2>1. /\ Legal(b, {"lsn", "bound", "listens"}, Open("conn"))
        /\ After({"lsn", "bound", "listens"}, Open("conn"))
             = {"lsn", "bound", "listens", "conn"}
    BY DEF Legal, After, Opening, Calling, With, Var, Open, Needs, TcpNames
  <2> QED
    BY <1>1, <2>1, RunsOne
<1>4. /\ <<Open("conn"), Start>> \in Seq(Calls)
      /\ Runs(b, <<Open("conn"), Start>>, {"lsn", "bound", "listens"},
           {"lsn", "bound", "listens", "conn", "calling"})
  <2>1. /\ Legal(b, {"lsn", "bound", "listens"}, Open("conn"))
        /\ After({"lsn", "bound", "listens"}, Open("conn"))
             = {"lsn", "bound", "listens", "conn"}
    BY DEF Legal, After, Opening, Calling, With, Var, Open, Needs, TcpNames
  <2>2. /\ Legal(b, {"lsn", "bound", "listens", "conn"}, Start)
        /\ After({"lsn", "bound", "listens", "conn"}, Start)
             = {"lsn", "bound", "listens", "conn", "calling"}
    BY DEF Legal, After, Opening, Calling, With, Var, Start, Needs, TcpNames
  <2> QED
    BY <1>1, <2>1, <2>2, RunsTwo
<1>5. /\ <<Start>> \in Seq(Calls)
      /\ Runs(b, <<Start>>, {"lsn", "bound", "listens", "conn"},
           {"lsn", "bound", "listens", "conn", "calling"})
  <2>1. /\ Legal(b, {"lsn", "bound", "listens", "conn"}, Start)
        /\ After({"lsn", "bound", "listens", "conn"}, Start)
             = {"lsn", "bound", "listens", "conn", "calling"}
    BY DEF Legal, After, Opening, Calling, With, Var, Start, Needs, TcpNames
  <2> QED
    BY <1>1, <2>1, RunsOne
<1> QED
  BY <1>2, <1>3, <1>4, <1>5

LEMMA AcceptingCalls ==
  ASSUME NEW b, b \in {"connection", "connection_a"}
  PROVE  /\ <<Start, Await, Accept>> \in Seq(Calls)
         /\ Runs(b, <<Start, Await, Accept>>, {"lsn", "bound", "listens", "conn"},
              {"lsn", "bound", "listens", "conn", "acc"})
         /\ <<Accept>> \in Seq(Calls)
         /\ Runs(b, <<Accept>>, {"lsn", "bound", "listens", "conn", "calling"},
              {"lsn", "bound", "listens", "conn", "acc"})
         /\ <<Close("acc"), Close("conn")>> \in Seq(Calls)
         /\ Runs(b, <<Close("acc"), Close("conn")>>,
              {"lsn", "bound", "listens", "conn", "acc"}, {"lsn", "bound", "listens"})
<1>1. /\ {Start, Await, Accept, Close("acc"), Close("conn")} \subseteq Calls
      /\ {{"lsn", "bound", "listens", "conn"},
           {"lsn", "bound", "listens", "conn", "calling"},
             {"lsn", "bound", "listens", "conn", "acc"}} \subseteq SUBSET Thing
  BY DEF Calls, Var, Thing, Accept, Await, Close, Start
<1>2. /\ <<Start, Await, Accept>> \in Seq(Calls)
      /\ Runs(b, <<Start, Await, Accept>>, {"lsn", "bound", "listens", "conn"},
           {"lsn", "bound", "listens", "conn", "acc"})
  <2>1. /\ Legal(b, {"lsn", "bound", "listens", "conn"}, Start)
        /\ After({"lsn", "bound", "listens", "conn"}, Start)
             = {"lsn", "bound", "listens", "conn", "calling"}
    BY DEF Legal, After, Opening, Calling, With, Var, Start, Needs, TcpNames
  <2>2. /\ Legal(b, {"lsn", "bound", "listens", "conn", "calling"}, Await)
        /\ After({"lsn", "bound", "listens", "conn", "calling"}, Await)
             = {"lsn", "bound", "listens", "conn", "calling"}
    BY DEF Legal, After, Opening, Calling, With, Var, Await, Needs, TcpNames
  <2>3. /\ Legal(b, {"lsn", "bound", "listens", "conn", "calling"}, Accept)
        /\ After({"lsn", "bound", "listens", "conn", "calling"}, Accept)
             = {"lsn", "bound", "listens", "conn", "acc"}
    BY DEF Legal, After, Opening, Calling, With, Var, Accept, Needs, TcpNames
  <2> QED
    BY <1>1, <2>1, <2>2, <2>3, RunsThree
<1>3. /\ <<Accept>> \in Seq(Calls)
      /\ Runs(b, <<Accept>>, {"lsn", "bound", "listens", "conn", "calling"},
           {"lsn", "bound", "listens", "conn", "acc"})
  <2>1. /\ Legal(b, {"lsn", "bound", "listens", "conn", "calling"}, Accept)
        /\ After({"lsn", "bound", "listens", "conn", "calling"}, Accept)
             = {"lsn", "bound", "listens", "conn", "acc"}
    BY DEF Legal, After, Opening, Calling, With, Var, Accept, Needs, TcpNames
  <2> QED
    BY <1>1, <2>1, RunsOne
<1>4. /\ <<Close("acc"), Close("conn")>> \in Seq(Calls)
      /\ Runs(b, <<Close("acc"), Close("conn")>>,
           {"lsn", "bound", "listens", "conn", "acc"}, {"lsn", "bound", "listens"})
  <2>1. /\ Legal(b, {"lsn", "bound", "listens", "conn", "acc"}, Close("acc"))
        /\ After({"lsn", "bound", "listens", "conn", "acc"}, Close("acc"))
             = {"lsn", "bound", "listens", "conn"}
    BY DEF Legal, After, Opening, Calling, With, Var, Close, Needs, TcpNames
  <2>2. /\ Legal(b, {"lsn", "bound", "listens", "conn"}, Close("conn"))
        /\ After({"lsn", "bound", "listens", "conn"}, Close("conn"))
             = {"lsn", "bound", "listens"}
    BY DEF Legal, After, Opening, Calling, With, Var, Close, Needs, TcpNames
  <2> QED
    BY <1>1, <2>1, <2>2, RunsTwo
<1> QED
  BY <1>2, <1>3, <1>4

LEMMA OpenRuns ==
  ASSUME bench \in {"open", "socket"}
  PROVE  WellRun(bench, Script)
<1>1. /\ Script.worker = <<>> /\ Script.first = <<>>
      /\ Script.pre = <<>>
      /\ Script.bench = <<Open("fd")>>
      /\ Script.post = <<Close("fd")>> /\ Script.fini = <<>>
  BY DEF Script, Empty, open, socket
<1>2. /\ AtEnd(bench, "worker") = {}
      /\ AtEnd(bench, "pre") = {}
      /\ AtEnd(bench, "bench") = {"fd"}
      /\ AtEnd(bench, "post") = {} /\ AtEnd(bench, "fini") = {}
  BY DEF AtEnd, Kept, Ready, Made, TcpNames
<1>3. /\ <<>> \in Seq(Calls)
      /\ Runs(bench, <<>>, {}, {})
  <2>1. {{}} \subseteq SUBSET Thing
    BY DEF Thing, Var
  <2> QED
    BY <2>1, RunsNone, EmptySeq
<1>4. Needs(bench) = {"fd"}
  BY DEF Needs, TcpNames, SharedNames
<1> QED
  BY <1>1, <1>2, <1>3, <1>4, FdCalls DEF WellRun, IsScript

LEMMA CloseRuns ==
  ASSUME bench = "close"
  PROVE  WellRun(bench, Script)
<1>1. /\ Script.worker = <<>> /\ Script.first = <<>>
      /\ Script.pre = <<Open("fd")>>
      /\ Script.bench = <<Close("fd")>>
      /\ Script.post = <<>> /\ Script.fini = <<>>
  BY DEF Script, Empty, close
<1>2. /\ AtEnd(bench, "worker") = {}
      /\ AtEnd(bench, "pre") = {"fd"}
      /\ AtEnd(bench, "bench") = {}
      /\ AtEnd(bench, "post") = {} /\ AtEnd(bench, "fini") = {}
  BY DEF AtEnd, Kept, Ready, Made, TcpNames
<1>3. /\ <<>> \in Seq(Calls)
      /\ Runs(bench, <<>>, {}, {})
  <2>1. {{}} \subseteq SUBSET Thing
    BY DEF Thing, Var
  <2> QED
    BY <2>1, RunsNone, EmptySeq
<1>4. Needs(bench) = {"fd"}
  BY DEF Needs, TcpNames, SharedNames
<1> QED
  BY <1>1, <1>2, <1>3, <1>4, FdCalls DEF WellRun, IsScript

LEMMA BadCloseRuns ==
  ASSUME bench = "close_b"
  PROVE  WellRun(bench, Script)
<1>1. /\ Script.worker = <<>> /\ Script.first = <<>>
      /\ Script.pre = <<Forge("fd")>>
      /\ Script.bench = <<>>
      /\ Script.post = <<>> /\ Script.fini = <<>>
  BY DEF Script, Empty, close_b
<1>2. /\ AtEnd(bench, "worker") = {}
      /\ AtEnd(bench, "pre") = {}
      /\ AtEnd(bench, "bench") = {}
      /\ AtEnd(bench, "post") = {} /\ AtEnd(bench, "fini") = {}
  BY DEF AtEnd, Kept, Ready, Made, TcpNames
<1>3. /\ <<>> \in Seq(Calls)
      /\ Runs(bench, <<>>, {}, {})
  <2>1. {{}} \subseteq SUBSET Thing
    BY DEF Thing, Var
  <2> QED
    BY <2>1, RunsNone, EmptySeq
<1>4. <<Forge("fd")>> \in Seq(Calls) /\ Runs(bench, <<Forge("fd")>>, {}, {})
  <2>1. /\ Forge("fd") \in Calls /\ Legal(bench, {}, Forge("fd"))
        /\ After({}, Forge("fd")) = {} /\ {} \in SUBSET Thing
    BY DEF Calls, Var, Legal, After, Opening, Calling, Needs, TcpNames, SharedNames, Forge
  <2> QED
    BY <2>1, RunsOne
<1> QED
  BY <1>1, <1>2, <1>3, <1>4 DEF WellRun, IsScript

LEMMA DupRuns ==
  ASSUME bench = "dup"
  PROVE  WellRun(bench, Script)
<1>1. /\ Script.worker = <<>> /\ Script.first = <<>>
      /\ Script.pre = <<>>
      /\ Script.bench = <<Dup("fd")>>
      /\ Script.post = <<Close("fd")>> /\ Script.fini = <<>>
  BY DEF Script, Empty, dup
<1>2. /\ AtEnd(bench, "worker") = {}
      /\ AtEnd(bench, "pre") = {}
      /\ AtEnd(bench, "bench") = {"fd"}
      /\ AtEnd(bench, "post") = {} /\ AtEnd(bench, "fini") = {}
  BY DEF AtEnd, Kept, Ready, Made, TcpNames
<1>3. /\ <<>> \in Seq(Calls)
      /\ Runs(bench, <<>>, {}, {})
  <2>1. {{}} \subseteq SUBSET Thing
    BY DEF Thing, Var
  <2> QED
    BY <2>1, RunsNone, EmptySeq
<1>4. <<Dup("fd")>> \in Seq(Calls) /\ Runs(bench, <<Dup("fd")>>, {}, {"fd"})
  <2>1. /\ Dup("fd") \in Calls /\ Legal(bench, {}, Dup("fd"))
        /\ After({}, Dup("fd")) = {"fd"} /\ {} \in SUBSET Thing
    BY DEF Calls, Var, Legal, After, Opening, Calling, Needs, TcpNames, SharedNames, Dup
  <2> QED
    BY <2>1, RunsOne
<1>5. Needs(bench) = {"fd"}
  BY DEF Needs, TcpNames, SharedNames
<1> QED
  BY <1>1, <1>2, <1>3, <1>4, <1>5, FdCalls DEF WellRun, IsScript

LEMMA PairRuns ==
  ASSUME bench = "socketpair"
  PROVE  WellRun(bench, Script)
<1>1. /\ Script.worker = <<>> /\ Script.first = <<>>
      /\ Script.pre = <<>>
      /\ Script.bench = <<Pair("fd")>>
      /\ Script.post = <<Close("fd")>> /\ Script.fini = <<>>
  BY DEF Script, Empty, socketpair
<1>2. /\ AtEnd(bench, "worker") = {}
      /\ AtEnd(bench, "pre") = {}
      /\ AtEnd(bench, "bench") = {"fd"}
      /\ AtEnd(bench, "post") = {} /\ AtEnd(bench, "fini") = {}
  BY DEF AtEnd, Kept, Ready, Made, TcpNames
<1>3. /\ <<>> \in Seq(Calls)
      /\ Runs(bench, <<>>, {}, {})
  <2>1. {{}} \subseteq SUBSET Thing
    BY DEF Thing, Var
  <2> QED
    BY <2>1, RunsNone, EmptySeq
<1>4. <<Pair("fd")>> \in Seq(Calls) /\ Runs(bench, <<Pair("fd")>>, {}, {"fd"})
  <2>1. /\ Pair("fd") \in Calls /\ Legal(bench, {}, Pair("fd"))
        /\ After({}, Pair("fd")) = {"fd"} /\ {} \in SUBSET Thing
    BY DEF Calls, Var, Legal, After, Opening, Calling, Needs, TcpNames, SharedNames, Pair
  <2> QED
    BY <2>1, RunsOne
<1>5. Needs(bench) = {"fd"}
  BY DEF Needs, TcpNames, SharedNames
<1> QED
  BY <1>1, <1>2, <1>3, <1>4, <1>5, FdCalls DEF WellRun, IsScript

LEMMA OptionRuns ==
  ASSUME bench = "setsockopt"
  PROVE  WellRun(bench, Script)
<1>1. /\ Script.worker = <<>> /\ Script.first = <<>>
      /\ Script.pre = <<Open("fd")>>
      /\ Script.bench = <<Use("fd")>>
      /\ Script.post = <<Close("fd")>> /\ Script.fini = <<>>
  BY DEF Script, Empty, setsockopt
<1>2. /\ AtEnd(bench, "worker") = {}
      /\ AtEnd(bench, "pre") = {"fd"}
      /\ AtEnd(bench, "bench") = {"fd"}
      /\ AtEnd(bench, "post") = {} /\ AtEnd(bench, "fini") = {}
  BY DEF AtEnd, Kept, Ready, Made, TcpNames
<1>3. /\ <<>> \in Seq(Calls)
      /\ Runs(bench, <<>>, {}, {})
  <2>1. {{}} \subseteq SUBSET Thing
    BY DEF Thing, Var
  <2> QED
    BY <2>1, RunsNone, EmptySeq
<1>4. Needs(bench) = {"fd"}
  BY DEF Needs, TcpNames, SharedNames
<1> QED
  BY <1>1, <1>2, <1>3, <1>4, FdCalls DEF WellRun, IsScript

LEMMA ReadRuns ==
  ASSUME bench \in {"read", "write", "writev"}
  PROVE  WellRun(bench, Script)
<1>1. /\ Script.worker = <<>> /\ Script.first = <<Open("fd")>>
      /\ Script.pre = <<Use("fd")>>
      /\ Script.bench = <<Use("fd")>>
      /\ Script.post = <<>> /\ Script.fini = <<>>
  BY DEF Script, Empty, read, write, writev
<1>2. /\ AtEnd(bench, "worker") = {}
      /\ AtEnd(bench, "pre") = {"fd"}
      /\ AtEnd(bench, "bench") = {"fd"}
      /\ AtEnd(bench, "post") = {"fd"} /\ AtEnd(bench, "fini") = {"fd"}
  BY DEF AtEnd, Kept, Ready, Made, TcpNames
<1>3. /\ <<>> \in Seq(Calls)
      /\ Runs(bench, <<>>, {}, {})
      /\ Runs(bench, <<>>, {"fd"}, {"fd"})
  <2>1. {{}, {"fd"}} \subseteq SUBSET Thing
    BY DEF Thing, Var
  <2> QED
    BY <2>1, RunsNone, EmptySeq
<1>4. Needs(bench) = {"fd"}
  BY DEF Needs, TcpNames, SharedNames
<1> QED
  BY <1>1, <1>2, <1>3, <1>4, FdCalls DEF WellRun, IsScript

LEMMA SeekRuns ==
  ASSUME bench = "lseek"
  PROVE  WellRun(bench, Script)
<1>1. /\ Script.worker = <<>> /\ Script.first = <<Open("fd")>>
      /\ Script.pre = <<>>
      /\ Script.bench = <<Use("fd"), Use("fd")>>
      /\ Script.post = <<>> /\ Script.fini = <<>>
  BY DEF Script, Empty, lseek
<1>2. /\ AtEnd(bench, "worker") = {}
      /\ AtEnd(bench, "pre") = {"fd"}
      /\ AtEnd(bench, "bench") = {"fd"}
      /\ AtEnd(bench, "post") = {"fd"} /\ AtEnd(bench, "fini") = {"fd"}
  BY DEF AtEnd, Kept, Ready, Made, TcpNames
<1>3. /\ <<>> \in Seq(Calls)
      /\ Runs(bench, <<>>, {}, {})
      /\ Runs(bench, <<>>, {"fd"}, {"fd"})
  <2>1. {{}, {"fd"}} \subseteq SUBSET Thing
    BY DEF Thing, Var
  <2> QED
    BY <2>1, RunsNone, EmptySeq
<1>4. Needs(bench) = {"fd"}
  BY DEF Needs, TcpNames, SharedNames
<1> QED
  BY <1>1, <1>2, <1>3, <1>4, FdCalls DEF WellRun, IsScript

LEMMA TtyRuns ==
  ASSUME bench = "isatty"
  PROVE  WellRun(bench, Script)
<1>1. /\ Script.worker = <<Open("fd")>> /\ Script.first = <<>>
      /\ Script.pre = <<>>
      /\ Script.bench = <<Use("fd")>>
      /\ Script.post = <<>> /\ Script.fini = <<>>
  BY DEF Script, Empty, isatty
<1>2. /\ AtEnd(bench, "worker") = {"fd"}
      /\ AtEnd(bench, "pre") = {"fd"}
      /\ AtEnd(bench, "bench") = {"fd"}
      /\ AtEnd(bench, "post") = {"fd"} /\ AtEnd(bench, "fini") = {"fd"}
  BY DEF AtEnd, Kept, Ready, Made, TcpNames
<1>3. /\ <<>> \in Seq(Calls)
      /\ Runs(bench, <<>>, {"fd"}, {"fd"})
  <2>1. {{"fd"}} \subseteq SUBSET Thing
    BY DEF Thing, Var
  <2> QED
    BY <2>1, RunsNone, EmptySeq
<1>4. Needs(bench) = {"fd"}
  BY DEF Needs, TcpNames, SharedNames
<1> QED
  BY <1>1, <1>2, <1>3, <1>4, FdCalls DEF WellRun, IsScript

LEMMA SharedRuns ==
  ASSUME bench \in {"pread", "pwrite", "fcntl", "getsockname", "getpeername"}
  PROVE  WellRun(bench, Script)
<1>1. /\ Script.worker = <<>> /\ Script.first = <<>>
      /\ Script.pre = <<>>
      /\ Script.bench = <<Use("shared")>>
      /\ Script.post = <<>> /\ Script.fini = <<>>
  BY DEF Script, Empty, pread, pwrite, fcntl, getsockname, getpeername
<1>2. /\ AtEnd(bench, "worker") = {}
      /\ AtEnd(bench, "pre") = {}
      /\ AtEnd(bench, "bench") = {}
      /\ AtEnd(bench, "post") = {} /\ AtEnd(bench, "fini") = {}
  BY DEF AtEnd, Kept, Ready, Made, TcpNames
<1>3. /\ <<>> \in Seq(Calls)
      /\ Runs(bench, <<>>, {}, {})
  <2>1. {{}} \subseteq SUBSET Thing
    BY DEF Thing, Var
  <2> QED
    BY <2>1, RunsNone, EmptySeq
<1>4. bench \in SharedNames
  BY DEF Needs, TcpNames, SharedNames
<1> QED
  BY <1>1, <1>2, <1>3, <1>4, SharedCalls DEF WellRun, IsScript

LEMMA ListenRuns ==
  ASSUME bench = "listen"
  PROVE  WellRun(bench, Script)
<1>1. /\ Script.worker = <<>> /\ Script.first = <<>>
      /\ Script.pre = <<>>
      /\ Script.bench = <<Use("shared"), Use("shared")>>
      /\ Script.post = <<>> /\ Script.fini = <<>>
  BY DEF Script, Empty, listen
<1>2. /\ AtEnd(bench, "worker") = {}
      /\ AtEnd(bench, "pre") = {}
      /\ AtEnd(bench, "bench") = {}
      /\ AtEnd(bench, "post") = {} /\ AtEnd(bench, "fini") = {}
  BY DEF AtEnd, Kept, Ready, Made, TcpNames
<1>3. /\ <<>> \in Seq(Calls)
      /\ Runs(bench, <<>>, {}, {})
  <2>1. {{}} \subseteq SUBSET Thing
    BY DEF Thing, Var
  <2> QED
    BY <2>1, RunsNone, EmptySeq
<1>4. bench \in SharedNames
  BY DEF Needs, TcpNames, SharedNames
<1> QED
  BY <1>1, <1>2, <1>3, <1>4, SharedCalls DEF WellRun, IsScript

LEMMA FlagRuns ==
  ASSUME bench = "fcntl_ndelay"
  PROVE  WellRun(bench, Script)
<1>1. /\ Script.worker = <<>> /\ Script.first = <<>>
      /\ Script.pre = <<>>
      /\ Script.bench = [i \in 1..4 |-> Use("shared")]
      /\ Script.post = <<>> /\ Script.fini = <<>>
  BY DEF Script, Empty, fcntl_ndelay
<1>2. /\ AtEnd(bench, "worker") = {}
      /\ AtEnd(bench, "pre") = {}
      /\ AtEnd(bench, "bench") = {}
      /\ AtEnd(bench, "post") = {} /\ AtEnd(bench, "fini") = {}
  BY DEF AtEnd, Kept, Ready, Made, TcpNames
<1>3. /\ <<>> \in Seq(Calls)
      /\ Runs(bench, <<>>, {}, {})
  <2>1. {{}} \subseteq SUBSET Thing
    BY DEF Thing, Var
  <2> QED
    BY <2>1, RunsNone, EmptySeq
<1>4. bench \in SharedNames
  BY DEF Needs, TcpNames, SharedNames
<1>5. Script.bench = <<Use("shared"), Use("shared"), Use("shared"), Use("shared")>>
  BY <1>1
<1> QED
  BY <1>1, <1>2, <1>3, <1>4, <1>5, SharedCalls DEF WellRun, IsScript

LEMMA BindRuns ==
  ASSUME bench = "bind"
  PROVE  WellRun(bench, Script)
<1>1. /\ Script.worker = <<>> /\ Script.first = <<>>
      /\ Script.pre = <<Open("lsn"), Use("lsn")>>
      /\ Script.bench = <<Use("lsn")>>
      /\ Script.post = <<Close("lsn")>> /\ Script.fini = <<>>
  BY DEF Script, Empty, bind
<1>2. /\ AtEnd(bench, "worker") = {}
      /\ AtEnd(bench, "pre") = {"lsn"}
      /\ AtEnd(bench, "bench") = {"lsn"}
      /\ AtEnd(bench, "post") = {} /\ AtEnd(bench, "fini") = {}
  BY DEF AtEnd, Kept, Ready, Made, TcpNames
<1>3. /\ <<>> \in Seq(Calls)
      /\ Runs(bench, <<>>, {}, {})
  <2>1. {{}} \subseteq SUBSET Thing
    BY DEF Thing, Var
  <2> QED
    BY <2>1, RunsNone, EmptySeq
<1>4. Needs(bench) = {"lsn"}
  BY DEF Needs, TcpNames, SharedNames
<1> QED
  BY <1>1, <1>2, <1>3, <1>4, LsnCalls DEF WellRun, IsScript

LEMMA TcpRuns ==
  ASSUME bench = "close_tcp"
  PROVE  WellRun(bench, Script)
<1>1. /\ Script.worker = <<Open("lsn"), BindReuse, Listen>> /\ Script.first = <<>>
      /\ Script.pre = <<Open("conn"), Connect, Await, Accept>>
      /\ Script.bench = <<Close("acc")>>
      /\ Script.post = <<Close("conn")>> /\ Script.fini = <<Close("lsn")>>
  BY DEF Script, Empty, close_tcp
<1>2. /\ AtEnd(bench, "worker") = {"lsn", "bound", "listens"}
      /\ AtEnd(bench, "pre") = {"lsn", "bound", "listens", "conn", "acc"}
      /\ AtEnd(bench, "bench") = {"lsn", "bound", "listens", "conn"}
      /\ AtEnd(bench, "post") = {"lsn", "bound", "listens"} /\ AtEnd(bench, "fini") = {}
  BY DEF AtEnd, Kept, Ready, Made, TcpNames
<1>3. /\ <<>> \in Seq(Calls)
      /\ Runs(bench, <<>>, {"lsn", "bound", "listens"}, {"lsn", "bound", "listens"})
  <2>1. {{"lsn", "bound", "listens"}} \subseteq SUBSET Thing
    BY DEF Thing, Var
  <2> QED
    BY <2>1, RunsNone, EmptySeq
<1>4. IsScript(Script, Calls)
  BY <1>1, <1>3, TcpCalls DEF IsScript
<1>5. Runs(bench, Script.worker, {}, AtEnd(bench, "worker"))
  BY <1>1, <1>2, TcpCalls
<1>6. Runs(bench, Script.first, AtEnd(bench, "worker"), AtEnd(bench, "post"))
  BY <1>1, <1>2, <1>3
<1>7. Runs(bench, Script.pre, AtEnd(bench, "post"), AtEnd(bench, "pre"))
  BY <1>1, <1>2, TcpCalls
<1>8. Runs(bench, Script.bench, AtEnd(bench, "pre"), AtEnd(bench, "bench"))
  BY <1>1, <1>2, TcpCalls
<1>9. Runs(bench, Script.post, AtEnd(bench, "bench"), AtEnd(bench, "post"))
  BY <1>1, <1>2, TcpCalls
<1>10. Runs(bench, Script.fini, AtEnd(bench, "post"), AtEnd(bench, "fini"))
  BY <1>1, <1>2, TcpCalls
<1> QED
  BY <1>4, <1>5, <1>6, <1>7, <1>8, <1>9, <1>10 DEF WellRun

LEMMA BothRuns ==
  ASSUME bench = "connection"
  PROVE  WellRun(bench, Script)
<1>1. /\ Script.worker = <<>> /\ Script.first = <<Open("lsn"), Bind, Listen>>
      /\ Script.pre = <<Open("conn")>>
      /\ Script.bench = <<Start, Await, Accept>>
      /\ Script.post = <<Close("acc"), Close("conn")>> /\ Script.fini = <<>>
  BY DEF Script, Empty, Connection, ConnectionPre, ConnectionBench, ConnectionPost
<1>2. /\ AtEnd(bench, "worker") = {}
      /\ AtEnd(bench, "pre") = {"lsn", "bound", "listens", "conn"}
      /\ AtEnd(bench, "bench") = {"lsn", "bound", "listens", "conn", "acc"}
      /\ AtEnd(bench, "post") = {"lsn", "bound", "listens"} /\ AtEnd(bench, "fini")
           = {"lsn", "bound", "listens"}
  BY DEF AtEnd, Kept, Ready, Made, TcpNames
<1>3. /\ <<>> \in Seq(Calls)
      /\ Runs(bench, <<>>, {}, {})
      /\ Runs(bench, <<>>, {"lsn", "bound", "listens"}, {"lsn", "bound", "listens"})
  <2>1. {{}, {"lsn", "bound", "listens"}} \subseteq SUBSET Thing
    BY DEF Thing, Var
  <2> QED
    BY <2>1, RunsNone, EmptySeq
<1> QED
  BY <1>1, <1>2, <1>3, ConnectionCalls, AcceptingCalls DEF WellRun, IsScript

LEMMA AcceptRuns ==
  ASSUME bench = "connection_a"
  PROVE  WellRun(bench, Script)
<1>1. /\ Script.worker = <<>> /\ Script.first = <<Open("lsn"), Bind, Listen>>
      /\ Script.pre = <<Open("conn"), Start>>
      /\ Script.bench = <<Accept>>
      /\ Script.post = <<Close("acc"), Close("conn")>> /\ Script.fini = <<>>
  BY DEF Script, Empty, Connection, ConnectionPre, ConnectionBench, ConnectionPost
<1>2. /\ AtEnd(bench, "worker") = {}
      /\ AtEnd(bench, "pre") = {"lsn", "bound", "listens", "conn", "calling"}
      /\ AtEnd(bench, "bench") = {"lsn", "bound", "listens", "conn", "acc"}
      /\ AtEnd(bench, "post") = {"lsn", "bound", "listens"} /\ AtEnd(bench, "fini")
           = {"lsn", "bound", "listens"}
  BY DEF AtEnd, Kept, Ready, Made, TcpNames
<1>3. /\ <<>> \in Seq(Calls)
      /\ Runs(bench, <<>>, {}, {})
      /\ Runs(bench, <<>>, {"lsn", "bound", "listens"}, {"lsn", "bound", "listens"})
  <2>1. {{}, {"lsn", "bound", "listens"}} \subseteq SUBSET Thing
    BY DEF Thing, Var
  <2> QED
    BY <2>1, RunsNone, EmptySeq
<1> QED
  BY <1>1, <1>2, <1>3, ConnectionCalls, AcceptingCalls DEF WellRun, IsScript

LEMMA ConnectRuns ==
  ASSUME bench = "connection_c"
  PROVE  WellRun(bench, Script)
<1>1. /\ Script.worker = <<>> /\ Script.first = <<Open("lsn"), Bind, Listen>>
      /\ Script.pre = <<Open("conn")>>
      /\ Script.bench = <<Start>>
      /\ Script.post = <<Close("conn")>> /\ Script.fini = <<>>
  BY DEF Script, Empty, Connection, ConnectionPre, ConnectionBench, ConnectionPost
<1>2. /\ AtEnd(bench, "worker") = {}
      /\ AtEnd(bench, "pre") = {"lsn", "bound", "listens", "conn"}
      /\ AtEnd(bench, "bench") = {"lsn", "bound", "listens", "conn", "calling"}
      /\ AtEnd(bench, "post") = {"lsn", "bound", "listens"} /\ AtEnd(bench, "fini")
           = {"lsn", "bound", "listens"}
  BY DEF AtEnd, Kept, Ready, Made, TcpNames
<1>3. /\ <<>> \in Seq(Calls)
      /\ Runs(bench, <<>>, {}, {})
      /\ Runs(bench, <<>>, {"lsn", "bound", "listens"}, {"lsn", "bound", "listens"})
  <2>1. {{}, {"lsn", "bound", "listens"}} \subseteq SUBSET Thing
    BY DEF Thing, Var
  <2> QED
    BY <2>1, RunsNone, EmptySeq
<1>4. <<Close("conn")>> \in Seq(Calls) /\ Runs(bench, <<Close("conn")>>,
        {"lsn", "bound", "listens", "conn", "calling"}, {"lsn", "bound", "listens"})
  <2>1. /\ Close("conn") \in Calls /\ Legal(bench,
             {"lsn", "bound", "listens", "conn", "calling"}, Close("conn"))
        /\ After({"lsn", "bound", "listens", "conn", "calling"}, Close("conn"))
             = {"lsn", "bound", "listens"}
               /\ {"lsn", "bound", "listens", "conn", "calling"} \in SUBSET Thing
    BY DEF Calls, Var, Thing, Legal, After, Opening, Calling, With, Close
  <2> QED
    BY <2>1, RunsOne
<1> QED
  BY <1>1, <1>2, <1>3, <1>4, ConnectionCalls DEF WellRun, IsScript

LEMMA ScriptRuns == bench \in Names => WellRun(bench, Script)
  BY OpenRuns, CloseRuns, BadCloseRuns, DupRuns, PairRuns, OptionRuns, ReadRuns, SeekRuns,
       TtyRuns, SharedRuns, ListenRuns, FlagRuns, BindRuns, TcpRuns, BothRuns, AcceptRuns,
         ConnectRuns DEF Names

(***************************************************************************)
(* The invariant.                                                          *)
(***************************************************************************)
\* What worker w has: the descriptors that are still its own, and how far its
\* sockets are.  connection -c never accepts; its calls last until the close.
Waiting(w) == IF bench = "connection_c" THEN conn[w] # "none"
              ELSE conn[w] = "pending" \/ queue[w] # <<>>
Mark(w, x) == \/ x = "bound" /\ port[w] # 0
              \/ x = "listens" /\ listening[w]
              \/ x = "calling" /\ Waiting(w)
Holding(w) == {v \in Var : Mine(w, v)}
                \cup {x \in {"bound", "listens", "calling"} : Mark(w, x)}

HeldInv == \A w \in Worker : Runs(bench, todo[w], Holding(w), AtEnd(bench, cb[w]))

OnceInv == \A w \in Worker : /\ cb[w] # "unborn"
                             /\ cb[w] = "worker" => ~once[w]
                             /\ cb[w] = "post" => once[w]
                             /\ cb[w] \in {"pre", "bench"} => once[w]

\* A descriptor is one of the first, or in the slot of the worker that opened it.
Accounted(p, f) ==
  IF f <= 2 THEN table[p][f] = Std
  ELSE IF f <= 2 + Script.shared THEN table[p][f] = Shared
  ELSE \/ table[p][f] = Free
       \/ \E w \in Worker, v \in Needs(bench) :
             table[p][f] = Opener(w, v) /\ Proc(w) = p /\ slot[w][v] = f
       \/ bench = "socketpair" /\ \E w \in Worker : table[p][f] = Opener(w, "second")
TableInv == \A p \in Worker : \A f \in Fds : Accounted(p, f)

\* A worker's accept queue holds at most the connection it makes itself.
Own(w) == <<[from |-> w, live |-> TRUE]>>
QueueInv ==
  \A w \in Worker :
    /\ bench # "connection_c" => /\ queue[w] \in {<<>>, Own(w)}
                                 /\ conn[w] = "pending" => queue[w] = <<>>
    /\ conn[w] = "pending" => listening[w]

\* Two sockets are bound to one port with SO_REUSEADDR only, and one of them
\* listens at most.
PortInv ==
  /\ \A v, w \in Worker : v # w /\ port[v] = port[w] /\ port[v] # 0 =>
       bench = "close_tcp" /\ ~(listening[v] /\ listening[w])
  /\ \A w \in Worker : listening[w] => port[w] # 0

Link == [from : Worker, live : BOOLEAN]
DataInv ==
  /\ bench \in Names /\ lm_optT \in ThreadCounts /\ failed \in Reason
  /\ slot \in [Worker -> [Var -> Nat]] /\ table \in [Worker -> [Fds -> Owner]]
  /\ port \in [Worker -> Nat] /\ listening \in [Worker -> BOOLEAN]
  /\ queue \in [Worker -> Seq(Link)]
  /\ conn \in [Worker -> {"none", "pending", "established"}]

DescriptorsInv ==
  /\ PlaceInv(Calls) /\ DataInv /\ OnceInv /\ HeldInv /\ TableInv /\ QueueInv /\ PortInv
  /\ FailuresKnown

(***************************************************************************)
(* The limits.                                                             *)
(***************************************************************************)
LEMMA WorkerType == N \in Nat \ {0} /\ Worker = 0..(N - 1) /\ N \notin Worker
  BY CallbacksAssumption DEF Worker

LEMMA ThreadsType ==
  ASSUME lm_optT \in ThreadCounts
  PROVE  lm_optT \in Nat \ {0} /\ \A w \in Worker : Proc(w) \in Worker
  BY LayoutThreads, Layout

LEMMA LeastOfNat ==
  ASSUME NEW S \in SUBSET Nat, S # {}
  PROVE  Min(S) \in S /\ \A y \in S : Min(S) <= y
<1>1. PICK x \in S : \A y \in S : <<y, x>> \notin OpToRel(<, Nat)
  BY NatLessThanWellFounded, WFMin
<1>2. \A y \in S : ~(y < x)
  BY <1>1 DEF OpToRel
<1>3. \E z \in S : \A y \in S : z <= y
  BY <1>2
<1> QED
  BY <1>3 DEF Min

LEMMA LimitsOf ==
  ASSUME bench \in Names, lm_optT \in ThreadCounts
  PROVE  /\ Script.limit = IF bench \in TcpNames THEN 3 * lm_optT + 10
                           ELSE IF bench \in {"open", "close", "close_b", "dup", "socket",
                                              "socketpair", "bind"} THEN lm_optT + 10
                           ELSE 0
         /\ Script.shared = IF bench = "getpeername" THEN 3
                            ELSE IF bench \in SharedNames THEN 1 ELSE 0
<1> USE DEF Script, Empty, TcpNames, SharedNames
<1>1. CASE bench \in {"open", "close", "close_b", "dup", "socket", "socketpair"}
  BY <1>1 DEF open, close, close_b, dup, socket, socketpair
<1>2. CASE bench \in {"setsockopt", "read", "write", "writev", "lseek", "isatty"}
  BY <1>2 DEF setsockopt, read, write, writev, lseek, isatty
<1>3. CASE bench \in {"pread", "pwrite", "fcntl", "fcntl_ndelay", "listen",
                      "getsockname", "getpeername"}
  BY <1>3 DEF pread, pwrite, fcntl, fcntl_ndelay, listen, getsockname, getpeername
<1>4. CASE bench \in {"bind", "close_tcp", "connection", "connection_a", "connection_c"}
  BY <1>4 DEF bind, close_tcp, Connection
<1> QED
  BY <1>1, <1>2, <1>3, <1>4 DEF Names

LEMMA FdsType ==
  ASSUME bench \in Names, lm_optT \in ThreadCounts
  PROVE  /\ Script.limit \in Nat /\ Script.shared \in 0..3
         /\ FdLimit \in Nat /\ FdLimit >= InitLimit /\ FdLimit >= Script.limit
         /\ Script.limit = 0 => FdLimit = InitLimit
         /\ Fds \subseteq Nat /\ IsFiniteSet(Fds) /\ Cardinality(Fds) = FdLimit
         /\ 0..(2 + Script.shared) \subseteq Fds
<1>1. lm_optT \in Nat
  BY ThreadsType
<1>2. Script.limit \in Nat /\ Script.shared \in 0..3
  BY <1>1, LimitsOf
<1>3. InitLimit \in Nat /\ InitLimit >= 8
  BY DescriptorsAssumption
<1> DEFINE a == Script.limit
           S == {InitLimit, a}
<1>4. a \in Nat
  BY <1>2
<1> HIDE DEF a
<1>5. \E x \in S : \A y \in S : x >= y
  <2>1. CASE a <= InitLimit
    BY <1>3, <1>4, <2>1
  <2>2. CASE ~(a <= InitLimit)
    BY <1>3, <1>4, <2>2
  <2> QED
    BY <2>1, <2>2
<1>6. Max(S) \in S /\ \A y \in S : Max(S) >= y
  BY <1>5 DEF Max
<1>7. FdLimit = Max(S)
  BY DEF FdLimit, a
<1>8. /\ FdLimit \in Nat /\ FdLimit >= InitLimit /\ FdLimit >= a
      /\ a = 0 => FdLimit = InitLimit
  BY <1>3, <1>4, <1>6, <1>7
<1>9. IsFiniteSet(Fds) /\ Cardinality(Fds) = FdLimit
  <2>1. 0 \in Int /\ FdLimit - 1 \in Int
    BY <1>8
  <2> QED
    BY <1>3, <1>8, <2>1, FS_Interval DEF Fds
<1> QED
  BY <1>2, <1>3, <1>8, <1>9 DEF Fds, a

LEMMA SameChoice ==
  ASSUME UNCHANGED choice
  PROVE  /\ bench' = bench /\ lm_optT' = lm_optT
         /\ Script' = Script /\ Fds' = Fds
         /\ \A w : Proc(w)' = Proc(w) /\ \A v : Opener(w, v)' = Opener(w, v)
<1>1. bench' = bench /\ lm_optT' = lm_optT
  BY DEF choice
<1>2. Script' = Script
  BY <1>1 DEF Script, Empty, open, close, close_b, dup, socket, socketpair,
     setsockopt, read, write, writev, lseek, isatty, pread, pwrite, fcntl, fcntl_ndelay,
     bind, listen, getsockname, getpeername, close_tcp, Connection
<1>3. Fds' = Fds
  BY <1>2 DEF Fds, FdLimit
<1> QED
  BY <1>1, <1>2, <1>3 DEF Proc, Opener

(***************************************************************************)
(* What a worker has, before and after a step.                             *)
(***************************************************************************)
LEMMA InHolding ==
  ASSUME NEW w \in Worker
  PROVE  /\ Holding(w) \in SUBSET Thing
         /\ \A v \in Var : v \in Holding(w) <=> Mine(w, v)
         /\ "bound" \in Holding(w) <=> port[w] # 0
         /\ "listens" \in Holding(w) <=> listening[w]
         /\ "calling" \in Holding(w) <=> Waiting(w)
  BY DEF Holding, Mark, Thing, Var

LEMMA HoldingNext ==
  ASSUME NEW w \in Worker, NEW h \in SUBSET Thing,
         \A v \in Var : v \in h <=> Mine(w, v)',
         "bound" \in h <=> port'[w] # 0, "listens" \in h <=> listening'[w],
         "calling" \in h <=> Waiting(w)'
  PROVE  Holding(w)' = h
  BY DEF Holding, Mark, Thing, Var

LEMMA HoldingSame ==
  ASSUME NEW w \in Worker, \A v \in Var : Mine(w, v)' <=> Mine(w, v),
         port'[w] = port[w], listening'[w] = listening[w], Waiting(w)' = Waiting(w)
  PROVE  Holding(w)' = Holding(w)
  BY InHolding, HoldingNext

LEMMA FilesSame ==
  ASSUME UNCHANGED <<files, choice>>
  PROVE  /\ \A w \in Worker, v \in Var : Mine(w, v)' <=> Mine(w, v)
         /\ TableInv => TableInv'
<1>1. /\ Fds' = Fds /\ Script' = Script /\ bench' = bench /\ slot' = slot /\ table' = table
      /\ \A w : Proc(w)' = Proc(w) /\ \A v : Opener(w, v)' = Opener(w, v)
  BY SameChoice DEF files
<1>2. Needs(bench)' = Needs(bench)
  BY <1>1
<1> QED
  BY <1>1, <1>2 DEF Mine, Fd, TableInv, Accounted

LEMMA NetworkSame ==
  ASSUME UNCHANGED <<network, choice>>
  PROVE  /\ \A w \in Worker : /\ port'[w] = port[w] /\ listening'[w] = listening[w]
                              /\ Waiting(w)' = Waiting(w)
         /\ QueueInv => QueueInv'
         /\ PortInv => PortInv'
  BY DEF network, choice, Waiting, QueueInv, PortInv, Own

\* The next call is legal for what the worker has.
LEMMA NextLegal ==
  ASSUME DescriptorsInv, NEW w \in Worker, todo[w] # <<>>
  PROVE  /\ Head(todo[w]) \in Calls /\ todo[w] \in Seq(Calls)
         /\ Legal(bench, Holding(w), Head(todo[w]))
         /\ Runs(bench, Tail(todo[w]), After(Holding(w), Head(todo[w])),
                 AtEnd(bench, cb[w]))
<1>1. todo[w] \in Seq(Calls)
  BY DEF DescriptorsInv, PlaceInv
<1>2. Runs(bench, todo[w], Holding(w), AtEnd(bench, cb[w]))
  BY DEF DescriptorsInv, HeldInv
<1> QED
  BY <1>1, <1>2, RunsTail, HeadTailProperties

LEMMA AfterIs ==
  ASSUME NEW h, NEW c
  PROVE  /\ c.op \in {"open", "dup", "pair"} => After(h, c) = h \cup {c.var}
         /\ c.op = "accept" => After(h, c) = (h \cup {c.var}) \ {"calling"}
         /\ c.op = "close" => After(h, c) = h \ With(c.var)
         /\ c.op \in {"bind", "bindreuse"} => After(h, c) = h \cup {"bound"}
         /\ c.op = "listen" => After(h, c) = h \cup {"listens"}
         /\ c.op \in Calling => After(h, c) = h \cup {"calling"}
         /\ c.op \in {"use", "forge", "await"} => After(h, c) = h
  BY DEF After, Calling

\* A worker that has made its next call.
LEMMA CallHeld ==
  ASSUME DescriptorsInv, NEW w \in Worker, todo[w] # <<>>, Done(w),
         UNCHANGED <<round, choice>>,
         Holding(w)' = After(Holding(w), Head(todo[w])),
         \A u \in Worker \ {w} : Holding(u)' = Holding(u)
  PROVE  PlaceInv(Calls)' /\ OnceInv' /\ HeldInv'
<1>1. PlaceInv(Calls)'
  BY DonePlace DEF DescriptorsInv
<1>2. /\ todo'[w] = Tail(todo[w]) /\ cb' = cb /\ once' = once
      /\ \A u \in Worker \ {w} : todo'[u] = todo[u]
  BY DEF Done, DescriptorsInv, PlaceInv
<1>3. OnceInv'
  BY <1>2 DEF OnceInv, DescriptorsInv
<1>4. bench' = bench
  BY DEF choice
<1>5. ASSUME NEW u \in Worker
      PROVE  Runs(bench', todo'[u], Holding(u)', AtEnd(bench', cb'[u]))
  <2>1. CASE u = w
    BY <1>2, <1>4, <2>1, NextLegal
  <2>2. CASE u # w
    BY <1>2, <1>4, <2>2 DEF HeldInv, DescriptorsInv
  <2> QED
    BY <2>1, <2>2
<1> QED
  BY <1>1, <1>3, <1>5 DEF HeldInv

\* Nobody's place or possessions change.
LEMMA StillHeld ==
  ASSUME DescriptorsInv, UNCHANGED <<round, choice, place>>,
         \A u \in Worker : Holding(u)' = Holding(u)
  PROVE  PlaceInv(Calls)' /\ OnceInv' /\ HeldInv'
<1>1. PlaceInv(Calls)'
  BY SamePlace DEF DescriptorsInv
<1> QED
  BY <1>1 DEF DescriptorsInv, OnceInv, HeldInv, place, choice

\* A worker opens the descriptor f in its variable v; socketpair makes a second one.
Takes(w, v, f) ==
  /\ table' \in [Worker -> [Fds -> Owner]]
  /\ slot' = [slot EXCEPT ![w][v] = f]
  /\ table'[Proc(w)][f] = Opener(w, v)
  /\ \A p \in Worker, g \in Fds : p # Proc(w) \/ g # f =>
       \/ table'[p][g] = table[p][g]
       \/ /\ bench = "socketpair" /\ table[p][g] = Free
          /\ table'[p][g] = Opener(w, "second")

LEMMA Opened ==
  ASSUME DataInv, TableInv, UNCHANGED choice,
         NEW w \in Worker, NEW v \in Needs(bench), NEW f \in Fds,
         table[Proc(w)][f] = Free, ~Mine(w, v), Takes(w, v, f)
  PROVE  /\ slot' \in [Worker -> [Var -> Nat]] /\ TableInv' /\ Mine(w, v)'
         /\ \A u \in Worker, x \in Var : u # w \/ x # v => (Mine(u, x)' <=> Mine(u, x))
<1>1. /\ Fds' = Fds /\ Script' = Script /\ bench' = bench
      /\ \A u : Proc(u)' = Proc(u) /\ \A x : Opener(u, x)' = Opener(u, x)
  BY SameChoice
<1>2. v \in Var /\ Fds \subseteq Nat /\ Proc(w) \in Worker
  BY FdsType, ThreadsType DEF Needs, Var, DataInv
<1> USE DEF Takes
<1>3. /\ slot' \in [Worker -> [Var -> Nat]] /\ slot'[w][v] = f
      /\ \A u \in Worker, x \in Var : u # w \/ x # v => slot'[u][x] = slot[u][x]
  BY <1>2 DEF DataInv
<1>4. \A u \in Worker, x \in Var : /\ Opener(u, x) = [who |-> u, var |-> x]
                                   /\ Fd(u, x) = slot[u][x] /\ Fd(u, x)' = slot'[u][x]
  BY DEF Opener, Fd, Var
<1>5. /\ \A u \in Worker, x \in Var \cup {"second"} : Opener(u, x) # Free
      /\ \A u, y \in Worker, x, z \in Var \cup {"second"} :
           Opener(u, x) = Opener(y, z) => u = y /\ x = z
  BY DEF Opener, Free, Var
<1>6. Mine(w, v)'
  BY <1>1, <1>2, <1>3, <1>4 DEF Mine
<1>7. ASSUME NEW u \in Worker, NEW x \in Var, u # w \/ x # v
      PROVE  Mine(u, x)' <=> Mine(u, x)
  <2> DEFINE g == slot[u][x]
  <2>1. /\ Mine(u, x) <=> g \in Fds /\ table[Proc(u)][g] = Opener(u, x)
        /\ Mine(u, x)' <=> g \in Fds /\ table'[Proc(u)][g] = Opener(u, x)
    BY <1>1, <1>3, <1>4, <1>7 DEF Mine
  <2>2. Proc(u) \in Worker /\ Opener(u, x) # Opener(w, v)
        /\ Opener(u, x) # Opener(w, "second") /\ Opener(u, x) # Free
    <3>1. x # "second"
      BY DEF Var
    <3>2. Proc(u) \in Worker
      BY ThreadsType DEF DataInv
    <3>3. Opener(u, x) # Opener(w, v)
      BY <1>2, <1>5, <1>7
    <3> QED
      BY <1>5, <3>1, <3>2, <3>3
  <2>3. CASE g \in Fds
    BY <2>1, <2>2, <2>3
  <2>4. CASE g \notin Fds
    BY <2>1, <2>4
  <2> QED
    BY <2>3, <2>4
<1>8. ASSUME NEW p \in Worker, NEW g \in Fds
      PROVE  Accounted(p, g)'
  <2>1. Accounted(p, g)
    BY DEF TableInv
  <2>2. CASE p = Proc(w) /\ g = f
    <3>1. ~(g <= 2) /\ ~(g <= 2 + Script.shared)
      BY <2>1, <2>2 DEF Accounted, Free, Std, Shared
    <3> QED
      BY <1>1, <1>3, <2>2, <3>1 DEF Accounted
  <2>3. CASE table'[p][g] = table[p][g] /\ (p # Proc(w) \/ g # f)
    <3>1. CASE \E u \in Worker, x \in Needs(bench) :
                 table[p][g] = Opener(u, x) /\ Proc(u) = p /\ slot[u][x] = g
      <4>1. PICK u \in Worker, x \in Needs(bench) :
              table[p][g] = Opener(u, x) /\ Proc(u) = p /\ slot[u][x] = g
        BY <3>1
      <4>2. x \in Var
        BY DEF Needs, Var
      <4>3. u # w \/ x # v
        BY <1>4, <4>1, <4>2 DEF Mine
      <4>4. slot'[u][x] = g
        BY <1>3, <4>1, <4>2, <4>3
      <4> QED
        BY <1>1, <2>1, <2>3, <4>1, <4>4 DEF Accounted
    <3>2. CASE ~\E u \in Worker, x \in Needs(bench) :
                  table[p][g] = Opener(u, x) /\ Proc(u) = p /\ slot[u][x] = g
      BY <1>1, <2>1, <2>3, <3>2 DEF Accounted
    <3> QED
      BY <3>1, <3>2
  <2>4. CASE /\ bench = "socketpair" /\ table[p][g] = Free
             /\ table'[p][g] = Opener(w, "second")
    <3>1. ~(g <= 2) /\ ~(g <= 2 + Script.shared)
      BY <2>1, <2>4 DEF Accounted, Free, Std, Shared
    <3> QED
      BY <1>1, <2>4, <3>1 DEF Accounted
  <2> QED
    BY <2>2, <2>3, <2>4
<1> QED
  BY <1>1, <1>3, <1>6, <1>7, <1>8 DEF TableInv

\* A worker closes a descriptor of its own.
LEMMA Closed ==
  ASSUME DataInv, TableInv, UNCHANGED <<choice, slot>>,
         NEW w \in Worker, NEW v \in Var, Mine(w, v),
         table' = [table EXCEPT ![Proc(w)][Fd(w, v)] = Free]
  PROVE  /\ table' \in [Worker -> [Fds' -> Owner]] /\ TableInv' /\ ~Mine(w, v)'
         /\ \A u \in Worker, x \in Var : u # w \/ x # v => (Mine(u, x)' <=> Mine(u, x))
<1>1. /\ Fds' = Fds /\ Script' = Script /\ bench' = bench /\ slot' = slot
      /\ \A u : Proc(u)' = Proc(u) /\ \A x : Opener(u, x)' = Opener(u, x)
  BY SameChoice
<1> DEFINE f == slot[w][v]
<1>2. Proc(w) \in Worker /\ f \in Fds /\ Free \in Owner
  BY ThreadsType DEF DataInv, Mine, Fd, Var, Owner, Free
<1>3. \A u \in Worker, x \in Var : Fd(u, x) = slot[u][x] /\ Fd(u, x)' = slot[u][x]
  BY <1>1 DEF Fd, Var
<1>4. /\ \A u \in Worker, x \in Var : Opener(u, x) # Free
      /\ \A u, y \in Worker, x, z \in Var : Opener(u, x) = Opener(y, z) => u = y /\ x = z
  BY DEF Opener, Free, Var
<1>5. /\ table' \in [Worker -> [Fds -> Owner]] /\ table'[Proc(w)][f] = Free
      /\ \A p \in Worker, g \in Fds : p # Proc(w) \/ g # f => table'[p][g] = table[p][g]
  BY <1>2, <1>3 DEF DataInv
<1>6. table[Proc(w)][f] = Opener(w, v)
  BY <1>3 DEF Mine
<1>7. ~Mine(w, v)'
  BY <1>1, <1>3, <1>4, <1>5 DEF Mine
<1>8. ASSUME NEW u \in Worker, NEW x \in Var, u # w \/ x # v
      PROVE  Mine(u, x)' <=> Mine(u, x)
  <2> DEFINE g == slot[u][x]
  <2>1. /\ Mine(u, x) <=> g \in Fds /\ table[Proc(u)][g] = Opener(u, x)
        /\ Mine(u, x)' <=> g \in Fds /\ table'[Proc(u)][g] = Opener(u, x)
    BY <1>1, <1>3 DEF Mine
  <2>2. Proc(u) \in Worker /\ Opener(u, x) # Opener(w, v) /\ Opener(u, x) # Free
    BY <1>4, <1>8, ThreadsType DEF DataInv
  <2>3. CASE g \in Fds /\ (Proc(u) # Proc(w) \/ g # f)
    BY <1>5, <2>1, <2>2, <2>3
  <2>4. CASE g \in Fds /\ Proc(u) = Proc(w) /\ g = f
    <3>1. table[Proc(u)][g] = Opener(w, v) /\ table'[Proc(u)][g] = Free
      BY <1>5, <1>6, <2>4
    <3> QED
      BY <2>1, <2>2, <3>1
  <2>5. CASE g \notin Fds
    BY <2>1, <2>5
  <2> QED
    BY <2>3, <2>4, <2>5
<1>9. ASSUME NEW p \in Worker, NEW g \in Fds
      PROVE  Accounted(p, g)'
  <2>1. Accounted(p, g)
    BY DEF TableInv
  <2>2. CASE p = Proc(w) /\ g = f
    <3>1. ~(g <= 2) /\ ~(g <= 2 + Script.shared)
      BY <1>6, <2>1, <2>2, WorkerType DEF Accounted, Opener, Std, Shared, Var
    <3> QED
      BY <1>1, <1>5, <2>2, <3>1 DEF Accounted, Free
  <2>3. CASE p # Proc(w) \/ g # f
    <3>1. table'[p][g] = table[p][g]
      BY <1>5, <2>3
    <3> QED
      BY <1>1, <2>1, <3>1 DEF Accounted, Free, Std, Shared
  <2> QED
    BY <2>2, <2>3
<1> QED
  BY <1>1, <1>5, <1>7, <1>8, <1>9 DEF TableInv

(***************************************************************************)
(* The calls, one by one.                                                  *)
(***************************************************************************)
LEMMA LowestFree ==
  ASSUME DataInv, NEW w \in Worker, Room(w, 1)
  PROVE  Lowest(Proc(w)) \in Fds /\ table[Proc(w)][Lowest(Proc(w))] = Free
<1>1. Free1(Proc(w)) # {}
  <2>1. Cardinality({}) = 0
    BY FS_EmptySet
  <2> QED
    BY <2>1 DEF Room
<1>2. Free1(Proc(w)) \in SUBSET Nat
  BY FdsType DEF Free1, DataInv
<1>3. Lowest(Proc(w)) \in Free1(Proc(w))
  BY <1>1, <1>2, LeastOfNat DEF Lowest
<1> QED
  BY <1>3 DEF Free1

LEMMA SecondFree ==
  ASSUME DataInv, NEW w \in Worker, Room(w, 2)
  PROVE  /\ Room(w, 1)
         /\ LET g == Min(Free1(Proc(w)) \ {Lowest(Proc(w))}) IN
              g \in Fds /\ g # Lowest(Proc(w)) /\ table[Proc(w)][g] = Free
<1> DEFINE S == Free1(Proc(w))
           f == Lowest(Proc(w))
<1>1. S \in SUBSET Fds /\ IsFiniteSet(Fds) /\ Fds \subseteq Nat
  BY FdsType DEF Free1, DataInv
<1>2. IsFiniteSet(S) /\ Cardinality(S) \in Nat /\ Cardinality(S) >= 2
  BY <1>1, FS_Subset, FS_CardinalityType DEF Room
<1>3. S \ {f} # {}
  <2>1. SUFFICES ASSUME S \ {f} = {} PROVE FALSE
    OBVIOUS
  <2>2. S \in SUBSET {f}
    BY <2>1
  <2>3. IsFiniteSet({f}) /\ Cardinality({f}) = 1
    BY FS_Singleton
  <2>4. Cardinality(S) <= 1
    <3> HIDE DEF S, f
    <3> QED
      BY <2>2, <2>3, FS_Subset
  <2> QED
    BY <1>2, <2>4
<1>4. Min(S \ {f}) \in S \ {f}
  <2>1. S \ {f} \in SUBSET Nat
    BY <1>1
  <2> HIDE DEF S, f
  <2> QED
    BY <1>3, <2>1, LeastOfNat
<1>5. Room(w, 1)
  BY <1>2 DEF Room
<1> QED
  BY <1>1, <1>4, <1>5 DEF Free1

\* The step of a worker that opens the descriptor f in its variable v.
LEMMA OpenKeeps ==
  ASSUME DescriptorsInv, NEW w \in Worker, NEW v \in Needs(bench), NEW f \in Fds,
         ~Mine(w, v), table[Proc(w)][f] = Free, Takes(w, v, f),
         todo[w] # <<>>, Head(todo[w]).op \in {"open", "dup", "pair"},
           Head(todo[w]).var = v,
         Done(w), UNCHANGED <<round, choice, network, failed>>, failed = "no"
  PROVE  DescriptorsInv'
<1>1. DataInv /\ TableInv /\ QueueInv /\ PortInv
  BY DEF DescriptorsInv
<1>2. /\ slot' \in [Worker -> [Var -> Nat]] /\ TableInv' /\ Mine(w, v)'
      /\ \A u \in Worker, x \in Var : u # w \/ x # v => (Mine(u, x)' <=> Mine(u, x))
  BY <1>1, Opened
<1>3. /\ QueueInv' /\ PortInv'
      /\ \A u \in Worker : /\ port'[u] = port[u] /\ listening'[u] = listening[u]
                           /\ Waiting(u)' = Waiting(u)
  BY <1>1, NetworkSame
<1>4. v \in Var
  BY DEF Needs, Var
<1>5. \A u \in Worker \ {w} : Holding(u)' = Holding(u)
  BY <1>2, <1>3, HoldingSame
<1>6. Holding(w)' = After(Holding(w), Head(todo[w]))
  <2>1. After(Holding(w), Head(todo[w])) = Holding(w) \cup {v}
    BY AfterIs
  <2>2. Holding(w) \cup {v} \in SUBSET Thing
    BY <1>4, InHolding DEF Thing
  <2>3. v \notin {"bound", "listens", "calling"}
    BY <1>4 DEF Var
  <2> DEFINE h == Holding(w) \cup {v}
  <2>5. /\ \A x \in Var : x \in h <=> Mine(w, x)'
        /\ "bound" \in h <=> port'[w] # 0 
        /\ "listens" \in h <=> listening'[w]
        /\ "calling" \in h <=> Waiting(w)'
    BY <1>2, <1>3, <1>4, <2>3, InHolding
  <2>4. Holding(w)' = h
    <3> HIDE DEF h
    <3>1. h \in SUBSET Thing
      BY <2>2 DEF h
    <3> QED
      BY <2>5, <3>1, HoldingNext
  <2> QED
    BY <2>1, <2>4
<1>7. PlaceInv(Calls)' /\ OnceInv' /\ HeldInv'
  BY <1>5, <1>6, CallHeld
<1>8. DataInv'
  <2>1. bench' = bench /\ lm_optT' = lm_optT /\ Fds' = Fds
    BY SameChoice
  <2>2. table' \in [Worker -> [Fds -> Owner]]
    BY DEF Takes
  <2> QED
    BY <1>1, <1>2, <2>1, <2>2 DEF DataInv, network
<1>9. FailuresKnown'
  BY DEF FailuresKnown
<1> QED
  BY <1>2, <1>3, <1>7, <1>8, <1>9 DEF DescriptorsInv

LEMMA OpenOneKeeps ==
  ASSUME DescriptorsInv, NEW w \in Worker, OpenOne(w)
  PROVE  DescriptorsInv'
<1> DEFINE v == Head(todo[w]).var
           f == Lowest(Proc(w))
<1>1. /\ Next1(w, {"open", "dup"}) /\ Room(w, 1) /\ Done(w)
      /\ table' = [table EXCEPT ![Proc(w)][f] = Opener(w, v)]
      /\ slot' = [slot EXCEPT ![w][v] = f]
      /\ UNCHANGED <<round, choice, network, failed>>
  BY DEF OpenOne
<1>2. failed = "no" /\ todo[w] # <<>> /\ Head(todo[w]).op \in {"open", "dup"}
  BY <1>1 DEF Next1
<1>3. v \in Needs(bench) /\ v \in Var /\ ~Mine(w, v)
  <2>1. Legal(bench, Holding(w), Head(todo[w]))
    BY <1>2, NextLegal
  <2>2. v \in Needs(bench) \ Holding(w)
    BY <1>2, <2>1 DEF Legal, Opening
  <2>3. v \in Var
    BY <2>2 DEF Needs, Var
  <2> QED
    BY <2>2, <2>3, InHolding
<1>4. f \in Fds /\ table[Proc(w)][f] = Free /\ Proc(w) \in Worker
  BY <1>1, LowestFree, ThreadsType DEF DescriptorsInv, DataInv
<1>5. Opener(w, v) \in Owner
  BY <1>3 DEF Opener, Owner, Var
<1> HIDE DEF v, f
<1>6. Takes(w, v, f)
  BY <1>1, <1>4, <1>5 DEF DescriptorsInv, DataInv, Takes
<1>7. Head(todo[w]).var = v /\ Head(todo[w]).op \in {"open", "dup", "pair"}
  BY <1>2 DEF v
<1> QED
  BY <1>1, <1>2, <1>3, <1>4, <1>6, <1>7, OpenKeeps

LEMMA OpenPairKeeps ==
  ASSUME DescriptorsInv, NEW w \in Worker, OpenPair(w)
  PROVE  DescriptorsInv'
<1> DEFINE v == Head(todo[w]).var
           f == Lowest(Proc(w))
           s == Min(Free1(Proc(w)) \ {f})
<1>1. /\ Next1(w, {"pair"}) /\ Room(w, 2) /\ Done(w)
      /\ table' = [table EXCEPT ![Proc(w)][f] = Opener(w, v),
                                ![Proc(w)][s] = Opener(w, "second")]
      /\ slot' = [slot EXCEPT ![w][v] = f]
      /\ UNCHANGED <<round, choice, network, failed>>
  BY DEF OpenPair
<1>2. failed = "no" /\ todo[w] # <<>> /\ Head(todo[w]).op = "pair"
  BY <1>1 DEF Next1
<1>3. v \in Needs(bench) /\ v \in Var /\ ~Mine(w, v) /\ bench = "socketpair"
  <2>1. Legal(bench, Holding(w), Head(todo[w]))
    BY <1>2, NextLegal
  <2>2. v \in Needs(bench) \ Holding(w) /\ bench = "socketpair"
    BY <1>2, <2>1 DEF Legal, Opening
  <2>3. v \in Var
    BY <2>2 DEF Needs, Var
  <2> QED
    BY <2>2, <2>3, InHolding
<1>4. /\ f \in Fds /\ table[Proc(w)][f] = Free /\ Proc(w) \in Worker
      /\ s \in Fds /\ s # f /\ table[Proc(w)][s] = Free
  BY <1>1, LowestFree, SecondFree, ThreadsType DEF DescriptorsInv, DataInv
<1>5. Opener(w, v) \in Owner /\ Opener(w, "second") \in Owner
  BY <1>3 DEF Opener, Owner, Var
<1> HIDE DEF v, f, s
<1>6. /\ table' \in [Worker -> [Fds -> Owner]] /\ table'[Proc(w)][f] = Opener(w, v)
      /\ table'[Proc(w)][s] = Opener(w, "second")
      /\ \A p \in Worker, g \in Fds :
           p # Proc(w) \/ (g # f /\ g # s) => table'[p][g] = table[p][g]
  BY <1>1, <1>4, <1>5 DEF DescriptorsInv, DataInv
<1>7. Head(todo[w]).var = v /\ Head(todo[w]).op \in {"open", "dup", "pair"}
  BY <1>2 DEF v
<1>8. Takes(w, v, f)
  BY <1>1, <1>3, <1>4, <1>6 DEF Takes
<1> QED
  BY <1>1, <1>2, <1>3, <1>4, <1>6, <1>7, <1>8, OpenKeeps

\* use and await: nothing but the place of the worker changes.
LEMMA UseKeeps ==
  ASSUME DescriptorsInv, NEW w \in Worker, todo[w] # <<>>, failed = "no",
         Head(todo[w]).op \in {"use", "await"}, Done(w),
         UNCHANGED <<round, choice, files, network, failed>>
  PROVE  DescriptorsInv'
<1>1. TableInv' /\ QueueInv' /\ PortInv'
  BY FilesSame, NetworkSame DEF DescriptorsInv
<1>2. \A u \in Worker : Holding(u)' = Holding(u)
  BY FilesSame, NetworkSame, HoldingSame
<1>3. Holding(w)' = After(Holding(w), Head(todo[w]))
  BY <1>2, AfterIs
<1>4. PlaceInv(Calls)' /\ OnceInv' /\ HeldInv'
  BY <1>2, <1>3, CallHeld
<1>5. DataInv'
  BY SameChoice DEF DescriptorsInv, DataInv, files, network
<1>6. FailuresKnown'
  BY DEF FailuresKnown
<1> QED
  BY <1>1, <1>4, <1>5, <1>6 DEF DescriptorsInv

\* Nobody has opened anything in a run of close -b.
LEMMA NothingOpen ==
  ASSUME DescriptorsInv, bench = "close_b"
  PROVE  \A p \in Worker, f \in Fds : table[p][f] \in {Free,
           Std} /\ (f > 2 => table[p][f] = Free)
<1>1. Needs(bench) = {} /\ Script.shared = 0
  BY LimitsOf DEF Needs, TcpNames, SharedNames, DescriptorsInv, DataInv
<1>2. Fds \subseteq Nat
  BY FdsType DEF DescriptorsInv, DataInv
<1>3. ASSUME NEW p \in Worker, NEW f \in Fds
      PROVE  table[p][f] \in {Free, Std} /\ (f > 2 => table[p][f] = Free)
  <2>1. Accounted(p, f) /\ f \in Nat
    BY <1>2 DEF DescriptorsInv, TableInv
  <2>2. ~\E u \in Worker, v \in Needs(bench) :
           table[p][f] = Opener(u, v) /\ Proc(u) = p /\ slot[u][v] = f
    BY <1>1
  <2>3. IF f <= 2 THEN table[p][f] = Std ELSE table[p][f] = Free
    BY <1>1, <2>1, <2>2 DEF Accounted
  <2> QED
    BY <2>1, <2>3
<1> QED
  BY <1>3

LEMMA AssignKeeps ==
  ASSUME DescriptorsInv, NEW w \in Worker, Assign(w)
  PROVE  DescriptorsInv'
<1> DEFINE v == Head(todo[w]).var
<1>1. /\ failed = "no" /\ todo[w] # <<>> /\ Head(todo[w]).op = "forge" /\ Done(w)
      /\ slot' = [slot EXCEPT ![w][v] = BadFd]
      /\ UNCHANGED <<round, choice, table, network, failed>>
  BY DEF Assign, Next1
<1>2. bench = "close_b" /\ v \in Var
  <2>1. Legal(bench, Holding(w), Head(todo[w]))
    BY <1>1, NextLegal
  <2> QED
    BY <1>1, <2>1 DEF Legal
<1> HIDE DEF v
<1>3. /\ Fds' = Fds /\ Script' = Script /\ bench' = bench /\ lm_optT' = lm_optT
      /\ \A u : Proc(u)' = Proc(u) /\ \A x : Opener(u, x)' = Opener(u, x)
  BY <1>1, SameChoice
<1>4. Needs(bench) = {} /\ table' = table
  BY <1>1, <1>2 DEF Needs, TcpNames, SharedNames
<1>5. TableInv'
  BY <1>2, <1>3, <1>4 DEF DescriptorsInv, TableInv, Accounted
<1>6. \A u \in Worker, x \in Var : ~Mine(u, x) /\ ~Mine(u, x)'
  <2>1. \A u \in Worker : Proc(u) \in Worker
    BY ThreadsType DEF DescriptorsInv, DataInv
  <2>2. \A u \in Worker, x \in Var : Opener(u, x) \notin {Free, Std}
    BY DEF Opener, Free, Std, Var
  <2> QED
    BY <1>2, <1>3, <1>4, <2>1, <2>2, NothingOpen DEF Mine
<1>7. /\ QueueInv' /\ PortInv'
      /\ \A u \in Worker : /\ port'[u] = port[u] /\ listening'[u] = listening[u]
                           /\ Waiting(u)' = Waiting(u)
  BY <1>1, NetworkSame DEF DescriptorsInv
<1>8. \A u \in Worker : Holding(u)' = Holding(u)
  BY <1>6, <1>7, HoldingSame
<1>9. PlaceInv(Calls)' /\ OnceInv' /\ HeldInv'
  <2>1. Holding(w)' = After(Holding(w), Head(todo[w]))
    BY <1>1, <1>8, AfterIs
  <2> QED
    BY <1>1, <1>8, <2>1, CallHeld
<1>10. DataInv'
  <2>1. BadFd \in Nat
    BY DescriptorsAssumption
  <2>2. slot' \in [Worker -> [Var -> Nat]]
    BY <1>1, <1>2, <2>1 DEF DescriptorsInv, DataInv
  <2> QED
    BY <1>1, <1>3, <2>2 DEF DescriptorsInv, DataInv, network
<1>11. FailuresKnown'
  BY <1>1 DEF FailuresKnown
<1> QED
  BY <1>5, <1>7, <1>9, <1>10, <1>11 DEF DescriptorsInv

LEMMA DeadType ==
  ASSUME NEW q \in Seq(Link), NEW w
  PROVE  Dead(q, w) \in Seq(Link)
<1> DEFINE e(i) == IF q[i].from = w THEN [q[i] EXCEPT !.live = FALSE] ELSE q[i]
<1>1. Len(q) \in Nat /\ DOMAIN q = 1..Len(q) /\ \A i \in 1..Len(q) : q[i] \in Link
  BY LenProperties, ElementOfSeq
<1>2. \A i \in 1..Len(q) : e(i) \in Link
  BY <1>1 DEF Link
<1>3. [i \in 1..Len(q) |-> e(i)] \in Seq(Link)
  <2> HIDE DEF e
  <2> QED
    BY <1>1, <1>2, IsASeq
<1> QED
  BY <1>1, <1>3 DEF Dead

\* What closing does to the network.
LEMMA CloseOthers ==
  ASSUME DescriptorsInv, NEW w \in Worker, CloseOne(w), NEW u \in Worker \ {w}
  PROVE  /\ port'[u] = port[u] /\ listening'[u] = listening[u] /\ conn'[u] = conn[u]
         /\ queue'[u] \in Seq(Link)
         /\ bench # "connection_c" => queue'[u] = queue[u]
         /\ Waiting(u)' = Waiting(u)
<1>1. /\ port'[u] = port[u] /\ listening'[u] = listening[u] /\ conn'[u] = conn[u]
      /\ queue'[u] = queue[u] \/ queue'[u] = Dead(queue[u], w)
  BY DEF CloseOne, DescriptorsInv, DataInv, network
<1>2. queue[u] \in Seq(Link)
  BY DEF DescriptorsInv, DataInv
<1>3. Dead(queue[u], w) \in Seq(Link)
  BY <1>2, DeadType
<1>4. CASE bench # "connection_c"
  <2>1. queue[u] \in {<<>>, Own(u)}
    BY <1>4 DEF DescriptorsInv, QueueInv
  <2>2. Dead(<<>>, w) = <<>>
    BY DEF Dead
  <2>3. Dead(Own(u), w) = Own(u)
    BY DEF Dead, Own
  <2>4. queue'[u] = queue[u]
    BY <1>1, <2>1, <2>2, <2>3
  <2>5. bench' = bench
    BY DEF CloseOne, choice
  <2> QED
    BY <1>1, <1>2, <2>4, <2>5 DEF Waiting
<1>5. CASE bench = "connection_c"
  <2>1. bench' = bench
    BY DEF CloseOne, choice
  <2> QED
    BY <1>1, <1>2, <1>3, <1>5, <2>1 DEF Waiting
<1> QED
  BY <1>4, <1>5


LEMMA CloseKeeps ==
  ASSUME DescriptorsInv, NEW w \in Worker, CloseOne(w)
  PROVE  DescriptorsInv'
<1>0. PICK v : v = Head(todo[w]).var
  OBVIOUS
<1>1. /\ failed = "no" /\ todo[w] # <<>> /\ Head(todo[w]).op = "close" /\ Done(w)
      /\ table' = [table EXCEPT ![Proc(w)][Fd(w, v)] = Free]
      /\ UNCHANGED <<round, choice, slot, failed>>
  BY <1>0 DEF CloseOne, Next1
<1>2. /\ v \in Var /\ Mine(w, v)
      /\ v = "lsn" => ~Waiting(w)
      /\ v = "conn" => ~Waiting(w) \/ bench = "connection_c"
  <2>1. Legal(bench, Holding(w), Head(todo[w]))
    BY <1>1, NextLegal
  <2>2. /\ v \in Var /\ v \in Holding(w)
        /\ v = "lsn" => "calling" \notin Holding(w)
        /\ v = "conn" => "calling" \notin Holding(w) \/ bench = "connection_c"
    BY <1>0, <1>1, <2>1 DEF Legal
  <2> QED
    BY <2>2, InHolding
<1>3. /\ port' \in [Worker -> Nat] /\ listening' \in [Worker -> BOOLEAN]
      /\ conn' \in [Worker -> {"none", "pending", "established"}]
      /\ v = "lsn" => /\ port'[w] = 0 /\ ~listening'[w] /\ queue'[w] = <<>>
                      /\ conn'[w] = conn[w]
      /\ v = "conn" => /\ port'[w] = port[w] /\ listening'[w] = listening[w]
                       /\ queue'[w] = Dead(queue[w], w) /\ conn'[w] = "none"
      /\ v \notin {"lsn", "conn"} =>
           /\ port'[w] = port[w] /\ listening'[w] = listening[w]
           /\ queue'[w] = queue[w] /\ conn'[w] = conn[w]
  <2>1. /\ port \in [Worker -> Nat] /\ listening \in [Worker -> BOOLEAN]
        /\ queue \in [Worker -> Seq(Link)]
        /\ conn \in [Worker -> {"none", "pending", "established"}]
    BY DEF DescriptorsInv, DataInv
  <2>2. IF v = "lsn"
          THEN /\ port' = [port EXCEPT ![w] = 0]
               /\ listening' = [listening EXCEPT ![w] = FALSE]
               /\ queue' = [queue EXCEPT ![w] = <<>>]
               /\ UNCHANGED conn
          ELSE IF v = "conn"
          THEN /\ conn' = [conn EXCEPT ![w] = "none"]
               /\ queue' = [u \in Worker |-> Dead(queue[u], w)]
               /\ UNCHANGED <<port, listening>>
          ELSE UNCHANGED <<port, listening, queue, conn>>
    BY <1>0 DEF CloseOne, network
  <2>3. CASE v = "lsn"
    <3>1. /\ port' = [port EXCEPT ![w] = 0] /\ listening' = [listening EXCEPT ![w] = FALSE]
          /\ queue' = [queue EXCEPT ![w] = <<>>] /\ conn' = conn
      BY <2>2, <2>3
    <3>2. port'[w] = 0 /\ ~listening'[w] /\ queue'[w] = <<>>
      BY <2>1, <3>1
    <3> QED
      BY <2>1, <2>3, <3>1, <3>2
  <2>4. CASE v = "conn"
    BY <2>1, <2>2, <2>4
  <2>5. CASE v \notin {"lsn", "conn"}
    BY <2>1, <2>2, <2>5
  <2> QED
    BY <2>3, <2>4, <2>5
<1>4. DOMAIN queue' = Worker /\ queue' = [u \in Worker |-> queue'[u]]
  BY DEF CloseOne, DescriptorsInv, DataInv, network
<1>5. \A u \in Worker \ {w} :
        /\ port'[u] = port[u] /\ listening'[u] = listening[u] /\ conn'[u] = conn[u]
        /\ queue'[u] \in Seq(Link)
        /\ bench # "connection_c" => queue'[u] = queue[u]
        /\ Waiting(u)' = Waiting(u)
  BY CloseOthers
<1>6. bench' = bench /\ lm_optT' = lm_optT /\ Fds' = Fds
  BY <1>1, SameChoice
<1>7. /\ table' \in [Worker -> [Fds' -> Owner]] /\ TableInv' /\ ~Mine(w, v)'
      /\ \A u \in Worker, x \in Var : u # w \/ x # v => (Mine(u, x)' <=> Mine(u, x))
  <2>1. DataInv /\ TableInv /\ UNCHANGED <<choice, slot>>
    BY <1>1 DEF DescriptorsInv
  <2> QED
    BY <1>1, <1>2, <2>1, Closed
<1>8. /\ queue'[w] \in Seq(Link)
      /\ v = "conn" /\ bench # "connection_c" => queue'[w] = <<>>
  <2>1. queue[w] \in Seq(Link)
    BY DEF DescriptorsInv, DataInv
  <2>2. Dead(queue[w], w) \in Seq(Link)
    BY <2>1, DeadType
  <2>3. v = "conn" /\ bench # "connection_c" => queue[w] = <<>>
    BY <1>2 DEF Waiting
  <2>4. Dead(<<>>, w) = <<>>
    BY DEF Dead
  <2>5. <<>> \in Seq(Link)
    BY EmptySeq
  <2> QED
    BY <1>3, <2>1, <2>2, <2>3, <2>4, <2>5
<1>9. QueueInv'
  <2>1. ASSUME NEW u \in Worker
        PROVE  /\ bench' # "connection_c" =>
                     /\ queue'[u] \in {<<>>, Own(u)'}
                     /\ conn'[u] = "pending" => queue'[u] = <<>>
               /\ conn'[u] = "pending" => listening'[u]
    <3>1. /\ bench # "connection_c" => /\ queue[u] \in {<<>>, Own(u)}
                                       /\ conn[u] = "pending" => queue[u] = <<>>
          /\ conn[u] = "pending" => listening[u]
      BY DEF DescriptorsInv, QueueInv
    <3>2. Own(u)' = Own(u)
      BY DEF Own
    <3>3. CASE u # w
      BY <1>5, <1>6, <3>1, <3>2, <3>3
    <3>4. CASE u = w
      <4>1. v = "lsn" => conn[w] # "pending"
        BY <1>2 DEF Waiting
      <4> QED
        BY <1>3, <1>6, <1>8, <3>1, <3>2, <3>4, <4>1
    <3> QED
      BY <3>3, <3>4
  <2> QED
    BY <2>1 DEF QueueInv
<1>10. PortInv'
  <2>1. \A u \in Worker : /\ port'[u] = port[u] \/ port'[u] = 0
                          /\ listening'[u] => listening[u] /\ port'[u] = port[u]
    BY <1>3, <1>5
  <2> QED
    BY <1>6, <2>1 DEF DescriptorsInv, PortInv
<1>11. DataInv'
  <2>1. \A u \in Worker : queue'[u] \in Seq(Link)
    BY <1>5, <1>8
  <2>2. queue' \in [Worker -> Seq(Link)]
    BY <1>4, <2>1
  <2> QED
    BY <1>1, <1>3, <1>6, <1>7, <2>2 DEF DescriptorsInv, DataInv
<1>12. \A u \in Worker \ {w} : Holding(u)' = Holding(u)
  BY <1>5, <1>7, HoldingSame
<1>13. Holding(w)' = After(Holding(w), Head(todo[w]))
  <2> DEFINE h == Holding(w) \ With(v)
  <2>1. After(Holding(w), Head(todo[w])) = h
    BY <1>0, <1>1, AfterIs
  <2>2. /\ Holding(w) \in SUBSET Thing
        /\ \A x \in Var : x \in Holding(w) <=> Mine(w, x)
        /\ "bound" \in Holding(w) <=> port[w] # 0
        /\ "listens" \in Holding(w) <=> listening[w]
        /\ "calling" \in Holding(w) <=> Waiting(w)
    BY InHolding
  <2>3. \A x \in Var : x \in With(v) <=> x = v
    BY <1>2 DEF With, Var
  <2>4. /\ "bound" \in With(v) <=> v = "lsn"
        /\ "listens" \in With(v) <=> v = "lsn"
        /\ "calling" \in With(v) <=> v = "conn"
    BY <1>2 DEF With, Var
  <2>5. \A x \in Var : x \in h <=> Mine(w, x)'
    <3>1. ASSUME NEW x \in Var PROVE x \in h <=> Mine(w, x)'
      <4>1. CASE x = v
        BY <1>2, <1>7, <2>3, <4>1
      <4>2. CASE x # v
        BY <1>7, <2>2, <2>3, <4>2
      <4> QED
        BY <4>1, <4>2
    <3> QED
      BY <3>1
  <2>6. "bound" \in h <=> port'[w] # 0
    BY <1>2, <1>3, <2>2, <2>4
  <2>7. "listens" \in h <=> listening'[w]
    BY <1>2, <1>3, <2>2, <2>4
  <2>8. "calling" \in h <=> Waiting(w)'
    <3>1. CASE v = "lsn"
      <4>1. ~Waiting(w)'
        BY <1>2, <1>3, <1>6, <3>1 DEF Waiting
      <4> QED
        BY <1>2, <2>2, <3>1, <4>1
    <3>2. CASE v = "conn"
      <4>1. ~Waiting(w)'
        BY <1>3, <1>6, <1>8, <3>2 DEF Waiting
      <4> QED
        BY <2>4, <3>2, <4>1
    <3>3. CASE v \notin {"lsn", "conn"}
      <4>1. Waiting(w)' = Waiting(w)
        BY <1>3, <1>6, <3>3 DEF Waiting
      <4> QED
        BY <2>2, <2>4, <3>3, <4>1
    <3> QED
      BY <3>1, <3>2, <3>3
  <2>9. h \in SUBSET Thing
    BY <2>2
  <2> HIDE DEF h
  <2>10. Holding(w)' = h
    BY <2>5, <2>6, <2>7, <2>8, <2>9, HoldingNext
  <2> QED
    BY <2>1, <2>10
<1>14. PlaceInv(Calls)' /\ OnceInv' /\ HeldInv'
  BY <1>1, <1>12, <1>13, CallHeld
<1>15. FailuresKnown'
  BY <1>1 DEF FailuresKnown
<1> QED
  BY <1>7, <1>9, <1>10, <1>11, <1>14, <1>15 DEF DescriptorsInv

LEMMA AwaitKeeps ==
  ASSUME DescriptorsInv, NEW w \in Worker, UseOne(w) \/ AwaitOne(w)
  PROVE  DescriptorsInv'
<1>1. /\ todo[w] # <<>> /\ failed = "no" /\ Head(todo[w]).op \in {"use", "await"}
      /\ Done(w) /\ UNCHANGED <<round, choice, files, network, failed>>
  BY DEF UseOne, AwaitOne, Next1
<1> QED
  BY <1>1, UseKeeps

(***************************************************************************)
(* The network.                                                            *)
(***************************************************************************)
LEMMA WorkerCount == IsFiniteSet(Worker) /\ Cardinality(Worker) = N
<1>1. 0 \in Int /\ N - 1 \in Int /\ ~(0 > N - 1) /\ (N - 1) - 0 + 1 = N
  BY WorkerType
<1> QED
  BY <1>1, FS_Interval DEF Worker

\* There is a port for every worker, so the loop over the ports ends.
LEMMA PortLeft ==
  ASSUME NEW w \in Worker
  PROVE  \E p \in 1..N : Granted(w, p)
<1> SUFFICES ASSUME ~\E p \in 1..N : Granted(w, p)
             PROVE  FALSE
  OBVIOUS
<1> DEFINE S == 1..N
           O == Worker \ {w}
           f == [p \in S |-> CHOOSE u \in O : port[u] = p]
<1>1. \A p \in S : \E u \in O : port[u] = p
  BY DEF Granted
<1>2. f \in [S -> O] /\ \A p \in S : port[f[p]] = p
  BY <1>1
<1>3. IsFiniteSet(S) /\ Cardinality(S) = N
  <2>1. 1 \in Int /\ N \in Int /\ ~(1 > N) /\ N - 1 + 1 = N
    BY WorkerType
  <2> QED
    BY <2>1, FS_Interval
<1>4. IsFiniteSet(O) /\ Cardinality(O) = N - 1
  BY WorkerCount, FS_RemoveElement
<1>5. Cardinality(O) < Cardinality(S)
  BY <1>3, <1>4, WorkerType
<1> HIDE DEF S, O, f
<1>6. \E x, y \in S : x # y /\ f[x] = f[y]
  BY <1>2, <1>3, <1>4, <1>5, FS_PigeonHole
<1> QED
  BY <1>2, <1>6

\* The next call of worker w changes the state of its own sockets.
LEMMA SocketKeeps ==
  ASSUME DescriptorsInv, NEW w \in Worker, todo[w] # <<>>, failed = "no", Done(w),
         UNCHANGED <<round, choice, files, failed>>,
         NEW h \in SUBSET Thing, h = After(Holding(w), Head(todo[w])),
         \A x \in Var : x \in h <=> x \in Holding(w),
         "bound" \in h <=> port'[w] # 0, "listens" \in h <=> listening'[w],
         "calling" \in h <=> Waiting(w)',
         \A u \in Worker \ {w} : /\ port'[u] = port[u] /\ listening'[u] = listening[u]
                                 /\ Waiting(u)' = Waiting(u),
         port' \in [Worker -> Nat], listening' \in [Worker -> BOOLEAN],
         queue' \in [Worker -> Seq(Link)],
         conn' \in [Worker -> {"none", "pending", "established"}],
         QueueInv', PortInv'
  PROVE  DescriptorsInv'
<1>1. /\ TableInv' /\ Script' = Script /\ Fds' = Fds /\ bench' = bench
      /\ lm_optT' = lm_optT
      /\ \A u \in Worker, x \in Var : Mine(u, x)' <=> Mine(u, x)
  BY FilesSame, SameChoice DEF DescriptorsInv
<1>2. \A u \in Worker \ {w} : Holding(u)' = Holding(u)
  BY <1>1, HoldingSame
<1>3. Holding(w)' = h
  <2>1. \A x \in Var : x \in h <=> Mine(w, x)'
    BY <1>1, InHolding
  <2> QED
    BY <2>1, HoldingNext
<1>4. PlaceInv(Calls)' /\ OnceInv' /\ HeldInv'
  BY <1>2, <1>3, CallHeld
<1>5. DataInv'
  BY <1>1 DEF DescriptorsInv, DataInv, files
<1>6. FailuresKnown'
  BY DEF FailuresKnown
<1> QED
  BY <1>1, <1>4, <1>5, <1>6 DEF DescriptorsInv

LEMMA BindKeeps ==
  ASSUME DescriptorsInv, NEW w \in Worker, BindPort(w)
  PROVE  DescriptorsInv'
<1>1. /\ failed = "no" /\ todo[w] # <<>> /\ Done(w)
      /\ Head(todo[w]).op \in {"bind", "bindreuse"}
      /\ UNCHANGED <<round, choice, files, failed>>
      /\ UNCHANGED <<choice, listening, queue, conn>>
  BY DEF BindPort, Next1
<1>2. /\ port[w] = 0
      /\ Head(todo[w]).op = "bindreuse" => bench = "close_tcp"
      /\ "bound" \notin Holding(w)
  <2>1. Legal(bench, Holding(w), Head(todo[w]))
    BY <1>1, NextLegal
  <2>2. "bound" \notin Holding(w)
    BY <1>1, <2>1 DEF Legal
  <2>3. Head(todo[w]).op = "bindreuse" => bench = "close_tcp"
    BY <2>1 DEF Legal
  <2> QED
    BY <2>2, <2>3, InHolding
<1>3. DataInv /\ QueueInv /\ PortInv
  BY DEF DescriptorsInv
<1> DEFINE P == {q \in 1..N : Granted(w, q)}
<1>4. PICK p \in 1..N : port' = [port EXCEPT ![w] = p] /\ Granted(w, p)
  <2>1. P \in SUBSET Nat /\ P # {}
    BY PortLeft
  <2>2. port' = [port EXCEPT ![w] = Min(P)]
    BY DEF BindPort
  <2>3. Min(P) \in P
    <3> HIDE DEF P
    <3> QED
      BY <2>1, LeastOfNat
  <2> QED
    BY <2>2, <2>3
<1>5. p \in Nat /\ p # 0
  BY WorkerType
<1>6. /\ port' \in [Worker -> Nat] /\ port'[w] = p
      /\ \A u \in Worker \ {w} : port'[u] = port[u]
  BY <1>3, <1>4, <1>5 DEF DataInv
<1>7. ~listening[w] /\ listening' = listening /\ bench' = bench
  BY <1>1, <1>2, <1>3, <1>5 DEF PortInv, choice, DataInv
<1>8. PortInv'
  <2>1. \A u \in Worker \ {w} : port[u] = p => bench = "close_tcp" /\ ~listening[u]
    BY <1>2, <1>4 DEF Granted
  <2>2. ASSUME NEW u \in Worker, NEW x \in Worker, u # x, port'[u] = port'[x], port'[u] # 0
        PROVE  bench' = "close_tcp" /\ ~(listening'[u] /\ listening'[x])
    <3>1. CASE u = w
      BY <1>6, <1>7, <2>1, <2>2, <3>1
    <3>2. CASE x = w
      BY <1>6, <1>7, <2>1, <2>2, <3>2
    <3>3. CASE u # w /\ x # w
      BY <1>3, <1>6, <1>7, <2>2, <3>3 DEF PortInv
    <3> QED
      BY <3>1, <3>2, <3>3
  <2>3. \A u \in Worker : listening'[u] => port'[u] # 0
    BY <1>3, <1>5, <1>6, <1>7 DEF PortInv
  <2> QED
    BY <2>2, <2>3 DEF PortInv
<1>9. QueueInv'
  BY <1>1, <1>3, <1>7 DEF QueueInv, Own
<1>10. \A u \in Worker : Waiting(u)' = Waiting(u)
  BY <1>1, <1>7 DEF Waiting
<1> DEFINE h == Holding(w) \cup {"bound"}
<1>11. h = After(Holding(w), Head(todo[w])) /\ h \in SUBSET Thing
  BY <1>1, AfterIs, InHolding DEF Thing
<1>12. /\ \A x \in Var : x \in h <=> x \in Holding(w)
       /\ "bound" \in h <=> port'[w] # 0
       /\ "listens" \in h <=> listening'[w]
       /\ "calling" \in h <=> Waiting(w)'
  BY <1>5, <1>6, <1>7, <1>10, InHolding DEF Var
<1>13. \A u \in Worker \ {w} : /\ port'[u] = port[u] /\ listening'[u] = listening[u]
                               /\ Waiting(u)' = Waiting(u)
  BY <1>6, <1>7, <1>10
<1>14. /\ listening' \in [Worker -> BOOLEAN] /\ queue' \in [Worker -> Seq(Link)]
       /\ conn' \in [Worker -> {"none", "pending", "established"}]
  BY <1>1, <1>3 DEF DataInv
<1> HIDE DEF h
<1> QED
  BY <1>1, <1>6, <1>8, <1>9, <1>11, <1>12, <1>13, <1>14, SocketKeeps

LEMMA ListenKeeps ==
  ASSUME DescriptorsInv, NEW w \in Worker, StartListening(w)
  PROVE  DescriptorsInv'
<1>1. /\ failed = "no" /\ todo[w] # <<>> /\ Done(w) /\ Head(todo[w]).op = "listen"
      /\ UNCHANGED <<round, choice, files, failed>>
      /\ UNCHANGED <<choice, port, queue, conn>>
      /\ listening' = [listening EXCEPT ![w] = TRUE] /\ ~Taken(w)
  BY DEF StartListening, Next1
<1>2. port[w] # 0
  <2>1. Legal(bench, Holding(w), Head(todo[w]))
    BY <1>1, NextLegal
  <2>2. "bound" \in Holding(w)
    BY <1>1, <2>1 DEF Legal
  <2> QED
    BY <2>2, InHolding
<1>3. DataInv /\ QueueInv /\ PortInv
  BY DEF DescriptorsInv
<1>4. /\ listening' \in [Worker -> BOOLEAN] /\ listening'[w]
      /\ \A u \in Worker \ {w} : listening'[u] = listening[u]
      /\ bench' = bench
  BY <1>1, <1>3 DEF DataInv, choice
<1>5. PortInv'
  <2>1. \A u \in Worker \ {w} : port[u] = port[w] => ~listening[u]
    BY <1>1 DEF Taken
  <2>2. ASSUME NEW u \in Worker, NEW x \in Worker, u # x, port[u] = port[x], port[u] # 0
        PROVE  bench = "close_tcp" /\ ~(listening'[u] /\ listening'[x])
    <3>1. bench = "close_tcp" /\ ~(listening[u] /\ listening[x])
      BY <1>3, <2>2 DEF PortInv
    <3> QED
      BY <1>4, <2>1, <2>2, <3>1
  <2>3. \A u \in Worker : listening'[u] => port[u] # 0
    BY <1>2, <1>3, <1>4 DEF PortInv
  <2> QED
    BY <1>1, <1>4, <2>2, <2>3 DEF PortInv
<1>6. QueueInv'
  BY <1>1, <1>3, <1>4 DEF QueueInv, Own
<1>7. \A u \in Worker : Waiting(u)' = Waiting(u)
  BY <1>1, <1>4 DEF Waiting
<1> DEFINE h == Holding(w) \cup {"listens"}
<1>8. h = After(Holding(w), Head(todo[w])) /\ h \in SUBSET Thing
  BY <1>1, AfterIs, InHolding DEF Thing
<1>9. /\ \A x \in Var : x \in h <=> x \in Holding(w)
      /\ "bound" \in h <=> port'[w] # 0
      /\ "listens" \in h <=> listening'[w]
      /\ "calling" \in h <=> Waiting(w)'
  BY <1>1, <1>2, <1>4, <1>7, InHolding DEF Var
<1>10. \A u \in Worker \ {w} : /\ port'[u] = port[u] /\ listening'[u] = listening[u]
                               /\ Waiting(u)' = Waiting(u)
  BY <1>1, <1>4, <1>7
<1>11. /\ port' \in [Worker -> Nat] /\ queue' \in [Worker -> Seq(Link)]
       /\ conn' \in [Worker -> {"none", "pending", "established"}]
  BY <1>1, <1>3 DEF DataInv
<1> HIDE DEF h
<1> QED
  BY <1>1, <1>4, <1>5, <1>6, <1>8, <1>9, <1>10, <1>11, SocketKeeps

LEMMA ConnectKeeps ==
  ASSUME DescriptorsInv, NEW w \in Worker, StartConnect(w)
  PROVE  DescriptorsInv'
<1>1. /\ failed = "no" /\ todo[w] # <<>> /\ Done(w) /\ Head(todo[w]).op \in Calling
      /\ UNCHANGED <<round, choice, files, failed>>
      /\ UNCHANGED <<choice, port, listening, queue>>
      /\ conn' = [conn EXCEPT ![w] = "pending"]
  BY DEF StartConnect, Next1, Calling
<1>2. listening[w] /\ ~Waiting(w) /\ "calling" \notin Holding(w)
  <2>1. Legal(bench, Holding(w), Head(todo[w]))
    BY <1>1, NextLegal
  <2>2. "listens" \in Holding(w) /\ "calling" \notin Holding(w)
    BY <1>1, <2>1 DEF Legal
  <2> QED
    BY <2>2, InHolding
<1>3. DataInv /\ QueueInv /\ PortInv
  BY DEF DescriptorsInv
<1>4. /\ conn' \in [Worker -> {"none", "pending", "established"}] /\ conn'[w] = "pending"
      /\ \A u \in Worker \ {w} : conn'[u] = conn[u]
      /\ bench' = bench
  BY <1>1, <1>3 DEF DataInv, choice
<1>5. PortInv'
  BY <1>1, <1>3, <1>4 DEF PortInv
<1>6. QueueInv'
  <2>1. bench # "connection_c" => queue[w] = <<>>
    BY <1>2 DEF Waiting
  <2> QED
    BY <1>1, <1>2, <1>3, <1>4, <2>1 DEF QueueInv, Own
<1>7. Waiting(w)' /\ \A u \in Worker \ {w} : Waiting(u)' = Waiting(u)
  BY <1>1, <1>4 DEF Waiting
<1> DEFINE h == Holding(w) \cup {"calling"}
<1>8. h = After(Holding(w), Head(todo[w])) /\ h \in SUBSET Thing
  BY <1>1, AfterIs, InHolding DEF Thing
<1>9. /\ \A x \in Var : x \in h <=> x \in Holding(w)
      /\ "bound" \in h <=> port'[w] # 0
      /\ "listens" \in h <=> listening'[w]
      /\ "calling" \in h <=> Waiting(w)'
  BY <1>1, <1>7, InHolding DEF Var
<1>10. \A u \in Worker \ {w} : /\ port'[u] = port[u] /\ listening'[u] = listening[u]
                               /\ Waiting(u)' = Waiting(u)
  BY <1>1, <1>7
<1>11. /\ port' \in [Worker -> Nat] /\ queue' \in [Worker -> Seq(Link)]
       /\ listening' \in [Worker -> BOOLEAN]
  BY <1>1, <1>3 DEF DataInv
<1> HIDE DEF h
<1> QED
  BY <1>1, <1>4, <1>5, <1>6, <1>8, <1>9, <1>10, <1>11, SocketKeeps

\* A queue that holds the worker's own connection, or that gets it.
LEMMA OwnQueue ==
  ASSUME NEW w \in Worker
  PROVE  /\ Own(w) \in Seq(Link) /\ Own(w) # <<>> /\ Tail(Own(w)) = <<>>
         /\ Head(Own(w)) = [from |-> w, live |-> TRUE]
         /\ Append(<<>>, [from |-> w, live |-> TRUE]) = Own(w)
<1> DEFINE e == [from |-> w, live |-> TRUE]
<1>1. e \in Link
  BY DEF Link
<1> HIDE DEF e
<1>2. /\ <<e>> \in Seq(Link) /\ <<e>> # <<>> /\ Tail(<<e>>) = <<>> /\ Head(<<e>>) = e
      /\ Append(<<>>, e) = <<e>>
  BY <1>1
<1> QED
  BY <1>2 DEF Own, e

LEMMA HandshakeKeeps ==
  ASSUME DescriptorsInv, NEW w \in Worker, Handshake(w)
  PROVE  DescriptorsInv'
<1>1. PICK u \in Worker :
        /\ listening[u] /\ port[u] = port[w]
        /\ queue' = [queue EXCEPT ![u] = Append(@, [from |-> w, live |-> TRUE])]
  BY DEF Handshake, PortOf
<1>2. /\ conn[w] = "pending" /\ conn' = [conn EXCEPT ![w] = "established"]
      /\ UNCHANGED <<round, choice, place>> /\ UNCHANGED <<choice, files>>
      /\ UNCHANGED <<choice, port, listening, failed>>
  BY DEF Handshake
<1>3. DataInv /\ QueueInv /\ PortInv
  BY DEF DescriptorsInv
<1>4. u = w
  <2>1. listening[w] /\ port[w] # 0
    BY <1>2, <1>3 DEF QueueInv, PortInv
  <2> QED
    BY <1>1, <1>3, <2>1 DEF PortInv
<1>5. queue[w] \in Seq(Link) /\ [from |-> w, live |-> TRUE] \in Link
  BY <1>3 DEF DataInv, Link
<1> DEFINE q == Append(queue[w], [from |-> w, live |-> TRUE])
<1>6. q \in Seq(Link)
  BY <1>5, AppendProperties
<1>7. bench # "connection_c" => q = Own(w)
  BY <1>2, <1>3, OwnQueue DEF QueueInv
<1>8. queue' = [queue EXCEPT ![w] = q]
  BY <1>1, <1>4
<1> HIDE DEF q
<1>9. /\ queue' \in [Worker -> Seq(Link)] /\ queue'[w] = q
      /\ \A x \in Worker \ {w} : queue'[x] = queue[x]
      /\ conn' \in [Worker -> {"none", "pending", "established"}]
      /\ conn'[w] = "established"
      /\ \A x \in Worker \ {w} : conn'[x] = conn[x]
  BY <1>2, <1>3, <1>6, <1>8 DEF DataInv
<1>10. /\ Fds' = Fds /\ Script' = Script /\ bench' = bench /\ lm_optT' = lm_optT
       /\ TableInv' /\ \A x \in Worker, v \in Var : Mine(x, v)' <=> Mine(x, v)
  BY <1>2, SameChoice, FilesSame DEF DescriptorsInv
<1>11. QueueInv'
  BY <1>2, <1>3, <1>7, <1>9, <1>10 DEF QueueInv, Own
<1>12. PortInv'
  BY <1>2, <1>3, <1>10 DEF PortInv
<1>13. \A x \in Worker : Waiting(x)' = Waiting(x)
  <2>1. Waiting(w) /\ Waiting(w)'
    BY <1>2, <1>7, <1>9, <1>10, OwnQueue DEF Waiting
  <2> QED
    BY <1>9, <1>10, <2>1 DEF Waiting
<1>14. \A x \in Worker : Holding(x)' = Holding(x)
  BY <1>2, <1>10, <1>13, HoldingSame
<1>15. PlaceInv(Calls)' /\ OnceInv' /\ HeldInv'
  BY <1>2, <1>14, StillHeld
<1>16. DataInv'
  BY <1>2, <1>3, <1>9, <1>10 DEF DataInv, files
<1>17. FailuresKnown'
  BY <1>2 DEF FailuresKnown, Handshake
<1> QED
  BY <1>10, <1>11, <1>12, <1>15, <1>16, <1>17 DEF DescriptorsInv

\* A worker that accepts takes the connection that it made itself.
LEMMA AcceptTakes ==
  ASSUME DescriptorsInv, NEW w \in Worker, AcceptOne(w)
  PROVE  /\ queue[w] = Own(w) /\ conn[w] # "pending" /\ bench # "connection_c"
         /\ Head(todo[w]).var = "acc" /\ "acc" \in Needs(bench) /\ ~Mine(w, "acc")
<1>1. failed = "no" /\ todo[w] # <<>> /\ Head(todo[w]).op = "accept" /\ queue[w] # <<>>
  BY DEF AcceptOne, Next1
<1>2. Legal(bench, Holding(w), Head(todo[w]))
  BY <1>1, NextLegal
<1>3. /\ Head(todo[w]).var = "acc" /\ bench # "connection_c"
      /\ "acc" \in Needs(bench) \ Holding(w)
  BY <1>1, <1>2 DEF Legal, Opening
<1>4. ~Mine(w, "acc")
  BY <1>3, InHolding DEF Var
<1> QED
  BY <1>1, <1>3, <1>4 DEF DescriptorsInv, QueueInv

LEMMA AcceptKeeps ==
  ASSUME DescriptorsInv, NEW w \in Worker, AcceptOne(w)
  PROVE  DescriptorsInv'
<1> DEFINE f == Lowest(Proc(w))
<1>1. /\ failed = "no" /\ todo[w] # <<>> /\ Done(w) /\ Head(todo[w]).op = "accept"
      /\ Room(w, 1)
      /\ queue' = [queue EXCEPT ![w] = Tail(@)]
      /\ table' = [table EXCEPT ![Proc(w)][f] = Opener(w, "acc")]
      /\ slot' = [slot EXCEPT ![w]["acc"] = f]
      /\ UNCHANGED <<round, choice>>
      /\ UNCHANGED <<choice, port, listening, conn, failed>>
  BY DEF AcceptOne, Next1
<1>2. /\ queue[w] = Own(w) /\ conn[w] # "pending" /\ bench # "connection_c"
      /\ Head(todo[w]).var = "acc" /\ "acc" \in Needs(bench) /\ ~Mine(w, "acc")
  BY AcceptTakes
<1>3. DataInv /\ TableInv /\ QueueInv /\ PortInv
  BY DEF DescriptorsInv
<1>4. f \in Fds /\ table[Proc(w)][f] = Free /\ Proc(w) \in Worker
  BY <1>1, <1>3, LowestFree, ThreadsType DEF DataInv
<1>5. Opener(w, "acc") \in Owner /\ "acc" \in Var
  BY DEF Opener, Owner, Var
<1> HIDE DEF f
<1>6. Takes(w, "acc", f)
  BY <1>1, <1>3, <1>4, <1>5 DEF DataInv, Takes
<1>7. /\ slot' \in [Worker -> [Var -> Nat]] /\ TableInv' /\ Mine(w, "acc")'
      /\ \A u \in Worker, x \in Var : u # w \/ x # "acc" => (Mine(u, x)' <=> Mine(u, x))
  BY <1>1, <1>2, <1>3, <1>4, <1>6, Opened
<1>8. bench' = bench /\ lm_optT' = lm_optT /\ Fds' = Fds
  BY <1>1, SameChoice
<1>9. /\ queue' \in [Worker -> Seq(Link)] /\ queue'[w] = <<>>
      /\ \A u \in Worker \ {w} : queue'[u] = queue[u]
  <2>1. queue' = [queue EXCEPT ![w] = <<>>]
    BY <1>1, <1>2, <1>3, OwnQueue DEF DataInv
  <2>2. <<>> \in Seq(Link)
    BY EmptySeq
  <2> QED
    BY <1>3, <2>1, <2>2 DEF DataInv
<1>10. QueueInv'
  BY <1>1, <1>3, <1>8, <1>9 DEF QueueInv, Own
<1>11. PortInv'
  BY <1>1, <1>3, <1>8 DEF PortInv
<1>12. ~Waiting(w)' /\ \A u \in Worker \ {w} : Waiting(u)' = Waiting(u)
  BY <1>1, <1>2, <1>8, <1>9 DEF Waiting
<1>13. \A u \in Worker \ {w} : Holding(u)' = Holding(u)
  BY <1>1, <1>7, <1>12, HoldingSame
<1>14. Holding(w)' = After(Holding(w), Head(todo[w]))
  <2> DEFINE h == (Holding(w) \cup {"acc"}) \ {"calling"}
  <2>1. After(Holding(w), Head(todo[w])) = h
    BY <1>1, <1>2, AfterIs
  <2>2. h \in SUBSET Thing
    BY InHolding DEF Thing, Var
  <2>3. \A x \in Var : x \in h <=> Mine(w, x)'
    BY <1>7, InHolding DEF Var
  <2>4. /\ "bound" \in h <=> port'[w] # 0
        /\ "listens" \in h <=> listening'[w]
        /\ "calling" \in h <=> Waiting(w)'
    BY <1>1, <1>12, InHolding
  <2> HIDE DEF h
  <2>5. Holding(w)' = h
    BY <2>2, <2>3, <2>4, HoldingNext
  <2> QED
    BY <2>1, <2>5
<1>15. PlaceInv(Calls)' /\ OnceInv' /\ HeldInv'
  BY <1>1, <1>13, <1>14, CallHeld
<1>16. DataInv'
  <2>1. table' \in [Worker -> [Fds -> Owner]]
    BY <1>6 DEF Takes
  <2> QED
    BY <1>1, <1>3, <1>7, <1>8, <1>9, <2>1 DEF DataInv
<1>17. FailuresKnown'
  BY <1>1 DEF FailuresKnown
<1> QED
  BY <1>7, <1>10, <1>11, <1>15, <1>16, <1>17 DEF DescriptorsInv

\* A refused connection is closed and tried once more.
LEMMA RefusedKeeps ==
  ASSUME DescriptorsInv, NEW w \in Worker, Refused(w)
  PROVE  DescriptorsInv'
<1> DEFINE t == Tail(todo[w])
           s == <<Close("conn"), Open("conn"), Reconnect>>
           h == Holding(w)
           g == h \ {"conn"}
           e == h \cup {"calling"}
<1>1. /\ failed = "no" /\ todo[w] # <<>> /\ Head(todo[w]).op = "connect"
      /\ todo' = [todo EXCEPT ![w] = s \o t]
      /\ UNCHANGED <<choice, files>> /\ UNCHANGED <<choice, network>>
      /\ UNCHANGED <<round, cb, once, failed>>
  BY DEF Refused, Next1
<1>2. PlaceInv(Calls) /\ DataInv
  BY DEF DescriptorsInv
<1>3. t \in Seq(Calls) /\ Legal(bench, h, Head(todo[w]))
      /\ Runs(bench, t, After(h, Head(todo[w])), AtEnd(bench, cb[w]))
  BY <1>1, NextLegal, HeadTailProperties
<1>4. /\ bench = "close_tcp" /\ "conn" \in h /\ "listens" \in h /\ "calling" \notin h
      /\ h \in SUBSET Thing /\ After(h, Head(todo[w])) = e
  <2>1. bench = "close_tcp" /\ "conn" \in h /\ "listens" \in h /\ "calling" \notin h
    BY <1>1, <1>3 DEF Legal, Calling
  <2> QED
    BY <1>1, <2>1, AfterIs, InHolding DEF Calling
<1> HIDE DEF h, t
<1>5. Runs(bench, s, h, e) /\ s \in Seq(Calls)
  <2>1. Close("conn") \in Calls /\ Open("conn") \in Calls /\ Reconnect \in Calls
    BY DEF Calls, Var, Close, Open, Reconnect
  <2>2. Legal(bench, h, Close("conn")) /\ After(h, Close("conn")) = g
    BY <1>4 DEF Legal, After, Opening, Calling, With, Var, Close
  <2>3. Legal(bench, g, Open("conn")) /\ After(g, Open("conn")) = h
    BY <1>4 DEF Legal, After, Opening, Calling, Needs, TcpNames, Var, Open
  <2>4. Legal(bench, h, Reconnect) /\ After(h, Reconnect) = e
    BY <1>4 DEF Legal, After, Opening, Calling, Var, Reconnect
  <2> HIDE DEF g, e
  <2> QED
    BY <1>4, <2>1, <2>2, <2>3, <2>4, RunsThree
<1> HIDE DEF s, g, e
<1>6. Runs(bench, s \o t, h, AtEnd(bench, cb[w])) /\ s \o t \in Seq(Calls)
  BY <1>3, <1>4, <1>5, RunsConcat, ConcatProperties
<1>7. /\ todo' \in [Worker -> Seq(Calls)] /\ todo'[w] = s \o t
      /\ \A u \in Worker \ {w} : todo'[u] = todo[u]
  BY <1>1, <1>2, <1>6 DEF PlaceInv
<1>8. PlaceInv(Calls)'
  <2>1. R!LockstepInv'
    BY <1>1, <1>2, RoundSame DEF PlaceInv
  <2> QED
    BY <1>1, <1>2, <1>7, <2>1 DEF PlaceInv, Fits, round
<1>9. /\ TableInv' /\ QueueInv' /\ PortInv' /\ bench' = bench /\ lm_optT' = lm_optT
      /\ Fds' = Fds /\ Script' = Script
  BY <1>1, FilesSame, NetworkSame, SameChoice DEF DescriptorsInv
<1>10. \A u \in Worker : Holding(u)' = Holding(u)
  BY <1>1, FilesSame, NetworkSame, HoldingSame
<1>11. HeldInv'
  <2>1. ASSUME NEW u \in Worker
        PROVE  Runs(bench', todo'[u], Holding(u)', AtEnd(bench', cb'[u]))
    <3>1. CASE u = w
      BY <1>1, <1>6, <1>7, <1>9, <1>10, <3>1 DEF h
    <3>2. CASE u # w
      BY <1>1, <1>7, <1>9, <1>10, <3>2 DEF HeldInv, DescriptorsInv
    <3> QED
      BY <3>1, <3>2
  <2> QED
    BY <2>1 DEF HeldInv
<1>12. OnceInv'
  BY <1>1 DEF OnceInv, DescriptorsInv
<1>13. DataInv'
  BY <1>1, <1>2, <1>9 DEF DataInv, files, network
<1>14. FailuresKnown'
  BY <1>1 DEF FailuresKnown
<1> QED
  BY <1>8, <1>9, <1>11, <1>12, <1>13, <1>14 DEF DescriptorsInv

(***************************************************************************)
(* The failures.                                                           *)
(***************************************************************************)
LEMMA NeedsCount ==
  /\ IsFiniteSet(Needs(bench))
  /\ Cardinality(Needs(bench)) = IF bench \in TcpNames THEN 3
                                 ELSE IF Needs(bench) = {} THEN 0 ELSE 1
<1>1. IsFiniteSet({"lsn", "conn", "acc"}) /\ Cardinality({"lsn", "conn", "acc"}) = 3
  <2>1. IsFiniteSet({"lsn"}) /\ Cardinality({"lsn"}) = 1
    BY FS_Singleton
  <2>2. /\ IsFiniteSet({"lsn"} \cup {"conn"}) /\ Cardinality({"lsn"} \cup {"conn"}) = 1 + 1
    BY <2>1, FS_AddElement
  <2>3. /\ IsFiniteSet(({"lsn"} \cup {"conn"}) \cup {"acc"})
        /\ Cardinality(({"lsn"} \cup {"conn"}) \cup {"acc"}) = 1 + 1 + 1
    BY <2>2, FS_AddElement
  <2>4. ({"lsn"} \cup {"conn"}) \cup {"acc"} = {"lsn", "conn", "acc"}
    OBVIOUS
  <2> QED
    BY <2>3, <2>4
<1>2. CASE bench \in TcpNames
  BY <1>1, <1>2 DEF Needs
<1>3. CASE bench \notin TcpNames
  <2>1. Needs(bench) \in {{"lsn"}, {}, {"fd"}}
    BY <1>3 DEF Needs
  <2> QED
    BY <1>3, <2>1, FS_Singleton, FS_EmptySet
<1> QED
  BY <1>2, <1>3

\* A process whose descriptors are all taken has one for every variable but one
\* of its threads, and those it started with.
LEMMA TableFull ==
  ASSUME DataInv, TableInv, bench # "socketpair",
         NEW w \in Worker, NEW v \in Needs(bench), ~Mine(w, v), ~Room(w, 1)
  PROVE  FdLimit <= 2 + Script.shared + lm_optT * Cardinality(Needs(bench))
<1> DEFINE p == Proc(w)
           P == {u \in Worker : Proc(u) = p}
           Q == (P \X Needs(bench)) \ {<<w, v>>}
           I == {slot[q[1]][q[2]] : q \in Q}
           F == 0..(2 + Script.shared)
<1>1. /\ IsFiniteSet(Fds) /\ Cardinality(Fds) = FdLimit /\ FdLimit \in Nat
      /\ Script.shared \in 0..3 /\ Fds \subseteq Nat
  BY FdsType DEF DataInv
<1>2. p \in Worker /\ w \in P
  BY ThreadsType DEF DataInv
<1>3. Free1(p) = {}
  <2>1. IsFiniteSet(Free1(p)) /\ Cardinality(Free1(p)) \in Nat
    <3>1. Free1(p) \in SUBSET Fds
      BY DEF Free1
    <3> QED
      BY <1>1, <3>1, FS_Subset, FS_CardinalityType
  <2>2. Cardinality(Free1(p)) = 0
    BY <2>1 DEF Room
  <2> QED
    BY <2>1, <2>2, FS_EmptySet
<1>4. IsFiniteSet(P) /\ Cardinality(P) = lm_optT
  BY MateCount DEF DataInv
<1>5. lm_optT \in Nat /\ Cardinality(Needs(bench)) \in {0, 1, 3} /\ IsFiniteSet(Needs(bench))
  BY ThreadsType, NeedsCount DEF DataInv
<1>6. IsFiniteSet(Q) /\ Cardinality(Q) = lm_optT * Cardinality(Needs(bench)) - 1
  <2>1. IsFiniteSet(P \X Needs(bench))
        /\ Cardinality(P \X Needs(bench)) = lm_optT * Cardinality(Needs(bench))
    <3> HIDE DEF P
    <3> QED
      BY <1>4, <1>5, FS_Product
  <2>2. <<w, v>> \in P \X Needs(bench)
    BY <1>2
  <2> HIDE DEF P
  <2> QED
    BY <2>1, <2>2, FS_RemoveElement
<1>7. IsFiniteSet(I) /\ Cardinality(I) <= Cardinality(Q)
  <2> DEFINE m == [q \in Q |-> slot[q[1]][q[2]]]
  <2>1. m \in Surjection(Q, I)
    <3>1. m \in [Q -> I] /\ \A i \in I : \E q \in Q : m[q] = i
      OBVIOUS
    <3> QED
      BY <3>1, Fun_IsSurj
  <2> HIDE DEF Q, I, m
  <2> QED
    BY <1>6, <2>1, FS_Surjection
<1>8. IsFiniteSet(F) /\ Cardinality(F) = 3 + Script.shared
  <2> DEFINE s == Script.shared
  <2>1. s \in 0..3
    BY <1>1
  <2> HIDE DEF s
  <2>2. 0 \in Int /\ 2 + s \in Int /\ ~(0 > 2 + s) /\ (2 + s) - 0 + 1 = 3 + s
    BY <2>1
  <2>3. IsFiniteSet(0..(2 + s)) /\ Cardinality(0..(2 + s)) = 3 + s
    BY <2>2, FS_Interval
  <2> QED
    BY <2>3 DEF s
<1>9. Fds \in SUBSET (F \cup I)
  <2>1. ASSUME NEW f \in Fds, f \notin F
        PROVE  f \in I
    <3>1. table[p][f] # Free /\ Accounted(p, f)
      BY <1>2, <1>3 DEF Free1, TableInv
    <3>2. f \in Nat /\ ~(f <= 2) /\ ~(f <= 2 + Script.shared)
      BY <1>1, <2>1
    <3>3. PICK u \in Worker, x \in Needs(bench) :
            table[p][f] = Opener(u, x) /\ Proc(u) = p /\ slot[u][x] = f
      BY <3>1, <3>2 DEF Accounted
    <3>4. u # w \/ x # v
      <4>1. SUFFICES ASSUME u = w, x = v PROVE FALSE
        OBVIOUS
      <4>2. Fd(w, v) = f
        BY <3>3, <4>1 DEF Fd, Needs
      <4> QED
        BY <3>3, <4>1, <4>2 DEF Mine
    <3>5. <<u, x>> \in Q
      BY <3>3, <3>4
    <3>6. slot[u][x] = slot[<<u, x>>[1]][<<u, x>>[2]]
      OBVIOUS
    <3> HIDE DEF Q
    <3> QED
      BY <3>3, <3>5, <3>6
  <2> QED
    BY <2>1
<1>10. /\ IsFiniteSet(F \cup I) /\ Cardinality(F \cup I) <= Cardinality(F) + Cardinality(I)
       /\ Cardinality(F \cup I) \in Nat /\ Cardinality(I) \in Nat
  <2> HIDE DEF F, I
  <2>1. /\ IsFiniteSet(F \cup I)
        /\ Cardinality(F \cup I) = Cardinality(F) + Cardinality(I) - Cardinality(F \cap I)
    BY <1>7, <1>8, FS_Union
  <2>2. /\ Cardinality(F) \in Nat /\ Cardinality(I) \in Nat
        /\ Cardinality(F \cap I) \in Nat /\ Cardinality(F \cup I) \in Nat
    BY <1>7, <1>8, <2>1, FS_Intersection, FS_CardinalityType
  <2> QED
    BY <2>1, <2>2
<1>11. FdLimit <= Cardinality(F \cup I)
  <2> HIDE DEF F, I
  <2> QED
    BY <1>1, <1>9, <1>10, FS_Subset
<1> DEFINE k == lm_optT * Cardinality(Needs(bench))
<1>12. k \in Nat
  BY <1>5
<1> HIDE DEF F, I, Q, k
<1>13. Cardinality(Q) = k - 1
  BY <1>6 DEF k
<1>14. FdLimit <= 2 + Script.shared + k
  BY <1>1, <1>7, <1>8, <1>10, <1>11, <1>12, <1>13
<1> QED
  BY <1>14 DEF k

LEMMA LimitsSuffice ==
  ASSUME DescriptorsInv, NEW w \in Worker, OpenFails(w)
  PROVE  bench = "socketpair" \/ (Script.limit = 0 /\ 3 + lm_optT > InitLimit)
<1> SUFFICES ASSUME bench # "socketpair"
             PROVE  Script.limit = 0 /\ 3 + lm_optT > InitLimit
  OBVIOUS
<1>1. /\ todo[w] # <<>> /\ Head(todo[w]).op \in Opening
      /\ Head(todo[w]).op = "pair" \/ ~Room(w, 1)
  BY DEF OpenFails, Next1, Opening
<1>2. Legal(bench, Holding(w), Head(todo[w]))
  BY <1>1, NextLegal
<1>3. /\ Head(todo[w]).var \in Needs(bench) \ Holding(w) /\ ~Room(w, 1)
  BY <1>1, <1>2 DEF Legal
<1>4. PICK v \in Needs(bench) : ~Mine(w, v)
  BY <1>3, InHolding DEF Needs, Var
<1>5. DataInv /\ TableInv
  BY DEF DescriptorsInv
<1>6. FdLimit <= 2 + Script.shared + lm_optT * Cardinality(Needs(bench))
  BY <1>3, <1>4, <1>5, TableFull
<1>7. /\ lm_optT \in Nat /\ FdLimit \in Nat /\ FdLimit >= Script.limit /\ InitLimit \in Nat
      /\ Script.limit = 0 => FdLimit = InitLimit
  BY <1>5, ThreadsType, FdsType, DescriptorsAssumption DEF DataInv
<1>8. CASE bench \in TcpNames
  <2>1. Script.limit = 3 * lm_optT + 10 /\ Script.shared = 0 /\ Cardinality(Needs(bench)) = 3
    BY <1>5, <1>8, LimitsOf, NeedsCount DEF DataInv, TcpNames, SharedNames
  <2> QED
    BY <1>6, <1>7, <2>1
<1>9. CASE bench \notin TcpNames
  <2>1. Cardinality(Needs(bench)) = 1 /\ bench # "close_b"
        /\ bench \notin SharedNames \ {"dup"}
    <3>1. Needs(bench) # {}
      BY <1>4
    <3>2. bench # "close_b" /\ bench \notin SharedNames \ {"dup"}
      BY <1>9, <3>1 DEF Needs, SharedNames
    <3> QED
      BY <1>9, <3>1, <3>2, NeedsCount
  <2>2. FdLimit <= 2 + Script.shared + lm_optT
    BY <1>6, <1>7, <2>1
  <2>3. CASE bench \in {"open", "close", "close_b", "dup", "socket", "socketpair", "bind"}
    <3>1. Script.limit = lm_optT + 10 /\ Script.shared \in 0..3
      BY <1>5, <1>9, <2>3, LimitsOf, FdsType DEF DataInv
    <3> QED
      BY <1>7, <2>2, <3>1
  <2>4. CASE bench \notin {"open", "close", "close_b", "dup", "socket", "socketpair",
               "bind"}
    <3>1. Script.limit = 0 /\ Script.shared = 0
      BY <1>5, <1>9, <2>1, <2>4, LimitsOf DEF DataInv, SharedNames
    <3> QED
      BY <1>7, <2>2, <3>1
  <2> QED
    BY <2>3, <2>4
<1> QED
  BY <1>8, <1>9

\* A check fails: nothing changes but the verdict.
LEMMA FailKeeps ==
  ASSUME DescriptorsInv, UNCHANGED <<round, choice, place, files, network>>,
         failed' \in Reason, FailuresKnown'
  PROVE  DescriptorsInv'
<1>1. UNCHANGED <<files, choice>> /\ UNCHANGED <<network, choice>>
      /\ UNCHANGED <<round, choice, place>>
  OBVIOUS
<1>2. TableInv' /\ QueueInv' /\ PortInv'
  BY <1>1, FilesSame, NetworkSame DEF DescriptorsInv
<1>3. \A u \in Worker : Holding(u)' = Holding(u)
  BY <1>1, FilesSame, NetworkSame, HoldingSame
<1>4. PlaceInv(Calls)' /\ OnceInv' /\ HeldInv'
  BY <1>1, <1>3, StillHeld
<1>5. DataInv'
  BY <1>1, SameChoice DEF DescriptorsInv, DataInv, files, network
<1> QED
  BY <1>2, <1>4, <1>5 DEF DescriptorsInv

LEMMA FailsKeeps ==
  ASSUME DescriptorsInv, NEW w \in Worker,
         OpenFails(w) \/ ListenFails(w) \/ RefusedAgain(w)
  PROVE  DescriptorsInv'
<1>1. UNCHANGED <<round, choice, place, files, network>>
  BY DEF OpenFails, ListenFails, RefusedAgain, Fails
<1>2. /\ bench' = bench /\ port' = port /\ listening' = listening /\ Script' = Script
      /\ lm_optT' = lm_optT
  BY <1>1, SameChoice DEF network
<1>3. CASE OpenFails(w)
  <2>1. failed' = "emfile"
    BY <1>3 DEF OpenFails, Fails
  <2>2. bench' = "socketpair" \/ (Script.limit = 0 /\ 3 + lm_optT > InitLimit)'
    BY <1>2, <1>3, LimitsSuffice
  <2>3. FailuresKnown' /\ failed' \in Reason
    BY <2>1, <2>2 DEF FailuresKnown, Reason
  <2> QED
    BY <1>1, <2>3, FailKeeps
<1>4. CASE ListenFails(w)
  <2>1. failed' = "listen" /\ todo[w] # <<>> /\ Head(todo[w]).op = "listen"
    BY <1>4 DEF ListenFails, Fails, Next1
  <2>2. PICK u \in Worker \ {w} : port[u] = port[w] /\ listening[u]
    BY <1>4 DEF ListenFails, Taken
  <2>3. Legal(bench, Holding(w), Head(todo[w]))
    BY <2>1, NextLegal
  <2>4. "bound" \in Holding(w)
    BY <2>1, <2>3 DEF Legal
  <2>5. port[w] # 0
    BY <2>4, InHolding
  <2>6. bench = "close_tcp"
    BY <2>2, <2>5 DEF DescriptorsInv, PortInv
  <2>7. FailuresKnown' /\ failed' \in Reason
    BY <1>2, <2>1, <2>2, <2>6 DEF FailuresKnown, Reason
  <2> QED
    BY <1>1, <2>7, FailKeeps
<1>5. CASE RefusedAgain(w)
  <2>1. failed' = "refused" /\ todo[w] # <<>> /\ Head(todo[w]).op = "reconnect"
    BY <1>5 DEF RefusedAgain, Fails, Next1
  <2>2. Legal(bench, Holding(w), Head(todo[w]))
    BY <2>1, NextLegal
  <2>3. bench = "close_tcp"
    BY <2>1, <2>2 DEF Legal
  <2>4. FailuresKnown' /\ failed' \in Reason
    BY <1>2, <2>1, <2>3 DEF FailuresKnown, Reason
  <2> QED
    BY <1>1, <2>4, FailKeeps
<1> QED
  BY <1>3, <1>4, <1>5

(***************************************************************************)
(* The harness between the calls.                                          *)
(***************************************************************************)
LEMMA IdleHas ==
  ASSUME DescriptorsInv, NEW w \in Worker, todo[w] = <<>>
  PROVE  Holding(w) = AtEnd(bench, cb[w])
<1>1. Runs(bench, <<>>, Holding(w), AtEnd(bench, cb[w]))
  BY DEF DescriptorsInv, HeldInv
<1>2. Holding(w) \in SUBSET Thing
  BY InHolding
<1> QED
  BY <1>1, <1>2, RunsNone

\* The callback that a worker enters starts from what the one before it left.
LEMMA Entered ==
  ASSUME DescriptorsInv, NEW w \in Worker, LoopTest(w, Script) \/ Return(w, Script)
  PROVE  /\ Runs(bench, todo'[w], Holding(w), AtEnd(bench, cb'[w]))
         /\ cb'[w] \in {"pre", "bench", "post", "fini", "done"}
         /\ cb'[w] \in {"pre", "bench", "post"} => once'[w]
         /\ once' \in [Worker -> BOOLEAN]
         /\ \A u \in Worker \ {w} : /\ todo'[u] = todo[u] /\ cb'[u] = cb[u]
                                    /\ once'[u] = once[u]
<1>1. PlaceInv(Calls) /\ OnceInv /\ bench \in Names
  BY DEF DescriptorsInv, DataInv
<1>2. WellRun(bench, Script)
  BY <1>1, ScriptRuns
<1>3. todo[w] = <<>> /\ Holding(w) = AtEnd(bench, cb[w])
  BY IdleHas DEF LoopTest, Return, Idle
<1>4. \A u \in Worker \ {w} : todo'[u] = todo[u] /\ cb'[u] = cb[u]
  BY <1>1, OthersStay
<1>5. CASE LoopTest(w, Script) /\ go
  <2>1. /\ cb[w] \in {"worker", "post"} /\ cb'[w] = "pre"
        /\ todo'[w] = PreOps(w, Script) /\ once' = [once EXCEPT ![w] = TRUE]
    BY <1>1, <1>5 DEF LoopTest, Enter, PlaceInv
  <2>2. /\ once' \in [Worker -> BOOLEAN] /\ once'[w]
        /\ \A u \in Worker \ {w} : once'[u] = once[u]
    BY <1>1, <2>1 DEF PlaceInv
  <2>3. CASE cb[w] = "worker"
    <3>1. todo'[w] = Script.first \o Script.pre
      BY <1>1, <2>1, <2>3 DEF OnceInv, PreOps
    <3>2. /\ Runs(bench, Script.first, AtEnd(bench, "worker"), AtEnd(bench, "post"))
          /\ Runs(bench, Script.pre, AtEnd(bench, "post"), AtEnd(bench, "pre"))
          /\ Script.first \in Seq(Calls) /\ Script.pre \in Seq(Calls)
      BY <1>2 DEF WellRun, IsScript
    <3>3. Runs(bench, Script.first \o Script.pre,
               AtEnd(bench, "worker"), AtEnd(bench, "pre"))
      BY <3>2, RunsConcat
    <3> QED
      BY <1>3, <1>4, <2>1, <2>2, <2>3, <3>1, <3>3
  <2>4. CASE cb[w] = "post"
    <3>1. todo'[w] = Script.pre
      BY <1>1, <2>1, <2>4 DEF OnceInv, PreOps
    <3>2. Runs(bench, Script.pre, AtEnd(bench, "post"), AtEnd(bench, "pre"))
      BY <1>2 DEF WellRun
    <3> QED
      BY <1>3, <1>4, <2>1, <2>2, <2>4, <3>1, <3>2
  <2> QED
    BY <2>1, <2>3, <2>4
<1>6. CASE LoopTest(w, Script) /\ ~go
  <2>1. /\ cb[w] \in {"worker", "post"} /\ cb'[w] = "fini"
        /\ todo'[w] = Script.fini /\ once' = once
    BY <1>1, <1>6 DEF LoopTest, Enter, PlaceInv
  <2>2. cb[w] = "post"
    BY <1>1, <1>6, <2>1 DEF PlaceInv, Fits
  <2>3. Runs(bench, Script.fini, AtEnd(bench, "post"), AtEnd(bench, "fini"))
    BY <1>2 DEF WellRun
  <2> QED
    BY <1>1, <1>3, <1>4, <2>1, <2>2, <2>3 DEF PlaceInv
<1>7. CASE Return(w, Script)
  <2>1. once' = once
    BY <1>7 DEF Return
  <2>2. CASE cb[w] = "pre" /\ Enter(w, "bench", Script.bench)
    <3>1. cb'[w] = "bench" /\ todo'[w] = Script.bench
      BY <1>1, <2>2 DEF Enter, PlaceInv
    <3>2. Runs(bench, Script.bench, AtEnd(bench, "pre"), AtEnd(bench, "bench"))
      BY <1>2 DEF WellRun
    <3> QED
      BY <1>1, <1>3, <1>4, <2>1, <2>2, <3>1, <3>2 DEF PlaceInv, OnceInv
  <2>3. CASE cb[w] = "bench" /\ Enter(w, "post", Script.post)
    <3>1. cb'[w] = "post" /\ todo'[w] = Script.post
      BY <1>1, <2>3 DEF Enter, PlaceInv
    <3>2. Runs(bench, Script.post, AtEnd(bench, "bench"), AtEnd(bench, "post"))
      BY <1>2 DEF WellRun
    <3> QED
      BY <1>1, <1>3, <1>4, <2>1, <2>3, <3>1, <3>2 DEF PlaceInv, OnceInv
  <2>4. CASE cb[w] = "fini" /\ Enter(w, "done", <<>>)
    <3>1. cb'[w] = "done" /\ todo'[w] = <<>>
      BY <1>1, <2>4 DEF Enter, PlaceInv
    <3>2. AtEnd(bench, "done") = Holding(w)
      BY <1>3, <2>4 DEF AtEnd
    <3>3. Runs(bench, <<>>, Holding(w), Holding(w))
      BY InHolding, RunsNone
    <3> QED
      BY <1>1, <1>4, <2>1, <3>1, <3>2, <3>3 DEF PlaceInv
  <2> QED
    BY <1>7, <2>2, <2>3, <2>4 DEF Return
<1> QED
  BY <1>5, <1>6, <1>7

LEMMA AdvanceKeeps ==
  ASSUME DescriptorsInv, NEW w \in Worker, Advance(w)
  PROVE  DescriptorsInv'
<1>1. LoopTest(w, Script) \/ Return(w, Script)
  BY DEF Advance
<1>2. UNCHANGED <<files, choice>> /\ UNCHANGED <<network, choice>> /\ failed = "no"
      /\ UNCHANGED failed
  BY DEF Advance, LoopTest, Return, Idle
<1>3. PlaceInv(Calls)'
  <2>1. PlaceInv(Calls) /\ IsScript(Script, Calls)
    BY ScriptRuns DEF DescriptorsInv, DataInv, WellRun
  <2> QED
    BY <1>1, <2>1, LoopPlace, ReturnPlace
<1>4. /\ TableInv' /\ QueueInv' /\ PortInv' /\ bench' = bench /\ lm_optT' = lm_optT
      /\ Fds' = Fds
  BY <1>2, FilesSame, NetworkSame, SameChoice DEF DescriptorsInv
<1>5. \A u \in Worker : Holding(u)' = Holding(u)
  BY <1>2, FilesSame, NetworkSame, HoldingSame
<1>6. HeldInv'
  <2>1. ASSUME NEW u \in Worker
        PROVE  Runs(bench', todo'[u], Holding(u)', AtEnd(bench', cb'[u]))
    <3>1. CASE u = w
      BY <1>1, <1>4, <1>5, <3>1, Entered
    <3>2. CASE u # w
      <4>1. todo'[u] = todo[u] /\ cb'[u] = cb[u]
        BY <1>1, <3>2, Entered
      <4> QED
        BY <1>4, <1>5, <4>1 DEF DescriptorsInv, HeldInv
    <3> QED
      BY <3>1, <3>2
  <2> QED
    BY <2>1 DEF HeldInv
<1>7. OnceInv'
  <2>1. /\ cb'[w] \in {"pre", "bench", "post", "fini", "done"}
        /\ cb'[w] \in {"pre", "bench", "post"} => once'[w]
        /\ \A u \in Worker \ {w} : cb'[u] = cb[u] /\ once'[u] = once[u]
    BY <1>1, Entered
  <2> QED
    BY <2>1 DEF DescriptorsInv, OnceInv
<1>8. DataInv'
  BY <1>2, <1>4 DEF DescriptorsInv, DataInv, files, network
<1>9. FailuresKnown'
  BY <1>2 DEF FailuresKnown
<1> QED
  BY <1>3, <1>4, <1>6, <1>7, <1>8, <1>9 DEF DescriptorsInv

LEMMA StopKeeps ==
  ASSUME DescriptorsInv, NEW w \in Worker, Stop(w)
  PROVE  DescriptorsInv'
<1>1. /\ UNCHANGED <<files, choice>> /\ UNCHANGED <<network, choice>>
      /\ failed = "no" /\ UNCHANGED <<place, failed>>
  BY DEF Stop, Halt
<1>2. PlaceInv(Calls)'
  BY HaltPlace DEF Stop, DescriptorsInv
<1>3. /\ TableInv' /\ QueueInv' /\ PortInv' /\ bench' = bench /\ lm_optT' = lm_optT
      /\ Fds' = Fds
  BY <1>1, FilesSame, NetworkSame, SameChoice DEF DescriptorsInv
<1>4. \A u \in Worker : Holding(u)' = Holding(u)
  BY <1>1, FilesSame, NetworkSame, HoldingSame
<1>5. HeldInv' /\ OnceInv'
  BY <1>1, <1>3, <1>4 DEF DescriptorsInv, HeldInv, OnceInv, place
<1>6. DataInv'
  BY <1>1, <1>3 DEF DescriptorsInv, DataInv, files, network
<1>7. FailuresKnown'
  BY <1>1 DEF FailuresKnown
<1> QED
  BY <1>2, <1>3, <1>5, <1>6, <1>7 DEF DescriptorsInv

LEMMA StutterKeeps == DescriptorsInv /\ UNCHANGED vars => DescriptorsInv'
<1> SUFFICES ASSUME DescriptorsInv, UNCHANGED vars
             PROVE  DescriptorsInv'
  OBVIOUS
<1>1. UNCHANGED <<round, choice, place, files, network>> /\ failed' = failed
  BY DEF vars
<1>2. Script' = Script /\ lm_optT' = lm_optT /\ bench' = bench
  BY <1>1, SameChoice
<1>3. FailuresKnown'
  BY <1>1, <1>2 DEF DescriptorsInv, FailuresKnown, network
<1>4. failed' \in Reason
  BY <1>1 DEF DescriptorsInv, DataInv
<1> QED
  BY <1>1, <1>3, <1>4, FailKeeps

LEMMA DescriptorsInit == Init => DescriptorsInv
<1> SUFFICES ASSUME Init PROVE DescriptorsInv
  OBVIOUS
<1>1. /\ bench \in Names /\ lm_optT \in ThreadCounts /\ failed = "no" /\ R!Init
      /\ once = [w \in Worker |-> FALSE] /\ cb = [w \in Worker |-> "worker"]
      /\ todo = [w \in Worker |-> Script.worker]
      /\ slot = [w \in Worker |-> [v \in Var |-> 0]]
      /\ port = [w \in Worker |-> 0] /\ listening = [w \in Worker |-> FALSE]
      /\ queue = [w \in Worker |-> <<>>] /\ conn = [w \in Worker |-> "none"]
  BY DescriptorsAssumption DEF Init, StartRun
<1>2. WellRun(bench, Script)
  BY <1>1, ScriptRuns
<1>3. /\ Fds \subseteq Nat /\ 0 \in Fds /\ Script.shared \in 0..3
      /\ \A w \in Worker : Proc(w) \in Worker
  BY <1>1, FdsType, ThreadsType
<1>4. /\ table \in [Worker -> [Fds -> Owner]]
      /\ \A p \in Worker, f \in Fds : table[p][f] =
           IF f <= 2 THEN Std ELSE IF f <= 2 + Script.shared THEN Shared ELSE Free
  <2>1. table = [w \in Worker |-> [f \in Fds |->
          IF f <= 2 THEN Std ELSE IF f <= 2 + Script.shared THEN Shared ELSE Free]]
    BY DEF Init
  <2>2. Std \in Owner /\ Shared \in Owner /\ Free \in Owner
    BY DEF Std, Shared, Free, Owner
  <2> QED
    BY <2>1, <2>2
<1>5. PlaceInv(Calls)
  <2>1. R!LockstepInv
    BY <1>1, RoundInit
  <2>2. todo \in [Worker -> Seq(Calls)]
    BY <1>1, <1>2 DEF WellRun, IsScript
  <2>3. \A w \in Worker : Fits(w)
    BY <1>1 DEF Fits, R!Init
  <2> QED
    BY <1>1, <2>1, <2>2, <2>3 DEF PlaceInv, CallbackName
<1>6. DataInv
  <2>1. <<>> \in Seq(Link)
    BY EmptySeq
  <2> QED
    BY <1>1, <1>4, <2>1 DEF DataInv, Reason
<1>7. OnceInv /\ QueueInv /\ PortInv /\ FailuresKnown
  BY <1>1 DEF OnceInv, QueueInv, PortInv, FailuresKnown
<1>8. TableInv
  BY <1>4 DEF TableInv, Accounted
<1>9. ASSUME NEW w \in Worker
      PROVE  Runs(bench, todo[w], Holding(w), AtEnd(bench, cb[w]))
  <2>1. \A v \in Var : ~Mine(w, v)
    <3>1. table[Proc(w)][0] = Std
      BY <1>3, <1>4
    <3>2. \A v \in Var : Fd(w, v) = 0 /\ Opener(w, v) # Std
      BY <1>1 DEF Fd, Opener, Std, Var
    <3> QED
      BY <3>1, <3>2 DEF Mine
  <2>2. port[w] = 0 /\ ~listening[w] /\ ~Waiting(w)
    BY <1>1 DEF Waiting
  <2>3. Holding(w) = {}
    BY <2>1, <2>2 DEF Holding, Mark
  <2> QED
    BY <1>1, <1>2, <2>3 DEF WellRun
<1> QED
  BY <1>5, <1>6, <1>7, <1>8, <1>9 DEF DescriptorsInv, HeldInv

LEMMA DescriptorsStep == DescriptorsInv /\ [Next]_vars => DescriptorsInv'
<1>1. ASSUME DescriptorsInv, NEW w \in Worker, Call(w)
      PROVE  DescriptorsInv'
  BY <1>1, OpenOneKeeps, OpenPairKeeps, FailsKeeps, AssignKeeps, AwaitKeeps, CloseKeeps,
     BindKeeps, ListenKeeps, ConnectKeeps, RefusedKeeps, AcceptKeeps DEF Call
<1>2. ASSUME DescriptorsInv, NEW w \in Worker, Step(w) \/ Handshake(w) \/ Stop(w)
      PROVE  DescriptorsInv'
  BY <1>1, <1>2, AdvanceKeeps, HandshakeKeeps, StopKeeps DEF Step
<1> QED
  BY <1>2, StutterKeeps DEF Next, Finished

LEMMA DescriptorsInvariant == Spec => []DescriptorsInv
  BY DescriptorsInit, DescriptorsStep, PTL DEF Spec

(***************************************************************************)
(* Every call on a descriptor is made on the very descriptor that the      *)
(* worker opened for it and that is still open, so that no worker works on *)
(* another's; for every number of workers and every benchmark.             *)
(***************************************************************************)
THEOREM DescriptorsOwn == Spec => []OwnDescriptor
<1>1. ASSUME DescriptorsInv, NEW w \in Worker, InStage(w), todo[w] # <<>>
      PROVE  LET c == Head(todo[w]) IN
               /\ c.op \in {"use", "close", "bind", "bindreuse", "listen", "start",
                            "connect", "reconnect", "await"} => Mine(w, c.var)
               /\ c.op = "dup" => Mine(w, "shared")
               /\ c.op = "accept" => Mine(w, "lsn")
               /\ bench = "close_b" /\ BadFd \in Fds => table[Proc(w)][BadFd] = Free
  <2> DEFINE c == Head(todo[w])
  <2>1. Legal(bench, Holding(w), c)
    BY <1>1, NextLegal
  <2>2. \A v \in Var : v \in Holding(w) <=> Mine(w, v)
    BY InHolding
  <2>3. bench \in SharedNames => Mine(w, "shared")
    <3>1. SUFFICES ASSUME bench \in SharedNames PROVE Mine(w, "shared")
      OBVIOUS
    <3> DEFINE s == Script.shared
               f == 2 + s
    <3>2. s \in 1..3 /\ 0..f \subseteq Fds /\ Proc(w) \in Worker
      <4>1. s = IF bench = "getpeername" THEN 3 ELSE 1
        BY <1>1, <3>1, LimitsOf DEF DescriptorsInv, DataInv
      <4> QED
        BY <1>1, <4>1, FdsType, ThreadsType DEF DescriptorsInv, DataInv
    <3>3. f \in Fds /\ ~(f <= 2) /\ f <= 2 + s
      <4> HIDE DEF s
      <4> QED
        BY <3>2
    <3>4. Accounted(Proc(w), f)
      BY <1>1, <3>2, <3>3 DEF DescriptorsInv, TableInv
    <3>5. table[Proc(w)][f] = Shared
      BY <3>3, <3>4 DEF Accounted
    <3> QED
      BY <3>3, <3>5 DEF Mine, Fd, Opener
  <2>4. c.op \in {"use", "close", "bind", "bindreuse", "listen", "start",
                  "connect", "reconnect", "await"} => Mine(w, c.var)
    <3>1. c.op = "use" => Mine(w, c.var)
      BY <2>1, <2>2, <2>3 DEF Legal
    <3>2. c.op # "use" /\ c.op \in {"close", "bind", "bindreuse", "listen", "start",
                                    "connect", "reconnect", "await"} =>
            c.var \in Var /\ c.var \in Holding(w)
      BY <2>1 DEF Legal, Calling, Var
    <3> HIDE DEF c
    <3> QED
      BY <2>2, <3>1, <3>2
  <2>5. c.op = "dup" => Mine(w, "shared")
    BY <2>1, <2>3 DEF Legal, SharedNames
  <2>6. c.op = "accept" => Mine(w, "lsn")
    BY <2>1, <2>2 DEF Legal, Var
  <2>7. bench = "close_b" /\ BadFd \in Fds => table[Proc(w)][BadFd] = Free
    <3>1. BadFd \in Nat /\ BadFd > 2 /\ Proc(w) \in Worker
      BY <1>1, DescriptorsAssumption, ThreadsType DEF DescriptorsInv, DataInv
    <3> QED
      BY <1>1, <3>1, NothingOpen
  <2> QED
    BY <2>4, <2>5, <2>6, <2>7
<1>2. DescriptorsInv => OwnDescriptor
  BY <1>1 DEF OwnDescriptor
<1> QED
  BY <1>2, DescriptorsInvariant, PTL

(***************************************************************************)
(* What a worker keeps between rounds.                                     *)
(***************************************************************************)
Outliving == {"read", "write", "writev", "lseek"}
Connections == {"connection", "connection_a", "connection_c"}

LEMMA ScriptOpens ==
  ASSUME bench \in Names
  PROVE  /\ Script.worker = IF bench = "isatty" THEN <<Open("fd")>>
                            ELSE IF bench = "close_tcp" THEN <<Open("lsn"), BindReuse,
                              Listen>>
                            ELSE <<>>
         /\ Script.first = IF bench \in Outliving THEN <<Open("fd")>>
                           ELSE IF bench \in Connections THEN <<Open("lsn"), Bind, Listen>>
                           ELSE <<>>
<1> USE DEF Script, Empty, Outliving, Connections
<1>1. CASE bench \in {"open", "close", "close_b", "dup", "socket", "socketpair"}
  BY <1>1 DEF open, close, close_b, dup, socket, socketpair
<1>2. CASE bench \in {"setsockopt", "read", "write", "writev", "lseek", "isatty"}
  BY <1>2 DEF setsockopt, read, write, writev, lseek, isatty
<1>3. CASE bench \in {"pread", "pwrite", "fcntl", "fcntl_ndelay", "listen",
                      "getsockname", "getpeername"}
  BY <1>3 DEF pread, pwrite, fcntl, fcntl_ndelay, listen, getsockname, getpeername
<1>4. CASE bench \in {"bind", "close_tcp", "connection", "connection_a", "connection_c"}
  BY <1>4 DEF bind, close_tcp, Connection
<1> QED
  BY <1>1, <1>2, <1>3, <1>4 DEF Names

\* The variables that the calls t open.
Opens(t) == {v \in Var : \E i \in DOMAIN t : t[i] = Open(v)}

LEMMA OpensOf ==
  /\ Opens(<<>>) = {} /\ Opens(<<Open("fd")>>) = {"fd"}
  /\ \A c \in {Bind, BindReuse} : Opens(<<Open("lsn"), c, Listen>>) = {"lsn"}
<1>1. Opens(<<>>) = {}
  BY DEF Opens
<1>2. Opens(<<Open("fd")>>) = {"fd"}
  BY DEF Opens, Open, Var
<1>3. ASSUME NEW c \in {Bind, BindReuse}
      PROVE  Opens(<<Open("lsn"), c, Listen>>) = {"lsn"}
  <2> DEFINE t == <<Open("lsn"), c, Listen>>
  <2>1. DOMAIN t = 1..3 /\ t[1] = Open("lsn") /\ t[2] = c /\ t[3] = Listen
    OBVIOUS
  <2>2. \A v : Open(v) # c /\ Open(v) # Listen
    BY DEF Open, Bind, BindReuse, Listen
  <2>3. \A v : Open(v) = Open("lsn") <=> v = "lsn"
    BY DEF Open
  <2> HIDE DEF t
  <2>4. Opens(t) = {"lsn"}
    <3>1. 1 \in DOMAIN t /\ \A i \in DOMAIN t : i \in {1, 2, 3}
      BY <2>1
    <3>2. \A v \in Var : (\E i \in DOMAIN t : t[i] = Open(v)) <=> v = "lsn"
      BY <2>1, <2>2, <2>3, <3>1
    <3> QED
      BY <3>2 DEF Opens, Var
  <2> QED
    BY <2>4 DEF t
<1> QED
  BY <1>1, <1>2, <1>3

LEMMA LastingKept ==
  ASSUME DescriptorsInv, NEW w \in Worker, cb[w] \in {"worker", "post"}
  PROVE  Lasting(w) = AtEnd(bench, cb[w]) \cap Var
<1>1. bench \in Names
  BY DEF DescriptorsInv, DataInv
<1> DEFINE calls == Script.worker \o (IF once[w] THEN Script.first ELSE <<>>)
<1>2. Lasting(w) = Opens(calls)
  BY DEF Lasting, Opens
<1>3. CASE cb[w] = "worker"
  <2>1. ~once[w]
    BY <1>3 DEF DescriptorsInv, OnceInv
  <2>2. calls = Script.worker
    BY <1>1, <2>1, ScriptOpens
  <2> HIDE DEF calls
  <2>3. Opens(calls) = IF bench = "isatty" THEN {"fd"}
                       ELSE IF bench = "close_tcp" THEN {"lsn"} ELSE {}
    BY <1>1, <2>2, ScriptOpens, OpensOf
  <2>4. AtEnd(bench, "worker") \cap Var = IF bench = "isatty" THEN {"fd"}
                                          ELSE IF bench = "close_tcp" THEN {"lsn"} ELSE {}
    BY DEF AtEnd, Kept, TcpNames, Var
  <2> QED
    BY <1>2, <1>3, <2>3, <2>4
<1>4. CASE cb[w] = "post"
  <2>1. once[w]
    BY <1>4 DEF DescriptorsInv, OnceInv
  <2> DEFINE t == IF bench = "isatty" \/ bench \in Outliving THEN <<Open("fd")>>
                  ELSE IF bench = "close_tcp" THEN <<Open("lsn"), BindReuse, Listen>>
                  ELSE IF bench \in Connections THEN <<Open("lsn"), Bind, Listen>>
                  ELSE <<>>
  <2>2. calls = t
    <3>1. calls = Script.worker \o Script.first
      BY <2>1
    <3>2. CASE bench \in {"isatty", "close_tcp"}
      <4>1. Script.worker = t /\ Script.first = <<>>
        BY <1>1, <3>2, ScriptOpens DEF Outliving, Connections
      <4>2. t \in {<<Open("fd")>>, <<Open("lsn"), BindReuse, Listen>>}
        BY <3>2
      <4>3. /\ \A a : <<a>> \o <<>> = <<a>>
            /\ \A a, b, c : <<a, b, c>> \o <<>> = <<a, b, c>>
        OBVIOUS
      <4> QED
        BY <3>1, <4>1, <4>2, <4>3, Zenon
    <3>3. CASE bench \notin {"isatty", "close_tcp"}
      <4>1. Script.worker = <<>> /\ Script.first = t
        BY <1>1, <3>3, ScriptOpens
      <4>2. t \in {<<Open("fd")>>, <<Open("lsn"), Bind, Listen>>, <<>>}
        BY <3>3
      <4>3. /\ \A a : <<>> \o <<a>> = <<a>>
            /\ \A a, b, c : <<>> \o <<a, b, c>> = <<a, b, c>>
            /\ <<>> \o <<>> = <<>>
        OBVIOUS
      <4> QED
        BY <3>1, <4>1, <4>2, <4>3, Zenon
    <3> QED
      BY <3>2, <3>3
  <2> HIDE DEF calls
  <2>3. Opens(calls) = IF bench = "isatty" \/ bench \in Outliving THEN {"fd"}
                       ELSE IF bench \in TcpNames THEN {"lsn"} ELSE {}
    <3>1. Opens(t) = IF bench = "isatty" \/ bench \in Outliving THEN {"fd"}
                     ELSE IF bench \in TcpNames THEN {"lsn"} ELSE {}
      BY OpensOf DEF TcpNames, Outliving, Connections
    <3> QED
      BY <2>2, <3>1
  <2>4. AtEnd(bench,
          "post") \cap Var = IF bench = "isatty" \/ bench \in Outliving THEN {"fd"}
                                        ELSE IF bench \in TcpNames THEN {"lsn"} ELSE {}
    BY DEF AtEnd, Kept, TcpNames, Outliving, Var
  <2> QED
    BY <1>2, <1>4, <2>3, <2>4
<1> QED
  BY <1>3, <1>4

(***************************************************************************)
(* A round closes what it opens: between rounds a worker holds as many     *)
(* descriptors as it has opened to last for the run.                       *)
(***************************************************************************)
THEOREM DescriptorsBalanced == Spec => []RoundBalanced
<1>1. ASSUME DescriptorsInv, NEW w \in Worker, Idle(w), cb[w] \in {"worker", "post"},
             bench # "socketpair"
      PROVE  Cardinality({f \in Fds : table[Proc(w)][f].who = w}) = Cardinality(Lasting(w))
  <2> DEFINE A == {f \in Fds : table[Proc(w)][f].who = w}
             B == Holding(w) \cap Var
             m == [x \in B |-> slot[w][x]]
  <2>1. B = Lasting(w)
    BY <1>1, IdleHas, LastingKept DEF Idle
  <2>2. IsFiniteSet(A)
    <3>1. IsFiniteSet(Fds)
      BY <1>1, FdsType DEF DescriptorsInv, DataInv
    <3> QED
      BY <3>1, FS_Subset
  <2>3. \A x \in Var : /\ x \in B <=> Mine(w, x)
                       /\ Mine(w, x) <=> /\ slot[w][x] \in Fds
                                         /\ table[Proc(w)][slot[w][x]] = [who |-> w,
                                              var |-> x]
    BY InHolding DEF Mine, Fd, Opener, Var
  <2>4. m \in [B -> A]
    <3>1. ASSUME NEW x \in B PROVE slot[w][x] \in A
      <4>1. x \in Var
        OBVIOUS
      <4>2. slot[w][x] \in Fds /\ table[Proc(w)][slot[w][x]] = [who |-> w, var |-> x]
        BY <2>3, <4>1
      <4>3. table[Proc(w)][slot[w][x]].who = w
        BY <4>2
      <4> QED
        BY <4>2, <4>3
    <3> HIDE DEF A, B
    <3> QED
      BY <3>1
  <2>5. \A x, y \in B : m[x] = m[y] => x = y
    <3>1. ASSUME NEW x \in B, NEW y \in B, m[x] = m[y]
          PROVE  x = y
      <4>1. /\ table[Proc(w)][slot[w][x]] = [who |-> w, var |-> x]
            /\ table[Proc(w)][slot[w][y]] = [who |-> w, var |-> y]
            /\ slot[w][x] = slot[w][y]
        BY <2>3, <3>1
      <4>2. [who |-> w, var |-> x] = [who |-> w, var |-> y]
        BY <4>1
      <4>3. [who |-> w, var |-> x].var = [who |-> w, var |-> y].var
        BY <4>2
      <4> QED
        BY <4>3
    <3> QED
      BY <3>1
  <2>6. \A f \in A : \E x \in B : m[x] = f
    <3>1. ASSUME NEW f \in A
          PROVE  \E x \in B : m[x] = f
      <4>1. Accounted(Proc(w), f) /\ f \in Fds /\ table[Proc(w)][f].who = w
        BY <1>1, ThreadsType DEF DescriptorsInv, DataInv, TableInv
      <4>2. Std.who # w /\ Shared.who # w /\ Free.who # w
        BY WorkerType DEF Std, Shared, Free
      <4>3. PICK u \in Worker, x \in Needs(bench) :
              table[Proc(w)][f] = Opener(u, x) /\ slot[u][x] = f
        BY <1>1, <4>1, <4>2 DEF Accounted
      <4>4. x \in Var /\ Opener(u, x) = [who |-> u, var |-> x]
        BY DEF Needs, Var, Opener
      <4>5. u = w
        BY <4>1, <4>3, <4>4
      <4>6. x \in B
        BY <2>3, <4>1, <4>3, <4>4, <4>5
      <4> QED
        BY <4>3, <4>5, <4>6
    <3> QED
      BY <3>1
  <2> HIDE DEF A, B, m
  <2>7. m \in Bijection(B, A)
    BY <2>4, <2>5, <2>6, Fun_IsBij
  <2>8. Cardinality(A) = Cardinality(B)
    <3>1. ExistsBijection(B, A)
      BY <2>7 DEF ExistsBijection
    <3>2. IsFiniteSet(B)
      <4>1. m \in Injection(B, A)
        BY <2>7, Fun_BijectionProperties
      <4> QED
        BY <2>2, <4>1, FS_Injection
    <3> QED
      BY <3>1, <3>2, FS_Bijection
  <2> QED
    BY <2>1, <2>8 DEF A
<1>2. DescriptorsInv => RoundBalanced
  BY <1>1 DEF RoundBalanced
<1> QED
  BY <1>2, DescriptorsInvariant, PTL

(***************************************************************************)
(* A run is cut short for the known reasons only; in particular the limits *)
(* asked of setfdlimit are large enough for every number of workers.       *)
(***************************************************************************)
THEOREM DescriptorsFailures == Spec => []FailuresKnown
<1>1. DescriptorsInv => FailuresKnown
  BY DEF DescriptorsInv
<1> QED
  BY <1>1, DescriptorsInvariant, PTL

\* A step that takes a connection from a queue is accept() by its owner.
LEMMA ShrinksBy ==
  ASSUME DescriptorsInv, [Next]_vars, NEW w \in Worker,
         Len(queue'[w]) < Len(queue[w]), listening'[w]
  PROVE  AcceptOne(w)
<1>1. /\ queue \in [Worker -> Seq(Link)] /\ listening \in [Worker -> BOOLEAN]
  BY DEF DescriptorsInv, DataInv
<1>2. queue[w] \in Seq(Link) /\ Len(queue[w]) \in Nat
  BY <1>1, LenProperties
<1>3. queue'[w] # queue[w]
  BY <1>2
<1>4. PICK u \in Worker : AcceptOne(u) \/ CloseOne(u) \/ Handshake(u)
  BY <1>3 DEF Next, Finished, vars, Step, Call, Advance, Stop, OpenOne, OpenPair, OpenFails,
     Assign, UseOne, BindPort, StartListening, ListenFails, StartConnect, Refused,
     RefusedAgain, AwaitOne, Fails, network
<1>5. CASE AcceptOne(u)
  BY <1>1, <1>3, <1>5 DEF AcceptOne
<1>6. CASE Handshake(u)
  <2>1. PICK x \in Worker :
          queue' = [queue EXCEPT ![x] = Append(@, [from |-> u, live |-> TRUE])]
    BY <1>6 DEF Handshake
  <2>2. queue'[w] = Append(queue[w], [from |-> u, live |-> TRUE])
    BY <1>1, <1>3, <2>1
  <2>3. Len(queue'[w]) = Len(queue[w]) + 1
    <3>1. [from |-> u, live |-> TRUE] \in Link
      BY DEF Link
    <3> QED
      BY <1>2, <2>2, <3>1, AppendProperties
  <2> QED
    BY <1>2, <2>3
<1>7. CASE CloseOne(u)
  <2>1. \/ queue' = [queue EXCEPT ![u] = <<>>] /\ listening' = [listening EXCEPT ![u]
             = FALSE]
        \/ queue' = [x \in Worker |-> Dead(queue[x], u)]
        \/ queue' = queue
    BY <1>7 DEF CloseOne, network
  <2>2. CASE /\ queue' = [queue EXCEPT ![u] = <<>>]
             /\ listening' = [listening EXCEPT ![u] = FALSE]
    <3>1. u = w
      BY <1>1, <1>3, <2>2
    <3> QED
      BY <1>1, <2>2, <3>1
  <2>3. CASE queue' = [x \in Worker |-> Dead(queue[x], u)]
    <3>1. queue'[w] = Dead(queue[w], u)
      BY <2>3
    <3>2. DOMAIN Dead(queue[w], u) = DOMAIN queue[w]
      BY DEF Dead
    <3>3. Dead(queue[w], u) \in Seq(Link)
      BY <1>2, DeadType
    <3>4. Len(Dead(queue[w], u)) = Len(queue[w])
      <4>1. /\ DOMAIN queue[w] = 1..Len(queue[w]) /\ Len(Dead(queue[w], u)) \in Nat
            /\ DOMAIN Dead(queue[w], u) = 1..Len(Dead(queue[w], u))
        BY <1>2, <3>3, LenProperties
      <4> QED
        BY <1>2, <3>2, <4>1
    <3> QED
      BY <1>2, <3>1, <3>4
  <2> QED
    BY <1>3, <2>1, <2>2, <2>3
<1> QED
  BY <1>4, <1>5, <1>6, <1>7

(***************************************************************************)
(* accept() returns the connection that the same worker is making in this  *)
(* round: not another worker's, and not one left from an earlier round.    *)
(***************************************************************************)
THEOREM DescriptorsAccepts == Spec => AcceptsOwn
<1> DEFINE Accepts == \A w \in Worker : Len(queue'[w]) < Len(queue[w]) /\ listening'[w] =>
                        Head(queue[w]) = [from |-> w, live |-> TRUE]
<1>1. DescriptorsInv /\ [Next]_vars => [Accepts]_vars
  <2>1. ASSUME DescriptorsInv, [Next]_vars, NEW w \in Worker,
               Len(queue'[w]) < Len(queue[w]), listening'[w]
        PROVE  Head(queue[w]) = [from |-> w, live |-> TRUE]
    <3>1. AcceptOne(w)
      BY <2>1, ShrinksBy
    <3>2. queue[w] = Own(w)
      BY <2>1, <3>1, AcceptTakes
    <3> QED
      BY <3>2, OwnQueue
  <2> QED
    BY <2>1
<1> QED
  BY <1>1, DescriptorsInvariant, PTL DEF Spec, AcceptsOwn
=============================================================================
