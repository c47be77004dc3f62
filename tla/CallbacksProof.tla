--------------------------- MODULE CallbacksProof ---------------------------
(***************************************************************************)
(* What every benchmark over Callbacks may rely on, for every number of    *)
(* workers: a callback is entered in its stage of the round only, and what *)
(* a worker still has to call is always the rest of its script.            *)
(***************************************************************************)
EXTENDS Callbacks, SequenceTheorems, FiniteSetTheorems, TLAPS

(***************************************************************************)
(* The rounds.                                                             *)
(***************************************************************************)
LEMMA RoundInit == R!Init => R!LockstepInv
  BY DEF R!Init, R!LockstepInv, R!TypeOK, R!Stage, R!Untimed, R!Agreed

LEMMA RoundStep ==
  ASSUME R!LockstepInv, NEW w \in Worker,
         R!FinishPre(w) \/ R!FinishBenchmark(w) \/ R!Halt(w) \/ R!Stop(w)
  PROVE  R!LockstepInv'
<1> USE DEF R!LockstepInv, R!TypeOK, R!Untimed, R!Timed, R!Agreed, R!Stage, R!OthersAre
<1>1. CASE R!FinishPre(w)
  <2>1. CASE R!OthersAre(w, "ready")
    BY <1>1, <2>1 DEF R!FinishPre
  <2>2. CASE ~R!OthersAre(w, "ready")
    <3>1. stage' = [stage EXCEPT ![w] = "ready"] /\ go /\ UNCHANGED go
      BY <1>1, <2>2 DEF R!FinishPre
    <3> QED
      BY <1>1, <3>1 DEF R!FinishPre
  <2> QED
    BY <2>1, <2>2
<1>2. CASE R!FinishBenchmark(w)
  <2>1. CASE R!OthersAre(w, "measured")
    BY <1>2, <2>1 DEF R!FinishBenchmark
  <2>2. CASE ~R!OthersAre(w, "measured")
    BY <1>2, <2>2 DEF R!FinishBenchmark
  <2> QED
    BY <2>1, <2>2
<1>3. CASE R!Halt(w)
  BY <1>3 DEF R!Halt
<1>4. CASE R!Stop(w)
  BY <1>4 DEF R!Stop
<1> QED
  BY <1>1, <1>2, <1>3, <1>4

LEMMA RoundSame == R!LockstepInv /\ UNCHANGED round => R!LockstepInv'
  BY DEF round, R!LockstepInv, R!TypeOK, R!Untimed, R!Timed, R!Agreed

(***************************************************************************)
(* The rounds keep the workers together: none is in the timed part while   *)
(* another is outside it, and none leaves the loop while another goes for  *)
(* a further round.                                                        *)
(***************************************************************************)
THEOREM RoundsLockstep == R!Spec => []R!LockstepInv
<1>1. R!LockstepInv /\ [R!Next]_(R!vars) => R!LockstepInv'
  BY RoundStep, RoundSame DEF R!Next, R!vars, round
<1> QED
  BY <1>1, RoundInit, PTL DEF R!Spec

CallbackName == {"unborn", "worker", "pre", "bench", "post", "fini", "done"}

\* The callback a worker is in fits its stage, and the loop test that let it in.
Fits(w) ==
  /\ cb[w] = "bench" <=> stage[w] \in {"ready", "timed"}
  /\ stage[w] = "measured" => cb[w] = "post"
  /\ cb[w] = "done" <=> stage[w] = "stopped"
  /\ cb[w] \in {"unborn", "worker", "pre"} => go
  /\ cb[w] = "fini" => ~go

\* S is the set of all calls.
PlaceInv(S) ==
  /\ R!LockstepInv
  /\ cb \in [Worker -> CallbackName] /\ todo \in [Worker -> Seq(S)]
  /\ once \in [Worker -> BOOLEAN]
  /\ \A w \in Worker : Fits(w)

(***************************************************************************)
(* The rest of a script.                                                   *)
(***************************************************************************)
Rest(s, t) == \E k \in 0..Len(t) : s = SubSeq(t, k + 1, Len(t))

LEMMA RestAll == ASSUME NEW S, NEW t \in Seq(S) PROVE Rest(t, t)
<1>1. t = SubSeq(t, 0 + 1, Len(t)) /\ 0 \in 0..Len(t)
  BY LenProperties, SubSeqFull
<1> QED
  BY <1>1 DEF Rest

LEMMA RestTail ==
  ASSUME NEW S, NEW t \in Seq(S), NEW s, Rest(s, t), s # <<>>
  PROVE  \E k \in 1..Len(t) :
           /\ s = SubSeq(t, k, Len(t)) /\ Head(s) = t[k]
           /\ Tail(s) = SubSeq(t, k + 1, Len(t))
<1>1. PICK k \in 0..Len(t) : s = SubSeq(t, k + 1, Len(t))
  BY DEF Rest
<1>2. Len(t) \in Nat
  BY LenProperties
<1>3. k + 1 \in 1..Len(t)
  BY <1>1, <1>2, SubSeqEmpty
<1>4. Head(s) = t[k + 1] /\ Tail(s) = SubSeq(t, (k + 1) + 1, Len(t))
  BY <1>1, <1>2, <1>3, HeadTailOfSubSeq
<1> QED
  BY <1>1, <1>3, <1>4

LEMMA TailRest ==
  ASSUME NEW S, NEW t \in Seq(S), NEW s, Rest(s, t), s # <<>>
  PROVE  Rest(Tail(s), t)
<1>1. PICK k \in 1..Len(t) : Tail(s) = SubSeq(t, k + 1, Len(t))
  BY RestTail
<1>2. k \in 0..Len(t)
  BY LenProperties
<1> QED
  BY <1>1, <1>2 DEF Rest

\* What is left of a script that is nearly over.
LEMMA RestLast ==
  ASSUME NEW S, NEW t \in Seq(S), NEW k \in 1..Len(t)
  PROVE  /\ SubSeq(t, k, Len(t)) # <<>>
         /\ Head(SubSeq(t, k, Len(t))) = t[k]
         /\ SubSeq(t, k + 1, Len(t)) = <<>> <=> k = Len(t)
<1>1. Len(t) \in Nat
  BY LenProperties
<1>7. \A i \in 1..Len(t) : t[i] \in S
  BY ElementOfSeq
<1>2. SubSeq(t, k, Len(t)) \in Seq(S) /\ Len(SubSeq(t, k, Len(t))) = Len(t) + 1 - k
  BY <1>1, <1>7, SubSeqProperties
<1>8. Len(<<>>) = 0
  BY EmptySeq
<1>3. SubSeq(t, k, Len(t)) # <<>>
  BY <1>1, <1>2, <1>8
<1>4. Head(SubSeq(t, k, Len(t))) = t[k]
  BY <1>1, HeadTailOfSubSeq
<1>5. ASSUME k # Len(t) PROVE SubSeq(t, k + 1, Len(t)) # <<>>
  <2>1. Len(SubSeq(t, k + 1, Len(t))) = Len(t) - k
    BY <1>1, <1>5, <1>7, SubSeqProperties
  <2>2. Len(SubSeq(t, k + 1, Len(t))) # 0
    BY <1>1, <1>5, <2>1
  <2> QED
    BY <1>8, <2>2, Zenon
<1>6. ASSUME k = Len(t) PROVE SubSeq(t, k + 1, Len(t)) = <<>>
  BY <1>1, <1>6, SubSeqEmpty
<1> QED
  BY <1>3, <1>4, <1>5, <1>6

LEMMA RestOfNone == ASSUME NEW s, Rest(s, <<>>) PROVE s = <<>>
<1>1. PICK k \in 0..0 : s = SubSeq(<<>>, k + 1, 0)
  BY DEF Rest
<1>2. k + 1 \in Int /\ 0 < k + 1
  BY <1>1
<1> QED
  BY <1>1, <1>2, SubSeqEmpty

LEMMA RestOfOne ==
  ASSUME NEW a, NEW s, Rest(s, <<a>>)
  PROVE  s \in {<<a>>, <<>>}
<1>1. PICK k \in 0..1 : s = SubSeq(<<a>>, k + 1, 1)
  BY DEF Rest
<1>2. <<a>> \in Seq({a}) /\ Len(<<a>>) = 1
  OBVIOUS
<1>3. CASE k = 0
  <2>1. SubSeq(<<a>>, 1, Len(<<a>>)) = <<a>>
    BY <1>2, SubSeqFull, Zenon
  <2>2. s = SubSeq(<<a>>, 1, 1)
    BY <1>1, <1>3
  <2> QED
    BY <1>2, <2>1, <2>2, Zenon
<1>4. CASE k = 1
  BY <1>1, <1>4, SubSeqEmpty
<1> QED
  BY <1>1, <1>3, <1>4

LEMMA RestOfTwo ==
  ASSUME NEW a, NEW b, NEW s, Rest(s, <<a, b>>)
  PROVE  s \in {<<a, b>>, <<b>>, <<>>}
<1>1. PICK k \in 0..2 : s = SubSeq(<<a, b>>, k + 1, 2)
  BY DEF Rest
<1>2. <<a, b>> \in Seq({a, b}) /\ Len(<<a, b>>) = 2 /\ <<a, b>> # <<>>
  OBVIOUS
<1>3. CASE k = 0
  <2>1. SubSeq(<<a, b>>, 1, Len(<<a, b>>)) = <<a, b>>
    BY <1>2, SubSeqFull, Zenon
  <2>2. s = SubSeq(<<a, b>>, 1, 2)
    BY <1>1, <1>3
  <2> QED
    BY <1>2, <2>1, <2>2, Zenon
<1>4. CASE k = 1
  <2>1. Tail(<<a, b>>) = SubSeq(<<a, b>>, 2, Len(<<a, b>>))
    BY <1>2, TailIsSubSeq, Zenon
  <2>2. Tail(<<a, b>>) = <<b>>
    OBVIOUS
  <2>3. s = SubSeq(<<a, b>>, 2, 2)
    BY <1>1, <1>4
  <2> QED
    BY <1>2, <2>1, <2>2, <2>3, Zenon
<1>5. CASE k = 2
  BY <1>1, <1>5, SubSeqEmpty
<1> QED
  BY <1>1, <1>3, <1>4, <1>5

(***************************************************************************)
(* The steps.                                                              *)
(***************************************************************************)
IsScript(script, S) ==
  /\ script.worker \in Seq(S) /\ script.first \in Seq(S) /\ script.pre \in Seq(S)
  /\ script.bench \in Seq(S) /\ script.post \in Seq(S) /\ script.fini \in Seq(S)

\* s is what may be left of a callback that the harness enters from its loop.
Scripted(callback, s, script) ==
  /\ callback = "pre" => Rest(s, script.first \o script.pre)
  /\ callback = "bench" => Rest(s, script.bench)
  /\ callback = "post" => Rest(s, script.post)
  /\ callback = "fini" => Rest(s, script.fini)

LEMMA InStageFits ==
  ASSUME NEW S, PlaceInv(S), NEW w \in Worker
  PROVE  /\ stage[w] \in {"between", "ready", "timed", "measured", "stopped"}
         /\ cb[w] \in CallbackName
         /\ stage[w] = "ready" => go
         /\ \A v \in Worker : stage[w] \in {"timed", "measured"} =>
              cb[v] \in {"bench", "post"} /\ stage[v] \in {"timed", "measured"}
  BY DEF PlaceInv, Fits, R!LockstepInv, R!TypeOK, R!Stage,
     R!Untimed, R!Timed, R!Agreed

\* A call is over.
LEMMA DonePlace ==
  ASSUME NEW S, PlaceInv(S), NEW w \in Worker, Done(w), todo[w] # <<>>,
         UNCHANGED round
  PROVE  PlaceInv(S)'
<1>1. R!LockstepInv'
  BY RoundSame DEF PlaceInv
<1>2. Tail(todo[w]) \in Seq(S)
  BY HeadTailProperties DEF PlaceInv
<1>3. todo' \in [Worker -> Seq(S)]
  BY <1>2 DEF PlaceInv, Done
<1> QED
  BY <1>1, <1>3 DEF PlaceInv, Done, Fits, round

LEMMA SamePlace ==
  ASSUME NEW S, PlaceInv(S), UNCHANGED <<round, place>>
  PROVE  PlaceInv(S)'
  BY RoundSame DEF PlaceInv, Fits, round, place

LEMMA HaltPlace ==
  ASSUME NEW S, PlaceInv(S), NEW w \in Worker, Halt(w)
  PROVE  PlaceInv(S)'
<1>1. R!LockstepInv'
  BY RoundStep DEF Halt, PlaceInv
<1>2. stage[w] = "timed" /\ go' = FALSE /\ UNCHANGED <<stage, place>>
  BY DEF Halt, R!Halt
<1>3. \A v \in Worker : cb[v] \in {"bench", "post"}
  BY <1>2, InStageFits
<1> QED
  BY <1>1, <1>2, <1>3 DEF PlaceInv, Fits, place

LEMMA LoopPlace ==
  ASSUME NEW S, PlaceInv(S), NEW script, IsScript(script, S),
         NEW w \in Worker, LoopTest(w, script)
  PROVE  PlaceInv(S)'
<1>1. R!LockstepInv'
  BY RoundSame DEF LoopTest, PlaceInv
<1>2. stage[w] = "between" /\ cb[w] \in {"worker", "post"}
  BY DEF LoopTest, Idle, InStage
<1>3. PreOps(w, script) \in Seq(S) /\ script.fini \in Seq(S)
  BY ConcatProperties DEF IsScript, PreOps
<1>4. /\ cb' = [cb EXCEPT ![w] = IF go THEN "pre" ELSE "fini"]
      /\ todo' = [todo EXCEPT ![w] = IF go THEN PreOps(w, script) ELSE script.fini]
      /\ once' \in [Worker -> BOOLEAN] /\ UNCHANGED round
  BY DEF LoopTest, Enter, PlaceInv
<1>5. cb' \in [Worker -> CallbackName] /\ todo' \in [Worker -> Seq(S)]
  BY <1>3, <1>4 DEF PlaceInv, CallbackName
<1>6. \A v \in Worker : Fits(v)'
  BY <1>2, <1>4 DEF PlaceInv, Fits, round
<1> QED
  BY <1>1, <1>4, <1>5, <1>6 DEF PlaceInv

LEMMA ReturnPlace ==
  ASSUME NEW S, PlaceInv(S), NEW script, IsScript(script, S),
         NEW w \in Worker, Return(w, script)
  PROVE  PlaceInv(S)'
<1>1. R!LockstepInv'
  BY RoundStep DEF Return, PlaceInv
<1>2. once' \in [Worker -> BOOLEAN]
  BY DEF Return, PlaceInv
<1>3. script.bench \in Seq(S) /\ script.post \in Seq(S) /\ <<>> \in Seq(S)
  BY EmptySeq DEF IsScript
<1>4. CASE cb[w] = "pre" /\ R!FinishPre(w) /\ Enter(w, "bench", script.bench)
  <2>1. cb' \in [Worker -> CallbackName] /\ todo' \in [Worker -> Seq(S)]
    BY <1>3, <1>4 DEF PlaceInv, CallbackName, Enter
  <2>2. ASSUME NEW v \in Worker PROVE Fits(v)'
    BY <1>4 DEF PlaceInv, Fits, Enter, R!FinishPre, R!OthersAre, CallbackName,
       R!LockstepInv, R!TypeOK
  <2> QED
    BY <1>1, <1>2, <2>1, <2>2 DEF PlaceInv
<1>5. CASE cb[w] = "bench" /\ R!FinishBenchmark(w) /\ Enter(w, "post", script.post)
  <2>1. cb' \in [Worker -> CallbackName] /\ todo' \in [Worker -> Seq(S)]
    BY <1>3, <1>5 DEF PlaceInv, CallbackName, Enter
  <2>2. ASSUME NEW v \in Worker PROVE Fits(v)'
    BY <1>5, InStageFits DEF PlaceInv, Fits, Enter, R!FinishBenchmark, R!OthersAre,
       CallbackName, R!LockstepInv, R!TypeOK
  <2> QED
    BY <1>1, <1>2, <2>1, <2>2 DEF PlaceInv
<1>6. CASE cb[w] = "fini" /\ R!Stop(w) /\ Enter(w, "done", <<>>)
  <2>1. cb' \in [Worker -> CallbackName] /\ todo' \in [Worker -> Seq(S)]
    BY <1>3, <1>6 DEF PlaceInv, CallbackName, Enter
  <2>2. ASSUME NEW v \in Worker PROVE Fits(v)'
    BY <1>6 DEF PlaceInv, Fits, Enter, R!Stop, CallbackName,
       R!LockstepInv, R!TypeOK
  <2> QED
    BY <1>1, <1>2, <2>1, <2>2 DEF PlaceInv
<1> QED
  BY <1>4, <1>5, <1>6 DEF Return

(***************************************************************************)
(* What is left is the rest of the script.                                 *)
(***************************************************************************)
LEMMA RestConcat ==
  ASSUME NEW S, NEW s \in Seq(S), NEW t \in Seq(S)
  PROVE  Rest(t, s \o t)
<1>1. Len(s) \in Nat /\ Len(t) \in Nat /\ Len(s \o t) = Len(s) + Len(t)
  BY LenProperties, ConcatProperties
<1>2. t = SubSeq(s \o t, Len(s) + 1, Len(s) + Len(t))
  <2>1. CASE Len(t) = 0
    <3>1. t = <<>>
      BY <2>1, EmptySeq
    <3>2. SubSeq(s \o t, Len(s) + 1, Len(s) + Len(t)) = <<>>
      BY <1>1, <2>1, SubSeqEmpty
    <3> QED
      BY <3>1, <3>2
  <2>2. CASE Len(t) # 0
    <3>1. /\ Len(s) + 1 \in Len(s) + 1 .. Len(s) + Len(t)
          /\ Len(s) + Len(t) \in Len(s) + 1 .. Len(s) + Len(t)
          /\ Len(s) + 1 - Len(s) = 1 /\ Len(s) + Len(t) - Len(s) = Len(t)
      BY <1>1, <2>2
    <3>2. SubSeq(s \o t, Len(s) + 1, Len(s) + Len(t)) = SubSeq(t, 1, Len(t))
      BY <3>1, SubSeqOfConcat2
    <3> QED
      BY <3>2, SubSeqFull
  <2> QED
    BY <2>1, <2>2
<1>3. Len(s) \in 0..Len(s \o t)
  BY <1>1
<1> QED
  BY <1>1, <1>2, <1>3 DEF Rest

LEMMA DoneScripted ==
  ASSUME NEW S, PlaceInv(S), NEW w \in Worker, Done(w), todo[w] # <<>>,
         NEW v \in Worker, NEW script, IsScript(script, S),
         Scripted(cb[v], todo[v], script)
  PROVE  Scripted(cb'[v], todo'[v], script)
<1>1. /\ script.first \o script.pre \in Seq(S) /\ script.bench \in Seq(S)
      /\ script.post \in Seq(S) /\ script.fini \in Seq(S)
  BY ConcatProperties DEF IsScript
<1>2. cb' = cb /\ todo'[v] = IF v = w THEN Tail(todo[v]) ELSE todo[v]
  BY DEF Done, PlaceInv
<1>3. CASE v # w
  BY <1>2, <1>3 DEF Scripted
<1>4. CASE v = w
  BY <1>1, <1>2, <1>4, TailRest DEF Scripted
<1> QED
  BY <1>3, <1>4

LEMMA LoopScripted ==
  ASSUME NEW S, PlaceInv(S), NEW w \in Worker, NEW script, IsScript(script, S),
         LoopTest(w, script)
  PROVE  Scripted(cb'[w], todo'[w], script)
<1>1. CASE go
  <2>1. /\ cb'[w] = "pre" /\ todo'[w] = PreOps(w, script)
    BY <1>1 DEF LoopTest, Enter, PlaceInv
  <2>2. Rest(PreOps(w, script), script.first \o script.pre)
    <3>1. script.first \in Seq(S) /\ script.pre \in Seq(S)
      BY DEF IsScript
    <3>2. script.first \o script.pre \in Seq(S)
      BY <3>1, ConcatProperties
    <3> QED
      BY <3>1, <3>2, RestAll, RestConcat DEF PreOps
  <2> QED
    BY <2>1, <2>2 DEF Scripted
<1>2. CASE ~go
  <2>1. cb'[w] = "fini" /\ todo'[w] = script.fini
    BY <1>2 DEF LoopTest, Enter, PlaceInv
  <2>2. Rest(script.fini, script.fini)
    BY RestAll DEF IsScript
  <2> QED
    BY <2>1, <2>2 DEF Scripted
<1> QED
  BY <1>1, <1>2

LEMMA ReturnScripted ==
  ASSUME NEW S, PlaceInv(S), NEW w \in Worker, NEW script, IsScript(script, S),
         Return(w, script)
  PROVE  Scripted(cb'[w], todo'[w], script)
<1>1. /\ Rest(script.bench, script.bench) /\ Rest(script.post, script.post)
      /\ Rest(script.fini, script.fini)
  BY RestAll DEF IsScript
<1>2. \/ cb'[w] = "bench" /\ todo'[w] = script.bench
      \/ cb'[w] = "post" /\ todo'[w] = script.post
      \/ cb'[w] = "done"
  BY DEF Return, Enter, PlaceInv
<1> QED
  BY <1>1, <1>2 DEF Scripted

\* The harness moves one worker at a time from callback to callback.
LEMMA OthersStay ==
  ASSUME NEW S, PlaceInv(S), NEW w \in Worker, NEW script,
         LoopTest(w, script) \/ Return(w, script),
         NEW v \in Worker, v # w
  PROVE  cb'[v] = cb[v] /\ todo'[v] = todo[v]
  BY DEF LoopTest, Return, Enter, PlaceInv

(***************************************************************************)
(* The layout of the workers: those of a process are the lm_optT numbers   *)
(* from its first one on.                                                  *)
(***************************************************************************)
LEMMA Divide ==
  ASSUME NEW t \in Nat \ {0}, NEW a \in Nat
  PROVE  a \div t \in Nat /\ a % t \in 0..(t - 1) /\ a = (a \div t) * t + (a % t)
  OBVIOUS

LEMMA DivideUnique ==
  ASSUME NEW t \in Nat \ {0}, NEW q \in Nat, NEW r \in 0..(t - 1)
  PROVE  (q * t + r) \div t = q /\ (q * t + r) % t = r
  OBVIOUS

LEMMA LayoutThreads ==
  ASSUME lm_optT \in ThreadCounts
  PROVE  lm_optT \in Nat \ {0} /\ lm_optT <= N /\ N % lm_optT = 0
         /\ N \div lm_optT \in Nat /\ N = (N \div lm_optT) * lm_optT
<1>1. lm_optT \in Nat \ {0} /\ lm_optT <= N /\ N % lm_optT = 0 /\ N \in Nat
  BY CallbacksAssumption
<1>2. /\ N \div lm_optT \in Nat /\ N % lm_optT \in 0..(lm_optT - 1)
      /\ N = (N \div lm_optT) * lm_optT + (N % lm_optT)
  BY <1>1, Divide
<1>3. (N \div lm_optT) * lm_optT \in Nat  BY <1>1, <1>2
<1>4. N = (N \div lm_optT) * lm_optT
  <2> DEFINE m == (N \div lm_optT) * lm_optT   r == N % lm_optT
  <2>1. m \in Nat /\ r = 0 /\ N = m + r  BY <1>1, <1>2, <1>3
  <2> HIDE DEF m, r
  <2>2. N = m  BY <2>1
  <2> QED BY <2>2 DEF m
<1> QED BY <1>1, <1>2, <1>4

LEMMA Layout ==
  ASSUME lm_optT \in ThreadCounts, NEW w \in Worker
  PROVE  /\ Proc(w) \in Worker /\ Thread(w) \in 0..(lm_optT - 1)
         /\ First(w) \in Worker /\ First(w) <= w /\ w = First(w) + Thread(w)
         /\ w = Proc(w) * lm_optT + Thread(w)
         /\ Thread(w) = 0 <=> First(w) = w
<1>1. lm_optT \in Nat \ {0} /\ w \in Nat /\ w < N /\ N \in Nat
  BY LayoutThreads, CallbacksAssumption DEF Worker
<1>2. /\ w \div lm_optT \in Nat /\ w % lm_optT \in 0..(lm_optT - 1)
      /\ w = (w \div lm_optT) * lm_optT + (w % lm_optT)
  BY <1>1, Divide
<1>3. w \div lm_optT <= (w \div lm_optT) * lm_optT
  <2> DEFINE q == w \div lm_optT
  <2>1. q \in Nat  BY <1>2
  <2> HIDE DEF q
  <2>2. q <= q * lm_optT  BY <2>1, <1>1
  <2> QED BY <2>2 DEF q
<1>4. (w \div lm_optT) * lm_optT \in Nat  BY <1>1, <1>2
<1> DEFINE q == w \div lm_optT   m == q * lm_optT   r == w % lm_optT
<1>5. q \in Nat /\ m \in Nat /\ q <= m /\ r \in 0..(lm_optT - 1) /\ w = m + r
  BY <1>2, <1>3, <1>4
<1> HIDE DEF q, m, r
<1>6. q \in 0..(N - 1) /\ m \in 0..(N - 1) /\ m <= w /\ (r = 0 <=> m = w)
  BY <1>1, <1>5
<1>7. Proc(w) = q /\ Thread(w) = r /\ First(w) = m  BY DEF Proc, Thread, First, q, m, r
<1>8. Proc(w) * lm_optT = m  BY <1>7 DEF m
<1> QED BY <1>5, <1>6, <1>7, <1>8 DEF Worker

\* The i-th thread of the process of w.
LEMMA LayoutMate ==
  ASSUME lm_optT \in ThreadCounts, NEW w \in Worker, NEW i \in 0..(lm_optT - 1)
  PROVE  /\ First(w) + i \in Worker /\ Proc(First(w) + i) = Proc(w)
         /\ Thread(First(w) + i) = i /\ First(First(w) + i) = First(w)
<1> DEFINE t == lm_optT   q == Proc(w)   c == N \div t
<1>1. t \in Nat \ {0} /\ c \in Nat /\ N = c * t /\ N \in Nat
  BY LayoutThreads, CallbacksAssumption
<1>2. q \in Nat /\ w < N /\ q * t <= w /\ w \in Nat
  <2>1. Proc(w) \in Worker /\ First(w) <= w  BY Layout
  <2>2. First(w) = q * t  BY DEF First
  <2> QED BY <2>1, <2>2, <1>1 DEF Worker
<1>3. i \in 0..(t - 1) /\ First(w) = q * t  BY DEF First
<1>4. (q * t + i) \div t = q /\ (q * t + i) % t = i
  <2> HIDE DEF t, q
  <2> QED BY <1>1, <1>2, <1>3, DivideUnique
<1>5. q * t + i \in Nat /\ q * t + i < N
  <2> HIDE DEF t, q, c
  <2>1. q * t < c * t  BY <1>1, <1>2
  <2>2. q < c  BY <2>1, <1>1, <1>2
  <2>3. (q + 1) * t <= c * t  BY <2>2, <1>1, <1>2
  <2>4. (q + 1) * t = q * t + t  BY <1>1, <1>2
  <2>5. q * t \in Nat  BY <1>1, <1>2
  <2> QED BY <2>3, <2>4, <2>5, <1>1, <1>3
<1>6. First(w) + i = q * t + i  BY <1>3
<1>7. Proc(First(w) + i) = q /\ Thread(First(w) + i) = i  BY <1>4, <1>6 DEF Proc, Thread
<1> QED BY <1>3, <1>5, <1>6, <1>7, <1>1 DEF Worker, First

LEMMA LayoutMates ==
  ASSUME lm_optT \in ThreadCounts, NEW v \in Worker, NEW w \in Worker, Proc(v) = Proc(w)
  PROVE  First(v) = First(w) /\ v \in First(w)..(First(w) + lm_optT - 1)
         /\ v = First(w) + Thread(v) /\ (Thread(v) = Thread(w) => v = w)
<1>1. First(v) = First(w)  BY DEF First
<1>2. lm_optT \in Nat  BY LayoutThreads
<1>3. v = First(v) + Thread(v) /\ w = First(w) + Thread(w) /\ Thread(v) \in 0..(lm_optT - 1)
      /\ First(w) \in Nat /\ v \in Nat
  BY Layout DEF Worker
<1> QED BY <1>1, <1>2, <1>3

\* A process has lm_optT workers.
LEMMA MateCount ==
  ASSUME lm_optT \in ThreadCounts, NEW w \in Worker
  PROVE  LET P == {u \in Worker : Proc(u) = Proc(w)} IN
         IsFiniteSet(P) /\ Cardinality(P) = lm_optT
<1> DEFINE P == {u \in Worker : Proc(u) = Proc(w)}   f == First(w)   t == lm_optT
<1>1. t \in Nat \ {0} /\ f \in Nat
  BY LayoutThreads, Layout DEF Worker
<1>2. P \subseteq f..(f + t - 1)
  BY LayoutMates
<1>3. f..(f + t - 1) \subseteq P
  <2>1. ASSUME NEW u \in f..(f + t - 1)  PROVE  u \in P
    <3>1. u - f \in 0..(t - 1) /\ f + (u - f) = u  BY <1>1
    <3>2. f + (u - f) \in Worker /\ Proc(f + (u - f)) = Proc(w)  BY <3>1, LayoutMate
    <3> QED BY <3>1, <3>2
  <2> QED BY <2>1
<1>4. P = f..(f + t - 1)  BY <1>2, <1>3
<1>5. IsFiniteSet(f..(f + t - 1)) /\ Cardinality(f..(f + t - 1)) = t
  <2> HIDE DEF f, t
  <2>1. f \in Int /\ f + t - 1 \in Int /\ ~(f > f + t - 1) /\ (f + t - 1) - f + 1 = t
    BY <1>1
  <2> QED BY <2>1, FS_Interval
<1> QED BY <1>4, <1>5

=============================================================================
