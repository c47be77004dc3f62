---------------------------- MODULE CascadeProof ----------------------------
(***************************************************************************)
(* Proofs about Cascade for rings of every size and every lock primitive   *)
(* but flock, whose benchmark has another script (and other results: see   *)
(* MCCascadeFlock).                                                        *)
(***************************************************************************)
EXTENDS Cascade, TLAPS, FiniteSetTheorems, WellFoundedInduction

(***************************************************************************)
(* The rounds.                                                             *)
(***************************************************************************)
LEMMA RoundInit == R!Init => R!LockstepInv
  BY DEF R!Init, R!LockstepInv, R!TypeOK, R!Stage, R!Untimed, R!Agreed

LEMMA RoundStep ==
  ASSUME R!LockstepInv, NEW w \in Worker,
         R!FinishPre(w) \/ R!FinishBenchmark(w) \/ R!Halt(w) \/ R!Stop(w)
  PROVE  R!LockstepInv' /\ R!TypeOK'
<1> USE DEF R!LockstepInv, R!TypeOK, R!Untimed, R!Timed, R!Agreed, R!Stage, R!OthersAre
<1>1. CASE R!FinishPre(w)
  <2>1. CASE R!OthersAre(w, "ready")
    BY <1>1, <2>1 DEF R!FinishPre
  <2>2. CASE ~R!OthersAre(w, "ready")
    <3>1. stage' = [stage EXCEPT ![w] = "ready"] /\ go /\ UNCHANGED go
      BY <1>1, <2>2 DEF R!FinishPre
    <3> QED
      BY <1>1, <3>1 DEF R!FinishPre
  <2> QED
    BY <2>1, <2>2
<1>2. CASE R!FinishBenchmark(w)
  <2>1. CASE R!OthersAre(w, "measured")
    BY <1>2, <2>1 DEF R!FinishBenchmark
  <2>2. CASE ~R!OthersAre(w, "measured")
    BY <1>2, <2>2 DEF R!FinishBenchmark
  <2> QED
    BY <2>1, <2>2
<1>3. CASE R!Halt(w)
  BY <1>3 DEF R!Halt
<1>4. CASE R!Stop(w)
  BY <1>4 DEF R!Stop
<1> QED
  BY <1>1, <1>2, <1>3, <1>4

LEMMA RoundSame ==
  ASSUME R!LockstepInv, UNCHANGED <<stage, go>>
  PROVE  R!LockstepInv' /\ R!TypeOK'
  BY DEF R!LockstepInv, R!TypeOK, R!Untimed, R!Timed, R!Agreed

(***************************************************************************)
(* The ring.                                                               *)
(***************************************************************************)
Last == N - 1

LEMMA RingType == N \in Nat /\ N > 0 /\ 0 \in Worker /\ Last \in Worker
  BY CascadeAssumption DEF Worker, Last

LEMMA Successor ==
  ASSUME NEW w \in Worker
  PROVE  Next1(w) = IF w < Last THEN w + 1 ELSE 0
  BY RingType DEF Next1, Worker, Last

\* The four locks a worker knows: its own two are not those of its successor,
\* unless it is alone.
LEMMA Locks ==
  ASSUME NEW w \in Worker
  PROVE  /\ Us0(w) = <<w, 0>> /\ Us1(w) = <<w, 1>>
         /\ w < Last => Them0(w) = <<w + 1, 0>> /\ Them1(w) = <<w + 1, 1>>
         /\ w = Last => Them0(w) = <<0, 1>> /\ Them1(w) = <<0, 0>>
         /\ w < Last \/ w = Last
  BY Successor, RingType DEF Us0, Us1, Them0, Them1, Worker, Last

(***************************************************************************)
(* A worker's position in the round: the operation it performs next.  With *)
(* -o an operation is over for the others before its signal is sent.       *)
(***************************************************************************)
Pos(w) == IF stage[w] = "measured" THEN 12
          ELSE IF owed[w] # None THEN pc[w] + 1 ELSE pc[w]

Blocking   == {0, 1, 3, 5, 7, 9}
Unblocking == {2, 4, 6, 8, 10, 11}

\* The lock of the operation at position p, and the locks that are held there.
LockAt(w, p) ==
  IF p \in {1, 2, 9, 11} THEN Us0(w)
  ELSE IF p \in {5, 6} THEN Us1(w)
  ELSE IF p \in {3, 8} THEN Them1(w)
  ELSE Them0(w)

HoldsAt(w, p, l) ==
  \/ l = Us0(w)   /\ p \in {2, 10, 11}
  \/ l = Us1(w)   /\ p = 6
  \/ l = Them0(w) /\ p \in {1, 2, 3, 4, 8, 9, 10}
  \/ l = Them1(w) /\ p \in {4, 5, 6, 7, 8}

LEMMA Script11 ==
  ASSUME kind # "flock", NEW w \in Worker, pc[w] \in 0..11
  PROVE  /\ Len(Script(w)) = 11
         /\ Operation(w) = [op |-> IF pc[w] \in Blocking THEN "block" ELSE "unblock",
                            lock |-> LockAt(w, pc[w])]
<1>1. Script(w) = FullScript(w)
  BY DEF Script
<1>2. Len(FullScript(w)) = 11
  BY DEF FullScript
<1>3. \A p \in 1..11 : FullScript(w)[p] =
        [op |-> IF p \in Blocking THEN "block" ELSE "unblock",
         lock |-> LockAt(w, p)]
  <2> USE DEF FullScript, Block, Unblock, Blocking, LockAt
  <2> SUFFICES ASSUME NEW p \in 1..11
               PROVE  FullScript(w)[p] =
                        [op |-> IF p \in Blocking THEN "block" ELSE "unblock",
                         lock |-> LockAt(w, p)]
    OBVIOUS
  <2>1. CASE p \in {1, 2, 3, 4}
    BY <2>1
  <2>2. CASE p \in {5, 6, 7, 8}
    BY <2>2
  <2>3. CASE p \in {9, 10, 11}
    BY <2>3
  <2> QED
    BY <2>1, <2>2, <2>3
<1>4. CASE pc[w] = 0
  BY <1>1, <1>2, <1>4 DEF Operation, Block, Blocking, LockAt
<1>5. CASE pc[w] \in 1..11
  BY <1>1, <1>2, <1>3, <1>5 DEF Operation
<1> QED
  BY <1>4, <1>5

\* A worker blocks a lock it does not hold and unblocks one that it holds, and
\* that is the only lock whose state the operation changes.
LEMMA Transfer ==
  ASSUME NEW w \in Worker, NEW p \in 0..11, NEW l \in LockId
  PROVE  /\ LockAt(w, p) \in LockId
         /\ p \in Blocking \/ p \in Unblocking
         /\ p \in Blocking =>
              /\ ~HoldsAt(w, p, LockAt(w, p))
              /\ HoldsAt(w, p + 1, l) <=> HoldsAt(w, p, l) \/ l = LockAt(w, p)
         /\ p \in Unblocking =>
              /\ HoldsAt(w, p, LockAt(w, p))
              /\ HoldsAt(w, p + 1, l) <=> HoldsAt(w, p, l) /\ l # LockAt(w, p)
         /\ ~HoldsAt(w, 0, l) /\ ~HoldsAt(w, 12, l)
<1>1. /\ Us0(w) \in LockId /\ Us1(w) \in LockId
      /\ Them0(w) \in LockId /\ Them1(w) \in LockId
      /\ Us0(w) # Us1(w) /\ Them0(w) # Them1(w)
  BY Locks, RingType DEF LockId, Worker, Last
<1>2. \/ /\ Us0(w) # Them0(w) /\ Us0(w) # Them1(w)
         /\ Us1(w) # Them0(w) /\ Us1(w) # Them1(w)
      \/ Us0(w) = Them1(w) /\ Us1(w) = Them0(w)
  BY Locks, RingType DEF Worker, Last
<1>3. p \in {0, 1, 2, 3, 4, 5, 6, 7, 8, 9, 10, 11}
  OBVIOUS
<1> HIDE DEF Us0, Us1, Them0, Them1
<1>4. CASE p \in {0, 1, 2}
  BY <1>1, <1>2, <1>4 DEF LockAt, HoldsAt, Blocking, Unblocking
<1>5. CASE p \in {3, 4, 5}
  BY <1>1, <1>2, <1>5 DEF LockAt, HoldsAt, Blocking, Unblocking
<1>6. CASE p \in {6, 7, 8}
  BY <1>1, <1>2, <1>6 DEF LockAt, HoldsAt, Blocking, Unblocking
<1>7. CASE p \in {9, 10, 11}
  BY <1>1, <1>2, <1>7 DEF LockAt, HoldsAt, Blocking, Unblocking
<1> QED
  BY <1>3, <1>4, <1>5, <1>6, <1>7

(***************************************************************************)
(* The invariant.  Who holds a lock is a matter of the positions alone     *)
(* (HolderInv), and the positions of two workers never get further apart   *)
(* than the locks allow (RingInv): the three waits of a worker are its     *)
(* positions 1, 5 and 9.                                                   *)
(***************************************************************************)
PcInv ==
  \A w \in Worker :
    /\ stage[w] \in {"between", "measured", "stopped"} => pc[w] = 0
    /\ stage[w] = "ready" => pc[w] = 1
    /\ stage[w] = "timed" => pc[w] \in 1..11
    /\ owed[w] # None => stage[w] = "timed" /\ pc[w] \in Unblocking

HolderInv ==
  \A l \in LockId, w \in Worker : holder[l] = w <=> HoldsAt(w, Pos(w), l)

RingInv ==
  /\ \A v, w \in Worker : v < w =>
       /\ Pos(w) >= 2 => Pos(v) >= 5
       /\ Pos(w) >= 6 => Pos(v) >= 9
       /\ Pos(w) >= 10 => Pos(v) >= 11
  /\ Pos(0) >= 6 => Pos(Last) >= 5
  /\ Pos(0) >= 10 => Pos(Last) >= 9

CascadeInv ==
  R!LockstepInv /\ TypeOK /\ kind # "flock" /\ PcInv /\ HolderInv /\ RingInv

LEMMA PosType == TypeOK /\ PcInv => \A w \in Worker : Pos(w) \in 0..12
  BY DEF TypeOK, PcInv, Pos, Unblocking

LEMMA InitCascade == "flock" \notin Kinds /\ Init => CascadeInv
<1> SUFFICES ASSUME "flock" \notin Kinds, Init PROVE CascadeInv
  OBVIOUS
<1>1. R!TypeOK /\ R!LockstepInv
  <2>1. R!LockstepInv
    BY RoundInit DEF Init
  <2> QED
    BY <2>1 DEF R!LockstepInv
<1>2. TypeOK
  <2>1. kind \in Kinds /\ asleep \in [Worker -> BOOLEAN]
    BY DEF Init
  <2>2. /\ holder \in [LockId -> Worker \cup {None}] /\ pc \in [Worker -> 0..11]
        /\ owed \in [Worker -> LockId \cup {None}]
    BY DEF Init
  <2> QED
    BY <1>1, <2>1, <2>2 DEF TypeOK
<1>3. \A w \in Worker : Pos(w) = 0
  BY DEF Init, R!Init, Pos
<1>4. PcInv
  BY DEF Init, R!Init, PcInv
<1>5. HolderInv
  BY <1>3, Transfer, CascadeAssumption DEF Init, HolderInv
<1>6. RingInv
  BY <1>3, RingType DEF RingInv
<1> QED
  BY <1>1, <1>2, <1>4, <1>5, <1>6 DEF CascadeInv, Init

(***************************************************************************)
(* What a step does to the positions and the locks.                        *)
(***************************************************************************)
Still(u) == Pos(u)' = Pos(u)

Forward(w) == Pos(w)' = Pos(w) + 1 /\ \A u \in Worker \ {w} : Still(u)

\* The last worker to finish closes the round for all.
Closes(w) == (\A u \in Worker \ {w} : Pos(u) = 12) /\ \A u \in Worker : Pos(u)' = 0

Acquires(w) ==
  /\ Pos(w) \in Blocking
  /\ holder[LockAt(w, Pos(w))] \in {None, w}
  /\ holder' = [holder EXCEPT ![LockAt(w, Pos(w))] = w]
  /\ Forward(w)
  /\ Pos(w) >= 1 => \A u \in Worker : Pos(u) >= 1

Releases(w) ==
  /\ Pos(w) \in Unblocking
  /\ holder' = Released(w, LockAt(w, Pos(w)))
  /\ Forward(w) \/ (Pos(w) = 11 /\ Closes(w))

Rests ==
  /\ UNCHANGED holder
  /\ (\A u \in Worker : Still(u)) \/ \E w \in Worker : Pos(w) = 12 /\ Closes(w)

\* Holding is a matter of the worker, its position and the lock.
LEMMA HolderPrimed ==
  (\A l \in LockId, w \in Worker : holder'[l] = w <=> HoldsAt(w, Pos(w)', l))
    => HolderInv'
  BY DEF HolderInv, HoldsAt, Us0, Us1, Them0, Them1, Next1

LEMMA HolderStep ==
  ASSUME CascadeInv, Rests \/ \E w \in Worker : Acquires(w) \/ Releases(w)
  PROVE  HolderInv'
<1>1. \A u \in Worker : Pos(u) \in 0..12
  BY PosType DEF CascadeInv
<1>2. HolderInv /\ holder \in [LockId -> Worker \cup {None}]
  BY DEF CascadeInv, TypeOK
<1> SUFFICES ASSUME NEW l \in LockId, NEW u \in Worker
             PROVE  holder'[l] = u <=> HoldsAt(u, Pos(u)', l)
  BY HolderPrimed
<1>3. holder[l] = u <=> HoldsAt(u, Pos(u), l)
  BY <1>2 DEF HolderInv
<1>4. ~HoldsAt(u, 0, l) /\ ~HoldsAt(u, 12, l)
  BY Transfer
<1>5. CASE Rests
  BY <1>3, <1>4, <1>5 DEF Rests, Still, Closes
<1>6. ASSUME NEW w \in Worker, Acquires(w)
      PROVE  holder'[l] = u <=> HoldsAt(u, Pos(u)', l)
  <2>1. Pos(w) \in 0..11 /\ Pos(w) \in Blocking
    BY <1>6 DEF Acquires, Blocking
  <2> DEFINE m == LockAt(w, Pos(w))
  <2>2. m \in LockId /\ holder[m] = None
    BY <1>2, <1>6, <2>1, Transfer DEF Acquires, HolderInv
  <2>3. CASE u = w
    <3>1. HoldsAt(w, Pos(w) + 1, l) <=> HoldsAt(w, Pos(w), l) \/ l = m
      BY <2>1, Transfer
    <3> QED
      BY <1>2, <1>3, <1>6, <2>2, <2>3, <3>1 DEF Acquires, Forward
  <2>4. CASE u # w
    <3>1. Pos(u)' = Pos(u)
      BY <1>6, <2>4 DEF Acquires, Forward, Still
    <3>2. holder'[l] = IF l = m THEN w ELSE holder[l]
      BY <1>2, <1>6, <2>2 DEF Acquires
    <3>3. u # None
      BY CascadeAssumption
    <3> QED
      BY <1>3, <2>2, <2>4, <3>1, <3>2, <3>3
  <2> QED
    BY <2>3, <2>4
<1>7. ASSUME NEW w \in Worker, Releases(w)
      PROVE  holder'[l] = u <=> HoldsAt(u, Pos(u)', l)
  <2>1. Pos(w) \in 0..11 /\ Pos(w) \in Unblocking
    BY <1>7 DEF Releases, Unblocking
  <2> DEFINE m == LockAt(w, Pos(w))
  <2>2. m \in LockId /\ holder[m] = w
    BY <1>2, <2>1, Transfer DEF HolderInv
  <2>3. holder' = [holder EXCEPT ![m] = None]
    BY <1>7, <2>2 DEF Releases, Released
  <2>4. u # None
    BY CascadeAssumption
  <2>5. CASE u = w
    <3>1. HoldsAt(w, Pos(w) + 1, l) <=> HoldsAt(w, Pos(w), l) /\ l # m
      BY <2>1, Transfer
    <3>2. Pos(w)' = Pos(w) + 1 \/ (Pos(w) + 1 = 12 /\ Pos(w)' = 0)
      BY <1>7 DEF Releases, Forward, Closes
    <3> QED
      BY <1>2, <1>3, <1>4, <2>3, <2>4, <2>5, <3>1, <3>2
  <2>6. CASE u # w
    <3>1. Pos(u)' = Pos(u) \/ (Pos(u) = 12 /\ Pos(u)' = 0)
      BY <1>7, <2>6 DEF Releases, Forward, Closes, Still
    <3>2. holder'[l] = IF l = m THEN None ELSE holder[l]
      BY <1>2, <2>2, <2>3
    <3> QED
      BY <1>3, <1>4, <2>2, <2>4, <2>6, <3>1, <3>2
  <2> QED
    BY <2>5, <2>6
<1> QED
  BY <1>5, <1>6, <1>7

LEMMA RingPrimed ==
  (/\ \A v, w \in Worker : v < w =>
        /\ Pos(w)' >= 2 => Pos(v)' >= 5
        /\ Pos(w)' >= 6 => Pos(v)' >= 9
        /\ Pos(w)' >= 10 => Pos(v)' >= 11
   /\ Pos(0)' >= 6 => Pos(Last)' >= 5
   /\ Pos(0)' >= 10 => Pos(Last)' >= 9)
  => RingInv'
  BY DEF RingInv, Last

\* A worker that may block its next move's lock knows how far its predecessor
\* has come, because the predecessor holds that lock until it is there.
LEMMA Behind ==
  ASSUME CascadeInv, NEW w \in Worker, Acquires(w)
  PROVE  /\ w > 0 =>
              /\ w - 1 \in Worker
              /\ Pos(w) = 1 => Pos(w - 1) >= 5
              /\ Pos(w) = 5 => Pos(w - 1) >= 9
              /\ Pos(w) = 9 => Pos(w - 1) >= 11
         /\ w = 0 =>
              /\ Pos(w) = 5 => Pos(Last) >= 5
              /\ Pos(w) = 9 => Pos(Last) >= 9
<1>1. \A u \in Worker : Pos(u) \in 0..12
  BY PosType DEF CascadeInv
<1>2. HolderInv /\ RingInv
  BY DEF CascadeInv
<1> DEFINE m == LockAt(w, Pos(w))
<1>3. m \in LockId /\ Pos(w) \in 0..11
  <2>1. Pos(w) \in 0..11
    BY DEF Acquires, Blocking
  <2>2. <<w, 0>> \in LockId
    BY DEF LockId
  <2> QED
    BY <2>1, <2>2, Transfer
<1>4. \A u \in Worker : ~HoldsAt(u, Pos(u), m)
  <2>1. holder[m] \in {None, w}
    BY DEF Acquires
  <2>2. holder[m] # w
    BY <1>2, <1>3, Transfer DEF HolderInv, Acquires
  <2> QED
    BY <1>2, <1>3, <2>1, <2>2, CascadeAssumption DEF HolderInv
<1>5. Pos(w) >= 1 => \A u \in Worker : Pos(u) >= 1
  BY DEF Acquires
<1>6. ASSUME w > 0
      PROVE  /\ w - 1 \in Worker
             /\ Pos(w) = 1 => Pos(w - 1) >= 5
             /\ Pos(w) = 5 => Pos(w - 1) >= 9
             /\ Pos(w) = 9 => Pos(w - 1) >= 11
  <2>1. w - 1 \in Worker /\ w - 1 < w /\ w - 1 < Last
    BY <1>6, RingType DEF Worker, Last
  <2>2. Them0(w - 1) = Us0(w) /\ Them1(w - 1) = Us1(w)
    BY <1>6, <2>1, Locks, RingType DEF Worker
  <2>3. CASE Pos(w) = 1
    <3>1. ~HoldsAt(w - 1, Pos(w - 1), Them0(w - 1))
      BY <1>4, <2>1, <2>2, <2>3 DEF LockAt
    <3>2. Pos(w - 1) \notin {1, 2, 3, 4}
      BY <3>1 DEF HoldsAt
    <3>3. Pos(w - 1) \in 0..12 /\ Pos(w - 1) >= 1
      BY <1>1, <1>5, <2>1, <2>3
    <3> QED
      BY <2>1, <2>3, <3>2, <3>3
  <2>4. CASE Pos(w) = 5
    <3>1. ~HoldsAt(w - 1, Pos(w - 1), Them1(w - 1))
      BY <1>4, <2>1, <2>2, <2>4 DEF LockAt
    <3>2. Pos(w - 1) \notin {5, 6, 7, 8}
      BY <3>1 DEF HoldsAt
    <3>3. Pos(w - 1) \in 0..12 /\ Pos(w - 1) >= 5
      BY <1>1, <1>2, <2>1, <2>4 DEF RingInv
    <3> QED
      BY <2>1, <2>4, <3>2, <3>3
  <2>5. CASE Pos(w) = 9
    <3>1. ~HoldsAt(w - 1, Pos(w - 1), Them0(w - 1))
      BY <1>4, <2>1, <2>2, <2>5 DEF LockAt
    <3>2. Pos(w - 1) \notin {9, 10}
      BY <3>1 DEF HoldsAt
    <3>3. Pos(w - 1) \in 0..12 /\ Pos(w - 1) >= 9
      BY <1>1, <1>2, <2>1, <2>5 DEF RingInv
    <3> QED
      BY <2>1, <2>5, <3>2, <3>3
  <2> QED
    BY <2>1, <2>3, <2>4, <2>5
<1>7. ASSUME w = 0
      PROVE  /\ Pos(w) = 5 => Pos(Last) >= 5
             /\ Pos(w) = 9 => Pos(Last) >= 9
  <2>1. Last \in Worker /\ Them0(Last) = Us1(w) /\ Them1(Last) = Us0(w)
    BY <1>7, Locks, RingType
  <2>2. CASE Pos(w) = 5
    <3>1. ~HoldsAt(Last, Pos(Last), Them0(Last))
      BY <1>4, <2>1, <2>2 DEF LockAt
    <3>2. Pos(Last) \notin {1, 2, 3, 4}
      BY <3>1 DEF HoldsAt
    <3>3. Pos(Last) \in 0..12 /\ Pos(Last) >= 1
      BY <1>1, <1>5, <2>1, <2>2
    <3> QED
      BY <2>2, <3>2, <3>3
  <2>3. CASE Pos(w) = 9
    <3>1. ~HoldsAt(Last, Pos(Last), Them1(Last))
      BY <1>4, <2>1, <2>3 DEF LockAt
    <3>2. Pos(Last) \notin {5, 6, 7, 8}
      BY <3>1 DEF HoldsAt
    <3>3. Pos(Last) \in 0..12 /\ Pos(Last) >= 5
      BY <1>1, <1>2, <1>7, <2>1, <2>3 DEF RingInv
    <3> QED
      BY <2>3, <3>2, <3>3
  <2> QED
    BY <2>2, <2>3
<1> QED
  BY <1>6, <1>7 DEF Worker

\* Only these three moves depend on the others.
LEMMA RingForward ==
  ASSUME CascadeInv, NEW w \in Worker, Forward(w),
         Pos(w) \notin {1, 5, 9} \/ Acquires(w), Pos(w) \in 0..11
  PROVE  RingInv'
<1>1. \A u \in Worker : Pos(u) \in 0..12
  BY PosType DEF CascadeInv
<1>2. RingInv
  BY DEF CascadeInv
<1>3. \A u \in Worker : Pos(u)' = IF u = w THEN Pos(w) + 1 ELSE Pos(u)
  BY DEF Forward, Still
<1>4. ASSUME NEW v \in Worker, NEW u \in Worker, v < u
      PROVE  /\ Pos(u)' >= 2 => Pos(v)' >= 5
             /\ Pos(u)' >= 6 => Pos(v)' >= 9
             /\ Pos(u)' >= 10 => Pos(v)' >= 11
  <2>1. /\ Pos(u) >= 2 => Pos(v) >= 5
        /\ Pos(u) >= 6 => Pos(v) >= 9
        /\ Pos(u) >= 10 => Pos(v) >= 11
    BY <1>2, <1>4 DEF RingInv
  <2>2. CASE u # w
    BY <1>1, <1>3, <2>1, <2>2
  <2>3. CASE u = w
    <3>1. Pos(v)' = Pos(v) /\ Pos(u)' = Pos(u) + 1
      BY <1>3, <1>4, <2>3 DEF Worker
    <3>2. CASE Pos(w) \notin {1, 5, 9}
      BY <1>1, <2>1, <2>3, <3>1, <3>2
    <3>3. CASE Acquires(w)
      <4>1. /\ w - 1 \in Worker
            /\ Pos(w) = 1 => Pos(w - 1) >= 5
            /\ Pos(w) = 5 => Pos(w - 1) >= 9
            /\ Pos(w) = 9 => Pos(w - 1) >= 11
        BY <1>4, <2>3, <3>3, Behind DEF Worker
      <4>2. v = w - 1 \/ v < w - 1
        BY <1>4, <2>3 DEF Worker
      <4>3. v < w - 1 =>
              /\ Pos(w - 1) >= 2 => Pos(v) >= 5
              /\ Pos(w - 1) >= 6 => Pos(v) >= 9
              /\ Pos(w - 1) >= 10 => Pos(v) >= 11
        BY <1>2, <4>1 DEF RingInv
      <4>4. /\ Pos(w) = 1 => Pos(v) >= 5
            /\ Pos(w) = 5 => Pos(v) >= 9
            /\ Pos(w) = 9 => Pos(v) >= 11
        BY <1>1, <4>1, <4>2, <4>3
      <4> QED
        BY <1>1, <2>1, <2>3, <3>1, <4>4
    <3> QED
      BY <3>2, <3>3
  <2> QED
    BY <2>2, <2>3
<1>5. /\ Pos(0)' >= 6 => Pos(Last)' >= 5
      /\ Pos(0)' >= 10 => Pos(Last)' >= 9
  <2>1. /\ Pos(0) >= 6 => Pos(Last) >= 5
        /\ Pos(0) >= 10 => Pos(Last) >= 9
        /\ 0 \in Worker /\ Last \in Worker
    BY <1>2, RingType DEF RingInv
  <2>2. CASE w # 0
    BY <1>1, <1>3, <2>1, <2>2
  <2>3. CASE w = 0
    <3>1. Pos(0) \in {5, 9} =>
            (Pos(0) = 5 => Pos(Last) >= 5) /\ (Pos(0) = 9 => Pos(Last) >= 9)
      BY <2>3, Behind
    <3> QED
      BY <1>1, <1>3, <2>1, <2>3, <3>1
  <2> QED
    BY <2>2, <2>3
<1> QED
  BY <1>4, <1>5, RingPrimed

LEMMA RingStep ==
  ASSUME CascadeInv, Rests \/ \E w \in Worker : Acquires(w) \/ Releases(w)
  PROVE  RingInv'
<1>1. ASSUME \A u \in Worker : Pos(u)' = 0
      PROVE  RingInv'
  BY <1>1, RingPrimed, RingType
<1>2. CASE \A u \in Worker : Still(u)
  BY <1>2, RingPrimed, RingType DEF CascadeInv, RingInv, Still
<1>3. ASSUME NEW w \in Worker, Acquires(w)
      PROVE  RingInv'
  <2>1. Forward(w) /\ Pos(w) \in 0..11
    BY <1>3 DEF Acquires, Blocking
  <2> QED
    BY <1>3, <2>1, RingForward
<1>4. ASSUME NEW w \in Worker, Releases(w)
      PROVE  RingInv'
  BY <1>1, <1>4, RingForward DEF Releases, Unblocking, Closes
<1> QED
  BY <1>1, <1>2, <1>3, <1>4 DEF Rests, Closes

(***************************************************************************)
(* Every step is one of these.                                             *)
(***************************************************************************)
LEMMA PcPrimed ==
  (\A w \in Worker :
     /\ stage'[w] \in {"between", "measured", "stopped"} => pc'[w] = 0
     /\ stage'[w] = "ready" => pc'[w] = 1
     /\ stage'[w] = "timed" => pc'[w] \in 1..11
     /\ owed'[w] # None => stage'[w] = "timed" /\ pc'[w] \in Unblocking)
  => PcInv'
  BY DEF PcInv, Unblocking

LEMMA PosPrimed ==
  ASSUME NEW w \in Worker
  PROVE  Pos(w)' = IF stage'[w] = "measured" THEN 12
                   ELSE IF owed'[w] # None THEN pc'[w] + 1 ELSE pc'[w]
  BY DEF Pos

LEMMA InvFacts ==
  CascadeInv =>
    /\ stage \in [Worker -> {"between", "ready", "timed", "measured", "stopped"}]
    /\ pc \in [Worker -> 0..11]
    /\ owed \in [Worker -> LockId \cup {None}]
    /\ PcInv /\ R!LockstepInv /\ kind # "flock"
    /\ (\A w \in Worker : stage[w] \in {"between", "ready", "stopped"})
         \/ (\A w \in Worker : stage[w] \in {"timed", "measured"})
  BY DEF CascadeInv, TypeOK, R!LockstepInv, R!TypeOK, R!Stage,
     R!Untimed, R!Timed

\* The operation is over: its signal, if any, has been sent.
LEMMA AdvanceStep ==
  ASSUME CascadeInv, NEW w \in Worker, Advance(w),
         stage[w] \in {"between", "timed"},
         owed' = [owed EXCEPT ![w] = None]
  PROVE  /\ R!LockstepInv' /\ R!TypeOK' /\ PcInv'
         /\ pc' \in [Worker -> 0..11]
         /\ \/ Pos(w)' = pc[w] + 1 /\ \A u \in Worker \ {w} : Still(u)
            \/ pc[w] = 11 /\ Closes(w)
<1>1. /\ stage \in [Worker -> {"between", "ready", "timed", "measured", "stopped"}]
      /\ pc \in [Worker -> 0..11]
      /\ owed \in [Worker -> LockId \cup {None}]
      /\ PcInv /\ R!LockstepInv /\ kind # "flock"
      /\ (\A u \in Worker : stage[u] \in {"between", "ready", "stopped"})
           \/ (\A u \in Worker : stage[u] \in {"timed", "measured"})
  BY InvFacts
<1>2. Len(Script(w)) = 11 /\ pc[w] \in 0..11
  BY <1>1, Script11
<1>3. \A u \in Worker : owed'[u] = IF u = w THEN None ELSE owed[u]
  BY <1>1
<1>4. CASE pc[w] = 0
  <2>1. pc' = [pc EXCEPT ![w] = 1] /\ R!FinishPre(w)
    BY <1>4 DEF Advance
  <2>2. R!LockstepInv' /\ R!TypeOK'
    BY <1>1, <2>1, RoundStep
  <2>3. stage[w] = "between"
    BY <2>1 DEF R!FinishPre
  <2>4. \A u \in Worker : stage[u] \in {"between", "ready", "stopped"} /\ owed[u] = None
    BY <1>1, <2>3 DEF PcInv
  <2>5. \/ (\A u \in Worker \ {w} : stage[u] = "ready")
             /\ \A u \in Worker : stage'[u] = "timed"
        \/ \A u \in Worker : stage'[u] = IF u = w THEN "ready" ELSE stage[u]
    BY <1>1, <2>1 DEF R!FinishPre, R!OthersAre
  <2>6. \A u \in Worker : owed'[u] = None /\ pc'[u] = IF u = w THEN 1 ELSE pc[u]
    BY <1>1, <1>3, <2>1, <2>4
  <2>7. \A u \in Worker : stage'[u] # "measured"
    BY <2>4, <2>5
  <2>8. PcInv'
    BY <1>1, <2>4, <2>5, <2>6, PcPrimed DEF PcInv
  <2>9. Pos(w)' = pc[w] + 1 /\ \A u \in Worker \ {w} : Still(u)
    BY <1>4, <2>4, <2>6, <2>7, PosPrimed DEF Still, Pos
  <2> QED
    BY <1>1, <2>1, <2>2, <2>8, <2>9
<1>5. CASE pc[w] \in 1..10
  <2>1. pc' = [pc EXCEPT ![w] = @ + 1] /\ UNCHANGED <<stage, go>>
    BY <1>2, <1>5 DEF Advance
  <2>2. R!LockstepInv' /\ R!TypeOK'
    BY <1>1, <2>1, RoundSame
  <2>3. stage[w] = "timed"
    BY <1>1, <1>5 DEF PcInv
  <2>4. \A u \in Worker : pc'[u] = IF u = w THEN pc[w] + 1 ELSE pc[u]
    BY <1>1, <2>1
  <2>5. PcInv'
    BY <1>1, <1>3, <1>5, <2>1, <2>3, <2>4, PcPrimed DEF PcInv
  <2>6. Pos(w)' = pc[w] + 1 /\ \A u \in Worker \ {w} : Still(u)
    BY <1>3, <2>1, <2>3, <2>4, PosPrimed DEF Still, Pos
  <2>7. pc' \in [Worker -> 0..11]
    BY <1>1, <1>5, <2>1
  <2> QED
    BY <2>2, <2>5, <2>6, <2>7
<1>6. CASE pc[w] = 11
  <2>1. pc' = [pc EXCEPT ![w] = 0] /\ R!FinishBenchmark(w)
    BY <1>2, <1>6 DEF Advance
  <2>2. R!LockstepInv' /\ R!TypeOK'
    BY <1>1, <2>1, RoundStep
  <2>3. \A u \in Worker : pc'[u] = IF u = w THEN 0 ELSE pc[u]
    BY <1>1, <2>1
  <2>4. CASE \A u \in Worker \ {w} : stage[u] = "measured"
    <3>1. \A u \in Worker : stage'[u] = "between"
      BY <1>1, <2>1, <2>4 DEF R!FinishBenchmark, R!OthersAre
    <3>2. \A u \in Worker : owed'[u] = None /\ pc'[u] = 0
      BY <1>1, <1>3, <2>3, <2>4 DEF PcInv
    <3>3. PcInv'
      BY <3>1, <3>2, PcPrimed
    <3>4. Closes(w)
      BY <2>4, <3>1, <3>2, PosPrimed DEF Closes, Pos
    <3> QED
      BY <1>1, <1>6, <2>1, <2>2, <3>3, <3>4
  <2>5. CASE ~\A u \in Worker \ {w} : stage[u] = "measured"
    <3>1. \A u \in Worker : stage'[u] = IF u = w THEN "measured" ELSE stage[u]
      BY <1>1, <2>1, <2>5 DEF R!FinishBenchmark, R!OthersAre
    <3>2. PcInv'
      BY <1>1, <1>3, <2>3, <3>1, PcPrimed DEF PcInv
    <3>3. Pos(w)' = pc[w] + 1 /\ \A u \in Worker \ {w} : Still(u)
      BY <1>3, <1>6, <2>3, <3>1, PosPrimed DEF Still, Pos
    <3> QED
      BY <1>1, <2>1, <2>2, <3>2, <3>3
  <2> QED
    BY <2>4, <2>5
<1> QED
  BY <1>2, <1>4, <1>5, <1>6

\* A worker that is running is at the position its pc says.
LEMMA RunningFacts ==
  ASSUME CascadeInv, NEW w \in Worker, Running(w)
  PROVE  /\ Pos(w) = pc[w] /\ pc[w] \in 0..11 /\ owed[w] = None
         /\ [owed EXCEPT ![w] = None] = owed
         /\ stage[w] = IF pc[w] = 0 THEN "between" ELSE "timed"
         /\ Operation(w) = [op |-> IF pc[w] \in Blocking THEN "block" ELSE "unblock",
                            lock |-> LockAt(w, Pos(w))]
         /\ LockAt(w, Pos(w)) \in LockId
         /\ Pos(w) >= 1 => \A u \in Worker : Pos(u) >= 1
<1>1. /\ stage \in [Worker -> {"between", "ready", "timed", "measured", "stopped"}]
      /\ pc \in [Worker -> 0..11]
      /\ owed \in [Worker -> LockId \cup {None}]
      /\ PcInv /\ kind # "flock"
      /\ (\A u \in Worker : stage[u] \in {"between", "ready", "stopped"})
           \/ (\A u \in Worker : stage[u] \in {"timed", "measured"})
  BY InvFacts
<1>2. /\ pc[w] \in 0..11 /\ owed[w] = None
      /\ stage[w] = IF pc[w] = 0 THEN "between" ELSE "timed"
  BY <1>1 DEF Running
<1>3. Pos(w) = pc[w]
  BY <1>2 DEF Pos
<1>4. Operation(w) = [op |-> IF pc[w] \in Blocking THEN "block" ELSE "unblock",
                      lock |-> LockAt(w, Pos(w))]
  BY <1>1, <1>2, <1>3, Script11
<1>5. LockAt(w, Pos(w)) \in LockId
  <2>1. <<w, 0>> \in LockId
    BY DEF LockId
  <2> QED
    BY <1>2, <1>3, <2>1, Transfer
<1>6. ASSUME Pos(w) >= 1, NEW u \in Worker
      PROVE  Pos(u) >= 1
  <2>1. stage[w] = "timed"
    BY <1>2, <1>3, <1>6
  <2>2. stage[u] \in {"timed", "measured"}
    BY <1>1, <2>1
  <2>3. stage[u] = "timed" => pc[u] \in 1..11
    BY <1>1 DEF PcInv
  <2> QED
    BY <2>2, <2>3 DEF Pos
<1> QED
  BY <1>1, <1>2, <1>3, <1>4, <1>5, <1>6

\* What a step has to establish.
Moved ==
  /\ R!LockstepInv' /\ TypeOK' /\ UNCHANGED kind /\ PcInv'
  /\ Rests \/ \E w \in Worker : Acquires(w) \/ Releases(w)

LEMMA TypeFacts ==
  CascadeInv =>
    /\ kind \in Kinds /\ kind # "flock"
    /\ holder \in [LockId -> Worker \cup {None}]
    /\ pc \in [Worker -> 0..11]
    /\ asleep \in [Worker -> BOOLEAN]
    /\ owed \in [Worker -> LockId \cup {None}]
  BY DEF CascadeInv, TypeOK

LEMMA SignalType ==
  ASSUME asleep \in [Worker -> BOOLEAN], NEW l, Signal(l)
  PROVE  asleep' \in [Worker -> BOOLEAN]
  BY DEF Signal, Sleepers

\* Where no primitive but flock is used, a free lock is one nobody else holds.
LEMMA MayBlockFacts ==
  ASSUME CascadeInv, NEW w \in Worker, NEW l \in LockId
  PROVE  /\ MayBlock(w, l) => holder[l] \in {None, w}
         /\ ~MayBlock(w, l) => holder[l] # None
<1>1. kind \in {"mutex", "cond", "cond_o", "lockf", "fcntl"}
  BY TypeFacts, CascadeAssumption
<1> QED
  BY <1>1 DEF MayBlock, MutexFree, CondFree, RecordFree

LEMMA BlockStep ==
  ASSUME CascadeInv, NEW w \in Worker, DoBlock(w)
  PROVE  Moved
<1>1. Running(w) /\ Operation(w).op = "block"
  BY DEF DoBlock
<1> DEFINE l == Operation(w).lock
<1>2. /\ Pos(w) = pc[w] /\ pc[w] \in Blocking /\ l = LockAt(w, Pos(w))
      /\ l \in LockId /\ [owed EXCEPT ![w] = None] = owed
      /\ stage[w] \in {"between", "timed"}
      /\ Pos(w) >= 1 => \A u \in Worker : Pos(u) >= 1
  BY <1>1, RunningFacts
<1>3. /\ MayBlock(w, l) /\ holder' = [holder EXCEPT ![l] = w] /\ Advance(w)
      /\ UNCHANGED <<kind, asleep, owed>>
  BY DEF DoBlock
<1>4. /\ R!LockstepInv' /\ R!TypeOK' /\ PcInv' /\ pc' \in [Worker -> 0..11]
      /\ Forward(w)
  <2>1. pc[w] # 11
    BY <1>2 DEF Blocking
  <2> QED
    BY <1>2, <1>3, <2>1, AdvanceStep DEF Forward
<1>5. TypeOK' /\ UNCHANGED kind
  BY <1>2, <1>3, <1>4, TypeFacts DEF TypeOK
<1>6. holder[l] \in {None, w}
  BY <1>2, <1>3, MayBlockFacts
<1>7. Acquires(w)
  BY <1>2, <1>3, <1>4, <1>6 DEF Acquires
<1> QED
  BY <1>4, <1>5, <1>7 DEF Moved

LEMMA UnblockStep ==
  ASSUME CascadeInv, NEW w \in Worker, DoUnblock(w)
  PROVE  Moved
<1>1. Running(w) /\ Operation(w).op = "unblock"
  BY DEF DoUnblock
<1> DEFINE l == Operation(w).lock
<1>2. /\ Pos(w) = pc[w] /\ pc[w] \in 0..11 /\ pc[w] \notin Blocking
      /\ l = LockAt(w, Pos(w))
      /\ l \in LockId /\ [owed EXCEPT ![w] = None] = owed
      /\ stage[w] \in {"between", "timed"}
  BY <1>1, RunningFacts
<1>3. /\ holder' = Released(w, l) /\ Advance(w) /\ UNCHANGED <<kind, owed>>
      /\ Signal(l) \/ UNCHANGED asleep
  BY DEF DoUnblock
<1>4. pc[w] \in Unblocking
  BY <1>2 DEF Blocking, Unblocking
<1>5. /\ R!LockstepInv' /\ R!TypeOK' /\ PcInv' /\ pc' \in [Worker -> 0..11]
      /\ Forward(w) \/ (Pos(w) = 11 /\ Closes(w))
  BY <1>2, <1>3, AdvanceStep DEF Forward
<1>6. TypeOK' /\ UNCHANGED kind
  <2>1. holder' \in [LockId -> Worker \cup {None}]
    BY <1>2, <1>3, TypeFacts DEF Released
  <2>2. asleep' \in [Worker -> BOOLEAN]
    BY <1>3, TypeFacts, SignalType
  <2> QED
    BY <1>3, <1>5, <2>1, <2>2, TypeFacts DEF TypeOK
<1>7. Releases(w)
  BY <1>2, <1>3, <1>4, <1>5 DEF Releases
<1> QED
  BY <1>5, <1>6, <1>7 DEF Moved

\* With -o the flag is cleared first: for the others the operation is over.
LEMMA ClearStep ==
  ASSUME CascadeInv, NEW w \in Worker, ClearFlag(w)
  PROVE  Moved
<1>1. Running(w) /\ Operation(w).op = "unblock"
  BY DEF ClearFlag
<1> DEFINE l == Operation(w).lock
<1>2. /\ Pos(w) = pc[w] /\ pc[w] \in 0..11 /\ pc[w] \notin Blocking
      /\ l = LockAt(w, Pos(w)) /\ l \in LockId
      /\ stage[w] = IF pc[w] = 0 THEN "between" ELSE "timed"
  BY <1>1, RunningFacts
<1>3. /\ holder' = Released(w, l) /\ owed' = [owed EXCEPT ![w] = l]
      /\ UNCHANGED <<stage, go, kind, pc, asleep>>
  BY DEF ClearFlag
<1>4. pc[w] \in Unblocking /\ stage[w] = "timed" /\ l # None
  BY <1>2, CascadeAssumption DEF Blocking, Unblocking
<1>5. R!LockstepInv' /\ R!TypeOK'
  BY <1>3, RoundSame DEF CascadeInv
<1>6. \A u \in Worker : owed'[u] = IF u = w THEN l ELSE owed[u]
  BY <1>3, TypeFacts
<1>7. PcInv'
  BY <1>3, <1>4, <1>6, PcPrimed DEF CascadeInv, PcInv
<1>8. Forward(w)
  BY <1>2, <1>3, <1>4, <1>6, PosPrimed DEF Forward, Still, Pos
<1>9. TypeOK' /\ UNCHANGED kind
  <2>1. holder' \in [LockId -> Worker \cup {None}]
    BY <1>2, <1>3, TypeFacts DEF Released
  <2> QED
    BY <1>2, <1>3, <1>5, <2>1, TypeFacts DEF TypeOK
<1>10. Releases(w)
  BY <1>2, <1>3, <1>4, <1>8 DEF Releases
<1> QED
  BY <1>5, <1>7, <1>9, <1>10 DEF Moved

LEMMA LateStep ==
  ASSUME CascadeInv, NEW w \in Worker, SignalLate(w)
  PROVE  Moved
<1>1. /\ owed[w] # None /\ Signal(owed[w]) /\ Advance(w)
      /\ owed' = [owed EXCEPT ![w] = None] /\ UNCHANGED <<kind, holder>>
  BY DEF SignalLate
<1>2. stage[w] = "timed" /\ Pos(w) = pc[w] + 1
  BY <1>1 DEF CascadeInv, PcInv, Pos
<1>3. /\ R!LockstepInv' /\ R!TypeOK' /\ PcInv' /\ pc' \in [Worker -> 0..11]
      /\ \/ Pos(w)' = pc[w] + 1 /\ \A u \in Worker \ {w} : Still(u)
         \/ pc[w] = 11 /\ Closes(w)
  BY <1>1, <1>2, AdvanceStep
<1>4. TypeOK' /\ UNCHANGED kind
  <2>1. asleep' \in [Worker -> BOOLEAN]
    BY <1>1, TypeFacts, SignalType
  <2>2. owed' \in [Worker -> LockId \cup {None}]
    BY <1>1, TypeFacts
  <2> QED
    BY <1>1, <1>3, <2>1, <2>2, TypeFacts DEF TypeOK
<1>5. Rests
  BY <1>1, <1>2, <1>3 DEF Rests, Still
<1> QED
  BY <1>3, <1>4, <1>5 DEF Moved

\* The harness lets a worker that is between two rounds go, or asks for the end.
LEMMA HarnessStep ==
  ASSUME CascadeInv, NEW w \in Worker, Harness(w)
  PROVE  Moved
<1>1. (R!Halt(w) \/ R!Stop(w)) /\ UNCHANGED <<kind, holder, pc, asleep, owed>>
  BY DEF Harness
<1>2. R!LockstepInv' /\ R!TypeOK'
  BY <1>1, RoundStep DEF CascadeInv
<1>3. \A u \in Worker :
        stage'[u] = stage[u] \/ (stage[u] = "between" /\ stage'[u] = "stopped")
  BY <1>1, InvFacts DEF R!Halt, R!Stop
<1>4. PcInv'
  BY <1>1, <1>3, PcPrimed DEF CascadeInv, PcInv
<1>5. \A u \in Worker : Still(u)
  BY <1>1, <1>3, PosPrimed DEF Still, Pos
<1>6. TypeOK' /\ UNCHANGED kind
  BY <1>1, <1>2, TypeFacts DEF TypeOK
<1> QED
  BY <1>1, <1>2, <1>4, <1>5, <1>6 DEF Moved, Rests

\* Going to sleep, waking up and doing nothing.
LEMMA SleepStep ==
  ASSUME CascadeInv, UNCHANGED <<stage, go, kind, holder, pc, owed>>,
         asleep' \in [Worker -> BOOLEAN]
  PROVE  Moved
<1>1. R!LockstepInv' /\ R!TypeOK'
  BY RoundSame DEF CascadeInv
<1>2. PcInv'
  BY PcPrimed DEF CascadeInv, PcInv
<1>3. \A u \in Worker : Still(u)
  BY PosPrimed DEF Still, Pos
<1>4. TypeOK' /\ UNCHANGED kind
  BY <1>1, TypeFacts DEF TypeOK
<1> QED
  BY <1>1, <1>2, <1>3, <1>4 DEF Moved, Rests

LEMMA NextMoved == CascadeInv /\ [Next]_vars => Moved
<1> SUFFICES ASSUME CascadeInv, [Next]_vars PROVE Moved
  OBVIOUS
<1>1. CASE UNCHANGED vars
  BY <1>1, SleepStep, TypeFacts DEF vars
<1>2. ASSUME NEW w \in Worker, Step(w)
      PROVE  Moved
  <2>1. CASE DoWait(w)
    BY <2>1, SleepStep, TypeFacts DEF DoWait
  <2> QED
    BY <1>2, <2>1, BlockStep, UnblockStep, ClearStep, LateStep DEF Step
<1>3. ASSUME NEW w \in Worker, SpuriousWakeup(w)
      PROVE  Moved
  BY <1>3, SleepStep, TypeFacts DEF SpuriousWakeup
<1>4. ASSUME NEW w \in Worker, Harness(w)
      PROVE  Moved
  BY <1>4, HarnessStep
<1> QED
  BY <1>1, <1>2, <1>3, <1>4 DEF Next, Finished

(***************************************************************************)
(* The locks of every cascade but that of flock: where each worker is in   *)
(* its script says which locks it holds and bounds where the others are.   *)
(***************************************************************************)
THEOREM CascadeInvariant ==
  ASSUME "flock" \notin Kinds
  PROVE  Spec => []CascadeInv
<1>1. Init => CascadeInv
  BY InitCascade
<1>2. CascadeInv /\ [Next]_vars => CascadeInv'
  <2> SUFFICES ASSUME CascadeInv, [Next]_vars PROVE CascadeInv'
    OBVIOUS
  <2>1. Moved
    BY NextMoved
  <2>2. HolderInv' /\ RingInv'
    BY <2>1, HolderStep, RingStep DEF Moved
  <2> QED
    BY <2>1, <2>2 DEF Moved, CascadeInv
<1> QED
  BY <1>1, <1>2, PTL DEF Spec

(***************************************************************************)
(* Consequences.                                                           *)
(***************************************************************************)
\* A worker between two rounds holds nothing yet but the first lock of its
\* successor, and nobody is further than that.
LEMMA UntimedPos ==
  ASSUME CascadeInv, NEW w \in Worker, stage[w] \in {"between", "ready", "stopped"}
  PROVE  /\ \A u \in Worker : Pos(u) \in {0, 1}
         /\ stage[w] # "ready" => Pos(w) = 0
  BY InvFacts DEF PcInv, Pos

LEMMA HolderIsWorker ==
  ASSUME CascadeInv, NEW l \in LockId, holder[l] # None
  PROVE  holder[l] \in Worker /\ HoldsAt(holder[l], Pos(holder[l]), l)
  BY TypeFacts DEF CascadeInv, HolderInv

LEMMA OwnerHolds == CascadeInv => OwnerUnblocks
<1> SUFFICES ASSUME CascadeInv, NEW w \in Worker, Running(w)
             PROVE  LET l == Operation(w).lock IN
                      IF Operation(w).op = "unblock" THEN holder[l] = w
                                                     ELSE holder[l] # w
  BY DEF OwnerUnblocks
<1> DEFINE l == Operation(w).lock
<1>1. /\ Pos(w) \in 0..11 /\ l = LockAt(w, Pos(w)) /\ l \in LockId
      /\ Operation(w).op = IF Pos(w) \in Blocking THEN "block" ELSE "unblock"
  BY RunningFacts
<1>2. holder[l] = w <=> HoldsAt(w, Pos(w), l)
  BY <1>1 DEF CascadeInv, HolderInv
<1>3. HoldsAt(w, Pos(w), l) <=> Pos(w) \notin Blocking
  BY <1>1, Transfer
<1> QED
  BY <1>1, <1>2, <1>3

LEMMA BlockedInRound == CascadeInv => NothingBlocked
<1> SUFFICES ASSUME CascadeInv, NEW l \in LockId, holder[l] # None
             PROVE  stage[holder[l]] \in {"ready", "timed"}
  BY DEF NothingBlocked
<1> DEFINE h == holder[l]
<1>1. h \in Worker /\ HoldsAt(h, Pos(h), l)
  BY HolderIsWorker
<1>2. Pos(h) \notin {0, 12}
  BY <1>1 DEF HoldsAt
<1>3. stage[h] # "measured"
  BY <1>2 DEF Pos
<1>4. stage[h] \notin {"between", "stopped"}
  BY <1>1, <1>2, UntimedPos
<1> QED
  BY <1>1, <1>3, <1>4, InvFacts

LEMMA OneMore ==
  ASSUME NEW S, NEW x, IsFiniteSet(S), x \notin S
  PROVE  IsFiniteSet(S \cup {x}) /\ Cardinality(S \cup {x}) = Cardinality(S) + 1
  BY FS_AddElement

LEMMA MovesPos ==
  ASSUME CascadeInv, NEW w \in Worker
  PROVE  Moves(w) = IF Pos(w) >= 10 THEN 3
                    ELSE IF Pos(w) >= 6 THEN 2
                    ELSE IF Pos(w) >= 2 THEN 1 ELSE 0
<1>1. /\ stage[w] \in {"between", "ready", "timed", "measured", "stopped"}
      /\ stage[w] = "timed" => pc[w] \in 1..11
      /\ owed[w] # None => pc[w] \in Unblocking
  BY InvFacts DEF PcInv
<1>2. CASE stage[w] = "measured"
  BY <1>2 DEF Moves, Pos
<1>3. CASE stage[w] \in {"between", "ready", "stopped"}
  <2>1. Moves(w) = 0
    BY <1>3 DEF Moves
  <2> QED
    BY <1>3, <2>1, UntimedPos
<1>4. CASE stage[w] = "timed"
  <2> DEFINE D == {i \in {1, 5, 9} : i < pc[w]}
  <2>1. Moves(w) = Cardinality(D)
    BY <1>4 DEF Moves
  <2>2. /\ Cardinality({}) = 0 /\ Cardinality({1}) = 1
        /\ Cardinality({1} \cup {5}) = 2 /\ Cardinality(({1} \cup {5}) \cup {9}) = 3
    <3>0. IsFiniteSet({}) /\ Cardinality({}) = 0
      BY FS_EmptySet
    <3>1. IsFiniteSet({1}) /\ Cardinality({1}) = 1
      <4>1. IsFiniteSet({} \cup {1}) /\ Cardinality({} \cup {1}) = 0 + 1
        BY <3>0, OneMore, Zenon
      <4> QED
        BY <4>1
    <3>2. IsFiniteSet({1} \cup {5}) /\ Cardinality({1} \cup {5}) = 2
      BY <3>1, OneMore
    <3>3. Cardinality(({1} \cup {5}) \cup {9}) = 3
      BY <3>2, OneMore
    <3> QED
      BY <3>0, <3>1, <3>2, <3>3
  <2>3. pc[w] = 1 => D = {}
    OBVIOUS
  <2>4. pc[w] \in 2..5 => D = {1}
    OBVIOUS
  <2>5. pc[w] \in 6..9 => D = {1} \cup {5}
    OBVIOUS
  <2>6. pc[w] \in 10..11 => D = ({1} \cup {5}) \cup {9}
    OBVIOUS
  <2> HIDE DEF D
  <2>7. Cardinality(D) = IF pc[w] >= 10 THEN 3 ELSE IF pc[w] >= 6 THEN 2
                         ELSE IF pc[w] >= 2 THEN 1 ELSE 0
    BY <1>1, <1>4, <2>2, <2>3, <2>4, <2>5, <2>6
  <2>8. Pos(w) = pc[w] \/ (Pos(w) = pc[w] + 1 /\ pc[w] \in Unblocking)
    BY <1>1, <1>4 DEF Pos
  <2> QED
    BY <1>1, <1>4, <2>1, <2>7, <2>8 DEF Unblocking
<1> QED
  BY <1>1, <1>2, <1>3, <1>4

LEMMA InOrder == CascadeInv => RingOrder
<1> SUFFICES ASSUME CascadeInv PROVE RingOrder
  OBVIOUS
<1>1. RingInv /\ \A u \in Worker : Pos(u) \in 0..12
  BY PosType DEF CascadeInv
<1>2. ASSUME NEW w \in Worker \ {0}
      PROVE  Moves(w) <= Moves(w - 1)
  <2>1. w - 1 \in Worker /\ w - 1 < w
    BY <1>2, RingType DEF Worker
  <2>2. /\ Pos(w) >= 2 => Pos(w - 1) >= 5
        /\ Pos(w) >= 6 => Pos(w - 1) >= 9
        /\ Pos(w) >= 10 => Pos(w - 1) >= 11
    BY <1>1, <2>1 DEF RingInv
  <2> QED
    BY <1>1, <2>1, <2>2, MovesPos
<1>3. Moves(0) <= Moves(Last) + 1
  BY <1>1, RingType, MovesPos DEF RingInv
<1> QED
  BY <1>2, <1>3 DEF RingOrder, Last

(***************************************************************************)
(* Waiting.  A worker waits for its predecessor, or for a successor that   *)
(* is not waiting itself.                                                  *)
(***************************************************************************)
LEMMA WaitFacts ==
  ASSUME CascadeInv, NEW w \in Worker, NEW v \in Worker, WaitsFor(w, v)
  PROVE  /\ v # w /\ Pos(w) \in Blocking /\ Pos(w) # 0
         /\ HoldsAt(v, Pos(v), LockAt(w, Pos(w)))
         /\ Pos(v) >= 1
<1>1. /\ Operation(w).op = "block" /\ stage[w] \in {"between", "timed"}
      /\ ~MayBlock(w, Operation(w).lock) /\ holder[Operation(w).lock] = v
  BY DEF WaitsFor
<1>2. /\ pc[w] \in 0..11 /\ PcInv /\ kind # "flock"
      /\ (\A u \in Worker : stage[u] \in {"between", "ready", "stopped"})
           \/ (\A u \in Worker : stage[u] \in {"timed", "measured"})
  BY InvFacts
<1>3. pc[w] \in Blocking
  BY <1>1, <1>2, Script11
<1>4. Pos(w) = pc[w] /\ Pos(w) \in 0..11
  BY <1>1, <1>2, <1>3 DEF PcInv, Pos, Blocking, Unblocking
<1> DEFINE l == LockAt(w, Pos(w))
<1>5. Operation(w).lock = l /\ l \in LockId
  <2>1. <<w, 0>> \in LockId
    BY DEF LockId
  <2> QED
    BY <1>2, <1>4, <2>1, Script11, Transfer
<1>6. HoldsAt(v, Pos(v), l) /\ Pos(v) \in 0..12
  BY <1>1, <1>5, PosType DEF CascadeInv, HolderInv
<1>7. v # w
  BY <1>3, <1>4, <1>5, <1>6, Transfer
<1>8. Pos(w) # 0
  <2> SUFFICES ASSUME Pos(w) = 0 PROVE FALSE
    OBVIOUS
  <2>1. stage[w] = "between"
    BY <1>1, <1>2, <1>4 DEF PcInv
  <2>2. Pos(v) = 1 /\ Them0(v) = Them0(w)
    BY <1>6, <2>1, UntimedPos DEF HoldsAt, LockAt
  <2> QED
    BY <1>7, <2>2, Locks, RingType DEF Worker, Last
<1>9. Pos(v) >= 1
  BY <1>6 DEF HoldsAt
<1> QED
  BY <1>3, <1>4, <1>6, <1>7, <1>8, <1>9

\* What it means that one waiting worker waits for another one.
LEMMA WaitChain ==
  ASSUME CascadeInv, NEW w \in Worker, NEW v \in Worker, WaitsFor(w, v),
         Pos(v) \in Blocking
  PROVE  /\ Pos(w) \in {1, 5, 9}
         /\ w > 0 =>
              /\ v = w - 1
              /\ Pos(w) = 1 => Pos(v) \in {1, 3, 9}
              /\ Pos(w) = 5 => Pos(v) \in {5, 7}
              /\ Pos(w) = 9 => Pos(v) = 9
         /\ w = 0 =>
              /\ v = Last /\ Last > 0 /\ Pos(w) # 1
              /\ Pos(w) = 5 => Pos(v) \in {1, 3}
              /\ Pos(w) = 9 => Pos(v) \in {5, 7}
<1>1. /\ v # w /\ Pos(w) \in Blocking /\ Pos(w) # 0
      /\ HoldsAt(v, Pos(v), LockAt(w, Pos(w)))
  BY WaitFacts
<1>2. RingInv
  BY DEF CascadeInv
<1>3. /\ w \in Nat /\ v \in Nat /\ w <= Last /\ v <= Last /\ Last \in Nat
      /\ 0 \in Worker /\ Last \in Worker
  BY RingType DEF Worker, Last
<1>4. Pos(v) \notin {2, 4, 6, 8, 10, 11} /\ Pos(v) \in {0, 1, 3, 5, 7, 9}
  BY DEF Blocking
<1>5. /\ v = Last => Them0(v) = <<0, 1>> /\ Them1(v) = <<0, 0>>
      /\ v < Last => Them0(v) = <<v + 1, 0>> /\ Them1(v) = <<v + 1, 1>>
      /\ w = Last => Them0(w) = <<0, 1>> /\ Them1(w) = <<0, 0>>
      /\ w < Last => Them0(w) = <<w + 1, 0>> /\ Them1(w) = <<w + 1, 1>>
      /\ Us0(v) = <<v, 0>> /\ Us1(v) = <<v, 1>>
      /\ Us0(w) = <<w, 0>> /\ Us1(w) = <<w, 1>>
  BY Locks
\* What a waiting worker holds belongs to its successor.
<1>6. \/ LockAt(w, Pos(w)) = Them0(v) /\ Pos(v) \in {1, 3, 9}
      \/ LockAt(w, Pos(w)) = Them1(v) /\ Pos(v) \in {5, 7}
  BY <1>1, <1>4 DEF HoldsAt
<1>7. CASE Pos(w) \in {3, 7}
  <2>1. LockAt(w, Pos(w)) \in {Them0(w), Them1(w)}
    BY <1>7 DEF LockAt
  <2> QED
    BY <1>1, <1>3, <1>5, <1>6, <2>1
<1>8. CASE Pos(w) \in {1, 9}
  <2>1. LockAt(w, Pos(w)) = <<w, 0>>
    BY <1>5, <1>8 DEF LockAt
  <2>2. CASE w > 0
    <3>1. v = w - 1 /\ Pos(v) \in {1, 3, 9} /\ v < w
      BY <1>3, <1>5, <1>6, <2>1, <2>2
    <3>2. Pos(w) >= 6 => Pos(v) >= 9
      BY <1>2, <3>1 DEF RingInv
    <3> QED
      BY <1>8, <2>2, <3>1, <3>2
  <2>3. CASE w = 0
    <3>1. v = Last /\ Pos(v) \in {5, 7} /\ 0 < Last
      BY <1>1, <1>3, <1>5, <1>6, <2>1, <2>3
    <3>2. Pos(Last) >= 2 => Pos(0) >= 5
      BY <1>2, <1>3, <3>1 DEF RingInv
    <3> QED
      BY <1>8, <2>3, <3>1, <3>2
  <2> QED
    BY <1>3, <2>2, <2>3
<1>9. CASE Pos(w) = 5
  <2>1. LockAt(w, Pos(w)) = <<w, 1>>
    BY <1>5, <1>9 DEF LockAt
  <2>2. CASE w > 0
    <3>1. v = w - 1 /\ Pos(v) \in {5, 7}
      BY <1>3, <1>5, <1>6, <2>1, <2>2
    <3> QED
      BY <1>9, <2>2, <3>1
  <2>3. CASE w = 0
    <3>1. v = Last /\ Pos(v) \in {1, 3, 9} /\ 0 < Last
      BY <1>1, <1>3, <1>5, <1>6, <2>1, <2>3
    <3>2. Pos(Last) >= 6 => Pos(0) >= 9
      BY <1>2, <1>3, <3>1 DEF RingInv
    <3> QED
      BY <1>9, <2>3, <3>1, <3>2
  <2> QED
    BY <1>3, <2>2, <2>3
<1> QED
  BY <1>1, <1>7, <1>8, <1>9 DEF Blocking

LEMMA LeastWorker ==
  ASSUME NEW T \in SUBSET Worker, T # {}
  PROVE  \E m \in T : m = 0 \/ m - 1 \notin T
<1> DEFINE Less == OpToRel(<, Nat)
<1>1. T \subseteq Nat
  BY RingType DEF Worker
<1>2. PICK m \in T : \A y \in T : <<y, m>> \notin Less
  BY <1>1, NatLessThanWellFounded, WFMin
<1>3. CASE m # 0
  <2>1. m - 1 \in Nat /\ m \in Nat
    BY <1>1, <1>3
  <2>2. <<m - 1, m>> \in Less
    BY <2>1 DEF OpToRel
  <2> QED
    BY <1>2, <2>2
<1> QED
  BY <1>3

LEMMA NoCycle == CascadeInv => NoWaitCycle
<1> SUFFICES ASSUME CascadeInv, NEW S \in SUBSET Worker, S # {},
                    \A w \in S : \E v \in S : WaitsFor(w, v)
             PROVE  FALSE
  BY DEF NoWaitCycle
<1>1. \A w \in S : w \in Worker /\ Pos(w) \in Blocking
  BY WaitFacts
\* All in S wait, so all wait for their predecessors.
<1>2. \A w \in S : Pos(w) \in {1, 5, 9}
  BY <1>1, WaitChain
<1>3. \A w \in S : w > 0 =>
        /\ w - 1 \in S
        /\ Pos(w) = 1 => Pos(w - 1) \in {1, 9}
        /\ Pos(w) = 5 => Pos(w - 1) = 5
        /\ Pos(w) = 9 => Pos(w - 1) = 9
  <2> SUFFICES ASSUME NEW w \in S, w > 0
               PROVE  /\ w - 1 \in S
                      /\ Pos(w) = 1 => Pos(w - 1) \in {1, 9}
                      /\ Pos(w) = 5 => Pos(w - 1) = 5
                      /\ Pos(w) = 9 => Pos(w - 1) = 9
    OBVIOUS
  <2>1. PICK v \in S : WaitsFor(w, v)
    OBVIOUS
  <2>2. /\ v = w - 1
        /\ Pos(w) = 1 => Pos(v) \in {1, 3, 9}
        /\ Pos(w) = 5 => Pos(v) \in {5, 7}
        /\ Pos(w) = 9 => Pos(v) = 9
    BY <1>1, <2>1, WaitChain
  <2> QED
    BY <1>2, <2>1, <2>2
<1>4. 0 \in S => /\ Last \in S /\ Last > 0 /\ Pos(0) # 1
                 /\ Pos(0) = 5 => Pos(Last) = 1
                 /\ Pos(0) = 9 => Pos(Last) = 5
  <2> SUFFICES ASSUME 0 \in S
               PROVE  /\ Last \in S /\ Last > 0 /\ Pos(0) # 1
                      /\ Pos(0) = 5 => Pos(Last) = 1
                      /\ Pos(0) = 9 => Pos(Last) = 5
    OBVIOUS
  <2>1. PICK v \in S : WaitsFor(0, v)
    OBVIOUS
  <2>2. /\ v = Last /\ Last > 0 /\ Pos(0) # 1
        /\ Pos(0) = 5 => Pos(v) \in {1, 3}
        /\ Pos(0) = 9 => Pos(v) \in {5, 7}
    BY <1>1, <2>1, WaitChain
  <2> QED
    BY <1>2, <2>1, <2>2
<1> DEFINE At(p) == {w \in S : Pos(w) = p}
<1>5. \A w \in Worker : w = 0 \/ w > 0
  BY DEF Worker
\* Those that wait for us1 stand in an unbroken row that begins with worker 0,
\* and so do those that wait for us0 the second time.
<1>6. ASSUME NEW p \in {5, 9}, At(p) # {}
      PROVE  0 \in At(p)
  <2>1. PICK m \in At(p) : m = 0 \/ m - 1 \notin At(p)
    <3>1. At(p) \in SUBSET Worker
      OBVIOUS
    <3> QED
      BY <1>6, <3>1, LeastWorker
  <2> QED
    BY <1>3, <1>5, <2>1
<1>7. 0 \in S
  <2>1. PICK m \in S : m = 0 \/ m - 1 \notin S
    BY LeastWorker
  <2> QED
    BY <1>3, <1>5, <2>1
<1>8. CASE Pos(0) = 9
  <2>1. Last \in At(5)
    BY <1>4, <1>7, <1>8
  <2>2. 0 \in At(5)
    BY <1>6, <2>1
  <2> QED
    BY <1>8, <2>2
<1>9. CASE Pos(0) = 5
  <2>1. At(1) # {} /\ At(1) \in SUBSET Worker
    BY <1>4, <1>7, <1>9
  <2>2. PICK m \in At(1) : m = 0 \/ m - 1 \notin At(1)
    BY <2>1, LeastWorker
  <2>3. m > 0 /\ m \in S /\ Pos(m) = 1
    BY <1>5, <1>9, <2>2
  <2>4. m - 1 \in At(9)
    BY <1>3, <2>2, <2>3
  <2>5. 0 \in At(9)
    BY <1>6, <2>4
  <2> QED
    BY <1>9, <2>5
<1> QED
  BY <1>2, <1>4, <1>7, <1>8, <1>9

(***************************************************************************)
(* The worker that unblocks a lock is the one that blocked it, and no      *)
(* worker blocks a lock it has blocked already (cascade_mutex.c:170-209    *)
(* and its siblings), for every number of workers.                         *)
(***************************************************************************)
THEOREM CascadeOwner ==
  ASSUME "flock" \notin Kinds
  PROVE  Spec => []OwnerUnblocks
  BY CascadeInvariant, OwnerHolds, PTL

(***************************************************************************)
(* "finish batch with nothing blocked": a worker that has finished a round *)
(* holds no lock, whatever the others still do.                            *)
(***************************************************************************)
THEOREM CascadeUnblocked ==
  ASSUME "flock" \notin Kinds
  PROVE  Spec => []NothingBlocked
  BY CascadeInvariant, BlockedInRound, PTL

(***************************************************************************)
(* The baton goes round the ring: a worker makes a move only after its     *)
(* predecessor has made it, worker 0 only after the last one has caught    *)
(* up.                                                                     *)
(***************************************************************************)
THEOREM CascadeOrder ==
  ASSUME "flock" \notin Kinds
  PROVE  Spec => []RingOrder
  BY CascadeInvariant, InOrder, PTL

(***************************************************************************)
(* No set of workers waits for one another, so that the cascades of every  *)
(* size are free of deadlock and fcntl never answers EDEADLK.              *)
(***************************************************************************)
THEOREM CascadeNoCycle ==
  ASSUME "flock" \notin Kinds
  PROVE  Spec => []NoWaitCycle
  BY CascadeInvariant, NoCycle, PTL
=============================================================================
