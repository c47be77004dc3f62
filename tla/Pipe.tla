-------------------------------- MODULE Pipe --------------------------------
(***************************************************************************)
(* The pipe benchmark (src/pipe.c).  A worker writes a buffer and reads it *)
(* back, over a pipe, a "fifo", a socketpair or a TCP connection: in mode  *)
(* st it reads what it wrote itself, in mt and mp a thread or a process    *)
(* made for the round echoes it.  The descriptors are made anew in each    *)
(* round.  Data is counted in units; which bytes they are does not matter, *)
(* the code never looks at them.                                           *)
(***************************************************************************)
EXTENDS Callbacks, FiniteSets, FiniteSetsExt

CONSTANTS
  Capacity,     \* units that a pipe or one direction of a socket holds
  InitLimit,    \* RLIMIT_NOFILE of the shell
  SpawnMayFail  \* pthread_create and fork may fail

\* A benchmark of this module is a choice of -m, -x and -s (a size that parses).
Options == [m : {"st", "mt", "mp"}, x : {"pipe", "fifo", "sock", "tcp"}, s : Nat]

ASSUME PipeAssumption ==
  /\ Capacity \in Nat \ {0} /\ InitLimit \in Nat /\ InitLimit >= 8
  /\ SpawnMayFail \in BOOLEAN
  /\ Benchmarks \subseteq Options

VARIABLES
  held,       \* the worker's open descriptors, by what made them
  leaked,     \* open descriptors it has lost the number of
  chan,       \* units in flight, in its two channels
  sent, got,  \* progress of its write() and its readall()
  loop,       \* its loopback: where it is, requests read, units of this turn
  port,       \* the port its listening socket is bound to, 0 if none
  listening   \* listen() was called on it

files == <<held, leaked, port, listening>>
data  == <<chan, sent, got>>
vars  == <<round, choice, place, failed, files, data, loop>>

Mode  == bench.m
Xport == bench.x
Size  == bench.s
Alone == Mode = "st"

------------------------------------------------------------------------------
\* Descriptors: the ends of the pipes p and q, of the files a and b, of a
\* socketpair and of a connection.
Desc == {"p0", "p1", "q0", "q1", "a0", "a1", "b0", "b1", "s0", "s1",
         "lsn", "cli", "acc"}

\* The channel that reading and writing a descriptor means.
ReadSide(d)  == IF d \in {"p0", "a0", "s1", "acc"} THEN "x" ELSE "y"
WriteSide(d) == IF d \in {"p1", "a1", "s0", "cli"} THEN "x" ELSE "y"

\* Seeded fault: both ends of one pipe go to the same side.
PipeEndsStraight ==
  [in |-> "p0", out |-> "p1", in2 |-> "q0", out2 |-> "q1"]
PipeEnds ==
  [in |-> "p0", out2 |-> "p1", in2 |-> "q0", out |-> "q1"]

\* ts_in, ts_out, ts_in2 and ts_out2
Ends ==
  CASE Xport = "pipe" -> IF Alone THEN [in |-> "p0", out |-> "p1"] ELSE PipeEnds
    [] Xport = "fifo" -> IF Alone THEN [in |-> "a0", out |-> "a1"]
         ELSE [in |-> "a0", out2 |-> "a1", in2 |-> "b0", out |-> "b1"]
    [] Xport = "sock" -> IF Alone THEN [in |-> "s0", out |-> "s1"]
         ELSE [in |-> "s0", out |-> "s0", in2 |-> "s1", out2 |-> "s1"]
    [] Xport = "tcp"  -> IF Alone THEN [in |-> "acc", out |-> "cli"]
         ELSE [in |-> "cli", out |-> "cli", in2 |-> "acc", out2 |-> "acc"]

Make(ds)   == [op |-> "make", what |-> ds]   \* pipe(), socketpair(), socket(), open()
Op(name)   == [op |-> name, what |-> {}]
Close(end) == [op |-> "close", what |-> {Ends[end]}]
Unlink(f)  == [op |-> "unlink", what |-> {f}]

RoundTrip == <<Op("write"), Op("read")>>

\* mknod() has its arguments swapped and makes plain files.
Prepare ==
  CASE Xport = "pipe" -> <<Make({"p0", "p1"})>>
         \o IF Alone THEN <<>> ELSE <<Make({"q0", "q1"})>>
    [] Xport = "fifo" -> <<Make({"a0"}), Make({"a1"})>>
         \o IF Alone THEN <<>> ELSE <<Make({"b0"}), Make({"b1"})>>
    [] Xport = "sock" -> <<Make({"s0", "s1"})>>
    [] Xport = "tcp"  -> <<Make({"cli"}), Op("connect"), Make({"acc"})>>

\* Seeded fault: each number is closed, also where two are the same.
CloseConnsAll ==
  <<Close("in"), Close("out")>>
  \o IF Alone THEN <<>> ELSE <<Close("in2"), Close("out2")>>

CloseConns ==
  LET twoEnds == Xport \in {"pipe", "fifo"} IN
  <<Close("in")>> \o (IF twoEnds THEN <<Close("out")>> ELSE <<>>)
  \o (IF Alone THEN <<>> ELSE <<Close("in2")>>)
  \o (IF ~Alone /\ twoEnds THEN <<Close("out2")>> ELSE <<>>)

Script ==
  [Idler EXCEPT
     !.first = IF Xport = "tcp" THEN <<Make({"lsn"}), Op("bind"), Op("listen")>>
                                ELSE <<>>,
     !.pre   = Prepare \o (IF Alone THEN <<>> ELSE <<Op("spawn")>>) \o RoundTrip,
     !.bench = RoundTrip,
     !.post  = RoundTrip \o (IF Alone THEN <<>> ELSE <<Op("join")>>) \o CloseConns
               \o (IF Xport = "fifo" THEN <<Unlink("a"), Unlink("b")>> ELSE <<>>)]

------------------------------------------------------------------------------
\* Seeded fault: setfdlimit is not called.
InitialLimit == InitLimit
\* setfdlimit(4 * lm_optT + 10)
FdLimit == Max({InitLimit, 4 * lm_optT + 10})

\* Descriptors open in the process of a worker, the standard ones included.
FdsOpen(w) ==
  3 + MapThenSumSet(LAMBDA v : Cardinality(held[v]) + leaked[v],
                    {v \in Worker : Proc(v) = Proc(w)})

\* A regular file is never full, and at its end there is nothing to wait for.
Plain == Xport = "fifo"
Room(w, c) == IF Plain THEN Size ELSE Capacity - chan[w][c]

Off == [pc |-> "none", served |-> 0, n |-> 0]

Reason == {"no", "emfile", "listen", "spawn", "eof", "unlink"}
TypeOK ==
  /\ CallbacksTypeOK
  /\ held \in [Worker -> SUBSET Desc]
  /\ \A w \in Worker : leaked[w] \in 0..FdLimit /\ FdsOpen(w) <= FdLimit
  /\ chan \in [Worker -> [{"x", "y"} -> Nat]]
  /\ \A w \in Worker, c \in {"x", "y"} : Plain \/ chan[w][c] <= Capacity
  /\ sent \in [Worker -> Nat] /\ got \in [Worker -> Nat]
  /\ \A w \in Worker : sent[w] < Max({1, Size}) /\ got[w] < Max({1, Size})
  /\ loop \in [Worker -> [pc : {"none", "read", "write", "done", "dead"},
                          served : 0..3, n : 0..Size]]
  /\ port \in [Worker -> 0..N] /\ listening \in [Worker -> BOOLEAN]
  /\ failed \in Reason

Init ==
  /\ StartRun
  /\ cb = [w \in Worker |-> "worker"]
  /\ todo = [w \in Worker |-> <<>>]
  /\ held = [w \in Worker |-> {}]
  /\ leaked = [w \in Worker |-> 0]
  /\ chan = [w \in Worker |-> [c \in {"x", "y"} |-> 0]]
  /\ sent = [w \in Worker |-> 0] /\ got = [w \in Worker |-> 0]
  /\ loop = [w \in Worker |-> Off]
  /\ port = [w \in Worker |-> 0]
  /\ listening = [w \in Worker |-> FALSE]

------------------------------------------------------------------------------
\* Preparing the connections.  A number that is overwritten while its
\* descriptor is open is lost; what is made is empty.
MakeOne(w) ==
  LET ds == Head(todo[w]).what
      fresh == {WriteSide(d) : d \in ds \ {"lsn"}}
  IN
  /\ Next1(w, {"make"})
  /\ FdsOpen(w) + Cardinality(ds) <= FdLimit
  /\ leaked' = [leaked EXCEPT ![w] = @ + Cardinality(held[w] \cap ds)]
  /\ held' = [held EXCEPT ![w] = @ \cup ds]
  /\ chan' = [chan EXCEPT ![w] = [c \in {"x", "y"} |-> IF c \in fresh THEN 0 ELSE @[c]]]
  /\ Done(w)
  /\ UNCHANGED <<round, choice, failed, port, listening, sent, got, loop>>

\* EMFILE
MakeFails(w) ==
  /\ Next1(w, {"make"})
  /\ FdsOpen(w) + Cardinality(Head(todo[w]).what) > FdLimit
  /\ Fails("emfile") /\ UNCHANGED <<files, data, loop>>

\* The loop over the ports, with SO_REUSEADDR: only a listening socket keeps
\* others from its port.
BindPort(w) ==
  /\ Next1(w, {"bind"})
  /\ port' = [port EXCEPT ![w] = Min({p \in 1..N :
       \A u \in Worker \ {w} : ~(port[u] = p /\ listening[u])})]
  /\ Done(w)
  /\ UNCHANGED <<round, choice, failed, held, leaked, listening, data, loop>>

Taken(w) == \E u \in Worker \ {w} : port[u] = port[w] /\ listening[u]

StartListening(w) ==
  /\ Next1(w, {"listen"}) /\ ~Taken(w)
  /\ listening' = [listening EXCEPT ![w] = TRUE]
  /\ Done(w)
  /\ UNCHANGED <<round, choice, failed, held, leaked, port, data, loop>>

ListenFails(w) ==
  /\ Next1(w, {"listen"}) /\ Taken(w)
  /\ Fails("listen") /\ UNCHANGED <<files, data, loop>>

\* connect() to the worker's own listening socket, whose queue is empty.
Connect(w) ==
  /\ Next1(w, {"connect"}) /\ listening[w]
  /\ Done(w)
  /\ UNCHANGED <<round, choice, failed, files, data, loop>>

\* The loopback thread or process.
Spawn(w) ==
  /\ Next1(w, {"spawn"})
  /\ loop' = [loop EXCEPT ![w] = [Off EXCEPT !.pc = "read"]]
  /\ Done(w)
  /\ UNCHANGED <<round, choice, failed, files, data>>

\* fork() returns -1 and the run is given up; pthread_create() returns an error
\* number, which is compared with -1: the worker goes on without a loopback.
SpawnFails(w) ==
  /\ SpawnMayFail /\ Next1(w, {"spawn"})
  /\ loop' = [loop EXCEPT ![w] = Off]
  /\ \/ Mode = "mp" /\ Fails("spawn")
     \/ Mode = "mt" /\ Done(w) /\ UNCHANGED <<round, choice, failed>>
  /\ UNCHANGED <<files, data>>

------------------------------------------------------------------------------
\* Moving data.  A write() and a readall() of Size units are over when the last
\* of them has been moved; the kernel may move them in several parts.
Put(w, c, k) == chan' = [chan EXCEPT ![w][c] = @ + k]
Take(w, c, k) == chan' = [chan EXCEPT ![w][c] = @ - k]

Write(w) ==
  LET c == WriteSide(Ends.out) IN
  /\ Next1(w, {"write"})
  /\ \E k \in 0..Min({Room(w, c), Size - sent[w]}) :
       /\ k > 0 \/ Size = 0
       /\ Put(w, c, k)
       /\ IF sent[w] + k = Size
            THEN sent' = [sent EXCEPT ![w] = 0] /\ Done(w)
            ELSE sent' = [sent EXCEPT ![w] = @ + k] /\ UNCHANGED place
  /\ UNCHANGED <<round, choice, failed, files, got, loop>>

Read(w) ==
  LET c == ReadSide(Ends.in) IN
  /\ Next1(w, {"read"})
  /\ \E k \in 1..Min({chan[w][c], Size - got[w]}) :
       /\ Take(w, c, k)
       /\ IF got[w] + k = Size
            THEN got' = [got EXCEPT ![w] = 0] /\ Done(w)
            ELSE got' = [got EXCEPT ![w] = @ + k] /\ UNCHANGED place
  /\ UNCHANGED <<round, choice, failed, files, sent, loop>>

\* read() returns 0: nothing was asked for, or the file has no more.
AtEof(w, c) == Size = 0 \/ (Plain /\ chan[w][c] = 0)

ReadFails(w) ==
  /\ Next1(w, {"read"}) /\ AtEof(w, ReadSide(Ends.in))
  /\ Fails("eof") /\ UNCHANGED <<files, data, loop>>

\* Seeded fault: the loopback does not count the priming.
LoopTurnsTwo == 2
\* "Run 3 times to include priming and termination."
LoopTurns == 3

LoopRead(w) ==
  LET c == ReadSide(Ends.in2) IN
  /\ failed = "no" /\ loop[w].pc = "read"
  /\ \E k \in 1..Min({chan[w][c], Size - loop[w].n}) :
       /\ Take(w, c, k)
       /\ IF loop[w].n + k = Size
            THEN loop' = [loop EXCEPT ![w] =
                   [pc |-> "write", served |-> loop[w].served + 1, n |-> 0]]
            ELSE loop' = [loop EXCEPT ![w].n = @ + k]
  /\ UNCHANGED <<round, choice, place, failed, files, sent, got>>

LoopWrite(w) ==
  LET c == WriteSide(Ends.out2) IN
  /\ failed = "no" /\ loop[w].pc = "write"
  /\ \E k \in 1..Min({Room(w, c), Size - loop[w].n}) :
       /\ Put(w, c, k)
       /\ IF loop[w].n + k < Size
            THEN loop' = [loop EXCEPT ![w].n = @ + k]
            ELSE loop' = [loop EXCEPT ![w].n = 0,
                   ![w].pc = IF loop[w].served = LoopTurns THEN "done" ELSE "read"]
  /\ UNCHANGED <<round, choice, place, failed, files, sent, got>>

\* A failed check ends the process of the loopback.
LoopFails(w) ==
  /\ failed = "no" /\ loop[w].pc = "read" /\ AtEof(w, ReadSide(Ends.in2))
  /\ \/ Mode = "mt" /\ Fails("eof") /\ UNCHANGED loop
     \/ /\ Mode = "mp" /\ loop' = [loop EXCEPT ![w].pc = "dead"]
        /\ UNCHANGED <<round, choice, place, failed>>
  /\ UNCHANGED <<files, data>>

\* pthread_join() and waitpid()
Join(w) ==
  /\ Next1(w, {"join"}) /\ loop[w].pc \in {"done", "dead"}
  /\ Done(w)
  /\ UNCHANGED <<round, choice, failed, files, data, loop>>

CloseOne(w) ==
  /\ Next1(w, {"close"})
  /\ held' = [held EXCEPT ![w] = @ \ Head(todo[w]).what]
  /\ Done(w)
  /\ UNCHANGED <<round, choice, failed, leaked, port, listening, data, loop>>

\* Alone there is only one file to unlink.
Made(f) == f = "a" \/ ~Alone

UnlinkOne(w) ==
  /\ Next1(w, {"unlink"})
  /\ IF \A f \in Head(todo[w]).what : Made(f)
       THEN Done(w) /\ UNCHANGED <<round, choice, failed>>
       ELSE Fails("unlink")
  /\ UNCHANGED <<files, data, loop>>

Call(w) ==
  \/ MakeOne(w) \/ MakeFails(w) \/ BindPort(w) \/ StartListening(w)
  \/ ListenFails(w) \/ Connect(w) \/ Spawn(w) \/ Write(w) \/ Read(w)
  \/ ReadFails(w) \/ Join(w) \/ CloseOne(w) \/ UnlinkOne(w)

Loopback(w) == LoopRead(w) \/ LoopWrite(w) \/ LoopFails(w)

------------------------------------------------------------------------------
Advance(w) ==
  /\ LoopTest(w, Script) \/ Return(w, Script)
  /\ UNCHANGED <<files, data, loop>>

Step(w) == Call(w) \/ Advance(w)

Stop(w) == Halt(w) /\ UNCHANGED <<files, data, loop>>

Finished == Over /\ UNCHANGED vars

Next ==
  \/ \E w \in Worker : Step(w) \/ Loopback(w) \/ SpawnFails(w) \/ Stop(w)
  \/ Finished

Spec == Init /\ [][Next]_vars

\* Workers and loopbacks are scheduled; nothing has to fail.
FairSpec == Spec /\ \A w \in Worker : WF_vars(Step(w)) /\ WF_vars(Loopback(w))

------------------------------------------------------------------------------
\* Every callback of a worker is one round trip: a request is written, the
\* loopback of this very worker reads all of it, and only what it then writes
\* answers the worker; there are as many answers as requests when the round is
\* closed, and the loopback has no fourth turn.
OpsLeft(w) == {todo[w][i].op : i \in DOMAIN todo[w]}
InRound(w) == cb[w] \in {"pre", "bench", "post"}
TripsBefore(w) == CASE cb[w] = "pre" -> 0 [] cb[w] = "bench" -> 1 [] OTHER -> 2

Asked(w) ==
  IF ~InRound(w) THEN 0
  ELSE TripsBefore(w) + IF "write" \notin OpsLeft(w) \/ sent[w] > 0 THEN 1 ELSE 0
Answered(w) ==
  IF ~InRound(w) THEN 0
  ELSE TripsBefore(w) + IF "read" \notin OpsLeft(w) THEN 1 ELSE 0
Served(w) ==
  IF Alone THEN Asked(w)
  ELSE IF ~InRound(w) \/ "spawn" \in OpsLeft(w) THEN 0 ELSE loop[w].served

Trip == INSTANCE Echo WITH asked    <- [w \in Worker |-> Asked(w)],
                           served   <- [w \in Worker |-> Served(w)],
                           answered <- [w \in Worker |-> Answered(w)]
ImplementsEcho == Trip!Spec

\* A round closes each of the descriptors it made once, the listening socket
\* apart, and its loopback is gone; so a long run does not run out of descriptors.  With -m st
\* a socketpair and a connection lose one of their two ends in each round.
RoundCloses ==
  \A w \in Worker :
    /\ Next1(w, {"close"}) => Head(todo[w]).what \subseteq held[w]
    /\ Idle(w) /\ cb[w] \in {"worker", "post"} =>
         /\ loop[w].pc \notin {"read", "write"}
         /\ IF Alone /\ Xport \in {"sock", "tcp"}
              THEN Cardinality(held[w] \ {"lsn"}) <= 1
              ELSE held[w] \subseteq {"lsn"} /\ leaked[w] = 0

\* Why a run is cut short: the leak of -m st, two workers on the same port, a
\* fork that fails, a buffer of size 0, and "fifos" that are plain files.  In
\* particular setfdlimit asks for enough descriptors.
FailuresKnown ==
  /\ failed = "emfile" => Alone /\ Xport \in {"sock", "tcp"}
  /\ failed = "listen" => Xport = "tcp" /\ N > 1
  /\ failed = "spawn" => Mode = "mp"
  /\ failed = "eof" => Size = 0 \/ (Plain /\ ~Alone)
  /\ failed = "unlink" => Plain /\ Alone

\* No worker hangs: a call returns or the run is cut short, with two
\* exceptions, a single thread that writes more than its channel holds and a
\* worker whose loopback thread was never made.
Stuck(w) ==
  \/ Alone /\ ~Plain /\ Size > Capacity
  \/ Mode = "mt" /\ loop[w].pc = "none"
CallsReturn ==
  \A w \in Worker :
    InStage(w) /\ todo[w] # <<>> ~>
      (todo[w] = <<>> \/ failed # "no" \/ Stuck(w))
=============================================================================
