---------------------------- MODULE Descriptors -----------------------------
(***************************************************************************)
(* The benchmarks that measure calls on descriptors: files (open, close,   *)
(* dup, read, pread, write, pwrite, writev, lseek, isatty, fcntl) and      *)
(* sockets (socket, socketpair, setsockopt, bind, listen, getsockname,     *)
(* getpeername, close_tcp, connection).  A benchmark is a script: the      *)
(* calls its callbacks make.  The harness runs the scripts of all workers  *)
(* in lock-step rounds (module Rounds); the kernel hands out the lowest    *)
(* free descriptor, so that a descriptor closed twice or used after its    *)
(* close may be another worker's.                                          *)
(***************************************************************************)
EXTENDS Callbacks, FiniteSets, FiniteSetsExt

CONSTANTS
  InitLimit,   \* RLIMIT_NOFILE of the shell
  BadFd        \* 1024, the descriptor that -b takes to be closed

\* The benchmarks; close_b is close -b, the letters after connection are its
\* options -a and -c.
Names ==
  {"open", "close", "close_b", "dup", "socket", "socketpair", "setsockopt",
   "read", "write", "writev", "lseek", "pread", "pwrite", "isatty", "fcntl",
   "fcntl_ndelay", "bind", "listen", "getsockname", "getpeername",
   "close_tcp", "connection", "connection_a", "connection_c"}

ASSUME DescriptorsAssumption ==
  /\ Benchmarks \subseteq Names
  /\ InitLimit \in Nat /\ InitLimit >= 8
  /\ BadFd \in Nat /\ BadFd >= InitLimit

VARIABLES
  slot,        \* the descriptors in the workers' thread-specific data
  table,       \* the descriptor tables of the processes: who opened what
  port,        \* the port a worker's listening socket is bound to, 0 if none
  listening,   \* listen() was called on it
  queue,       \* the connections it has not accepted yet
  conn         \* state of the worker's outgoing connection

files   == <<slot, table>>
network == <<port, listening, queue, conn>>
vars    == <<round, choice, place, files, network, failed>>

------------------------------------------------------------------------------
\* Scripts.  limit is the argument of setfdlimit(), shared the number of
\* descriptors opened before the workers exist; the callbacks work on the last
\* of these ("shared") and on descriptors of their own.
Open(v)   == [op |-> "open", var |-> v]      \* open(), socket()
Dup(v)    == [op |-> "dup", var |-> v]       \* dup() of the shared one
Pair(v)   == [op |-> "pair", var |-> v]      \* socketpair()
Forge(v)  == [op |-> "forge", var |-> v]     \* assign 1024
Use(v)    == [op |-> "use", var |-> v]
Close(v)  == [op |-> "close", var |-> v]
Bind      == [op |-> "bind", var |-> "lsn"]
BindReuse == [op |-> "bindreuse", var |-> "lsn"]  \* SO_REUSEADDR is set
Listen    == [op |-> "listen", var |-> "lsn"]
Start     == [op |-> "start", var |-> "conn"]     \* connect(), O_NDELAY
Connect   == [op |-> "connect", var |-> "conn"]   \* connect(), may be refused
Reconnect == [op |-> "reconnect", var |-> "conn"] \* the second and last try
Await     == [op |-> "await", var |-> "conn"]     \* until it is established
Accept    == [op |-> "accept", var |-> "acc"]

Empty == [limit |-> 0, shared |-> 0, worker |-> <<>>, first |-> <<>>,
          pre |-> <<>>, bench |-> <<>>, post |-> <<>>, fini |-> <<>>]

open == [Empty EXCEPT !.limit = lm_optT + 10, !.bench = <<Open("fd")>>,
                      !.post = <<Close("fd")>>]
close == [Empty EXCEPT !.limit = lm_optT + 10, !.pre = <<Open("fd")>>,
                       !.bench = <<Close("fd")>>]
\* close -b: the error is expected, nothing is closed
close_b == [Empty EXCEPT !.limit = lm_optT + 10, !.pre = <<Forge("fd")>>]
dup == [Empty EXCEPT !.limit = lm_optT + 10, !.shared = 1, !.bench = <<Dup("fd")>>,
                     !.post = <<Close("fd")>>]
socket == open
\* The second descriptor is written behind ts_fd and never closed.
socketpair == [Empty EXCEPT !.limit = lm_optT + 10, !.bench = <<Pair("fd")>>,
                            !.post = <<Close("fd")>>]
setsockopt == [Empty EXCEPT !.pre = <<Open("fd")>>, !.bench = <<Use("fd")>>,
                            !.post = <<Close("fd")>>]
read  == [Empty EXCEPT !.first = <<Open("fd")>>, !.pre = <<Use("fd")>>,
                       !.bench = <<Use("fd")>>]
write  == read
writev == read
lseek == [Empty EXCEPT !.first = <<Open("fd")>>, !.bench = <<Use("fd"), Use("fd")>>]
pread  == [Empty EXCEPT !.shared = 1, !.bench = <<Use("shared")>>]
pwrite == pread
isatty == [Empty EXCEPT !.worker = <<Open("fd")>>, !.bench = <<Use("fd")>>]
fcntl  == pread
fcntl_ndelay == [Empty EXCEPT !.shared = 1, !.bench = [i \in 1..4 |-> Use("shared")]]
\* EADDRINUSE is tolerated; the socket never listens.
bind == [Empty EXCEPT !.limit = lm_optT + 10, !.pre = <<Open("lsn"), Use("lsn")>>,
                      !.bench = <<Use("lsn")>>, !.post = <<Close("lsn")>>]
listen == [Empty EXCEPT !.shared = 1, !.bench = <<Use("shared"), Use("shared")>>]
getsockname == pread
getpeername == [Empty EXCEPT !.shared = 3, !.bench = <<Use("shared")>>]
close_tcp ==
  [limit |-> 3 * lm_optT + 10, shared |-> 0,
   worker |-> <<Open("lsn"), BindReuse, Listen>>, first |-> <<>>,
   pre |-> <<Open("conn"), Connect, Await, Accept>>,
   bench |-> <<Close("acc")>>, post |-> <<Close("conn")>>, fini |-> <<Close("lsn")>>]

\* Seeded fault: -a does not connect in benchmark_pre.
ConnectionPreLazy(mode) == <<Open("conn")>>

\* connection: -a connects in benchmark_pre, -c does not accept.
ConnectionPre(mode) ==
  IF mode = "a" THEN <<Open("conn"), Start>> ELSE <<Open("conn")>>
ConnectionBench(mode) ==
  CASE mode = "a" -> <<Accept>>
    [] mode = "c" -> <<Start>>
    [] OTHER      -> <<Start, Await, Accept>>

\* Seeded fault: what was not accepted is closed too.
ConnectionPostBoth(mode) == <<Close("acc"), Close("conn")>>
ConnectionPost(mode) ==
  IF mode = "c" THEN <<Close("conn")>> ELSE <<Close("acc"), Close("conn")>>

Connection(mode) ==
  [Empty EXCEPT !.limit = 3 * lm_optT + 10,
                !.first = <<Open("lsn"), Bind, Listen>>,
                !.pre = ConnectionPre(mode), !.bench = ConnectionBench(mode),
                !.post = ConnectionPost(mode)]

Script ==
  CASE bench = "open" -> open             [] bench = "close" -> close
    [] bench = "close_b" -> close_b       [] bench = "dup" -> dup
    [] bench = "socket" -> socket         [] bench = "socketpair" -> socketpair
    [] bench = "setsockopt" -> setsockopt [] bench = "read" -> read
    [] bench = "write" -> write           [] bench = "writev" -> writev
    [] bench = "lseek" -> lseek           [] bench = "pread" -> pread
    [] bench = "pwrite" -> pwrite         [] bench = "isatty" -> isatty
    [] bench = "fcntl" -> fcntl           [] bench = "fcntl_ndelay" -> fcntl_ndelay
    [] bench = "bind" -> bind             [] bench = "listen" -> listen
    [] bench = "getsockname" -> getsockname
    [] bench = "getpeername" -> getpeername
    [] bench = "close_tcp" -> close_tcp
    [] bench = "connection" -> Connection("both")
    [] bench = "connection_a" -> Connection("a")
    [] bench = "connection_c" -> Connection("c")

\* Seeded fault: setfdlimit is not called.
InitialLimit == InitLimit
\* setfdlimit never lowers the limit.
FdLimit == Max({InitLimit, Script.limit})

Backlog == IF bench = "close_tcp" THEN 1 ELSE 5

------------------------------------------------------------------------------
Var   == {"fd", "lsn", "conn", "acc"}
Owner == [who : Worker \cup {N}, var : Var \cup {"std", "shared", "second", "free"}]
Free   == [who |-> N, var |-> "free"]
Std    == [who |-> N, var |-> "std"]
Shared == [who |-> N, var |-> "shared"]
Fds    == 0..(FdLimit - 1)

\* The descriptors a worker uses, in the table of its process.
Fd(w, v) == IF v = "shared" THEN 2 + Script.shared ELSE slot[w][v]
Opener(w, v) == IF v = "shared" THEN Shared ELSE [who |-> w, var |-> v]
Mine(w, v) == /\ Fd(w, v) \in Fds
              /\ table[Proc(w)][Fd(w, v)] = Opener(w, v)

Reason == {"no", "emfile", "listen", "refused"}
TypeOK ==
  /\ CallbacksTypeOK
  /\ slot \in [Worker -> [Var -> Fds \cup {BadFd}]]
  /\ table \in [Worker -> [Fds -> Owner]]
  /\ port \in [Worker -> 0..N]
  /\ listening \in [Worker -> BOOLEAN]
  /\ \A w \in Worker : /\ queue[w] \in Seq([from : Worker, live : BOOLEAN])
                       /\ Len(queue[w]) <= Backlog + 1 /\ Len(queue[w]) <= 6
  /\ conn \in [Worker -> {"none", "pending", "established"}]
  /\ failed \in Reason

\* The descriptors 0, 1, 2 are open and the shared ones follow them; the
\* workers' data is mapped, so it is zero: a stale slot is descriptor 0.
Init ==
  /\ StartRun
  /\ cb = [w \in Worker |-> "worker"]
  /\ todo = [w \in Worker |-> Script.worker]
  /\ slot = [w \in Worker |-> [v \in Var |-> 0]]
  /\ table = [w \in Worker |-> [f \in Fds |->
       IF f <= 2 THEN Std ELSE IF f <= 2 + Script.shared THEN Shared ELSE Free]]
  /\ port = [w \in Worker |-> 0]
  /\ listening = [w \in Worker |-> FALSE]
  /\ queue = [w \in Worker |-> <<>>]
  /\ conn = [w \in Worker |-> "none"]

------------------------------------------------------------------------------
Free1(p) == {f \in Fds : table[p][f] = Free}
Lowest(p) == Min(Free1(p))

\* Opening n descriptors for the variables vs (a sequence).
Room(w, n) == Cardinality(Free1(Proc(w))) >= n

OpenOne(w) ==
  LET v == Head(todo[w]).var  f == Lowest(Proc(w)) IN
  /\ Next1(w, {"open", "dup"}) /\ Room(w, 1)
  /\ table' = [table EXCEPT ![Proc(w)][f] = Opener(w, v)]
  /\ slot' = [slot EXCEPT ![w][v] = f]
  /\ Done(w)
  /\ UNCHANGED <<round, choice, network, failed>>

OpenPair(w) ==
  LET v == Head(todo[w]).var
      p == Proc(w)
      f == Lowest(p)
      g == Min(Free1(p) \ {f})
  IN
  /\ Next1(w, {"pair"}) /\ Room(w, 2)
  /\ table' = [table EXCEPT ![p][f] = Opener(w, v), ![p][g] = Opener(w, "second")]
  /\ slot' = [slot EXCEPT ![w][v] = f]
  /\ Done(w)
  /\ UNCHANGED <<round, choice, network, failed>>

\* EMFILE: LM_CHK ends the process, and with it the run.
OpenFails(w) ==
  /\ \/ Next1(w, {"open", "dup", "accept"}) /\ ~Room(w, 1)
     \/ Next1(w, {"pair"}) /\ ~Room(w, 2)
  /\ Fails("emfile") /\ UNCHANGED <<files, network>>

Assign(w) ==
  /\ Next1(w, {"forge"})
  /\ slot' = [slot EXCEPT ![w][Head(todo[w]).var] = BadFd]
  /\ Done(w)
  /\ UNCHANGED <<round, choice, table, network, failed>>

UseOne(w) ==
  /\ Next1(w, {"use"}) /\ Done(w)
  /\ UNCHANGED <<round, choice, files, network, failed>>

\* The queue of a listening socket still holds a connection that its client
\* has closed.
Dead(q, w) ==
  [i \in DOMAIN q |-> IF q[i].from = w THEN [q[i] EXCEPT !.live = FALSE] ELSE q[i]]

CloseOne(w) ==
  LET v == Head(todo[w]).var IN
  /\ Next1(w, {"close"})
  /\ table' = [table EXCEPT ![Proc(w)][Fd(w, v)] = Free]
  /\ IF v = "lsn"
       THEN /\ port' = [port EXCEPT ![w] = 0]
            /\ listening' = [listening EXCEPT ![w] = FALSE]
            /\ queue' = [queue EXCEPT ![w] = <<>>]
            /\ UNCHANGED conn
       ELSE IF v = "conn"
       THEN /\ conn' = [conn EXCEPT ![w] = "none"]
            /\ queue' = [u \in Worker |-> Dead(queue[u], w)]
            /\ UNCHANGED <<port, listening>>
       ELSE UNCHANGED network
  /\ Done(w)
  /\ UNCHANGED <<round, choice, slot, failed>>

------------------------------------------------------------------------------
\* The loop over the ports from FIRSTPORT: the first one that bind() grants.  A
\* port is given away in benchmark_finiworker only, so the result is the same
\* as if the loop were one step.  With SO_REUSEADDR only a listening socket
\* keeps others from the port.
Granted(w, p) ==
  \A u \in Worker \ {w} : port[u] = p =>
    Head(todo[w]).op = "bindreuse" /\ ~listening[u]

BindPort(w) ==
  /\ Next1(w, {"bind", "bindreuse"})
  /\ port' = [port EXCEPT ![w] = Min({p \in 1..N : Granted(w, p)})]
  /\ Done(w)
  /\ UNCHANGED <<round, choice, files, listening, queue, conn, failed>>

\* Only one socket listens on a port.
Taken(w) == \E u \in Worker \ {w} : port[u] = port[w] /\ listening[u]

StartListening(w) ==
  /\ Next1(w, {"listen"}) /\ ~Taken(w)
  /\ listening' = [listening EXCEPT ![w] = TRUE]
  /\ Done(w)
  /\ UNCHANGED <<round, choice, files, port, queue, conn, failed>>

ListenFails(w) ==
  /\ Next1(w, {"listen"}) /\ Taken(w)
  /\ Fails("listen") /\ UNCHANGED <<files, network>>

\* Seeded fault: every worker connects to the first port.
FirstPort(w) == 1
\* ts_addr
PortOf(w) == port[w]

StartConnect(w) ==
  /\ Next1(w, {"start", "connect", "reconnect"})
  /\ conn' = [conn EXCEPT ![w] = "pending"]
  /\ Done(w)
  /\ UNCHANGED <<round, choice, files, port, listening, queue, failed>>

\* close_tcp: "The connect() call is refused sometimes": try once more.
Refused(w) ==
  /\ Next1(w, {"connect"})
  /\ todo' = [todo EXCEPT ![w] =
       <<Close("conn"), Open("conn"), Reconnect>> \o Tail(@)]
  /\ UNCHANGED <<round, choice, cb, once, files, network, failed>>

RefusedAgain(w) ==
  /\ Next1(w, {"reconnect"})
  /\ Fails("refused") /\ UNCHANGED <<files, network>>

\* The kernel completes the connection if the queue of the listening socket
\* has room.
Handshake(w) ==
  /\ failed = "no" /\ conn[w] = "pending"
  /\ \E u \in Worker :
       /\ listening[u] /\ port[u] = PortOf(w) /\ Len(queue[u]) <= Backlog
       /\ queue' = [queue EXCEPT ![u] = Append(@, [from |-> w, live |-> TRUE])]
  /\ conn' = [conn EXCEPT ![w] = "established"]
  /\ UNCHANGED <<round, choice, place, files, port, listening, failed>>

\* connect() returns, or poll() and connect() again until EISCONN.
AwaitOne(w) ==
  /\ Next1(w, {"await"}) /\ conn[w] = "established"
  /\ Done(w)
  /\ UNCHANGED <<round, choice, files, network, failed>>

\* accept() blocks, or is tried again after poll().
AcceptOne(w) ==
  LET f == Lowest(Proc(w)) IN
  /\ Next1(w, {"accept"}) /\ queue[w] # <<>> /\ Room(w, 1)
  /\ queue' = [queue EXCEPT ![w] = Tail(@)]
  /\ table' = [table EXCEPT ![Proc(w)][f] = Opener(w, "acc")]
  /\ slot' = [slot EXCEPT ![w]["acc"] = f]
  /\ Done(w)
  /\ UNCHANGED <<round, choice, port, listening, conn, failed>>

Call(w) ==
  \/ OpenOne(w) \/ OpenPair(w) \/ OpenFails(w) \/ Assign(w) \/ UseOne(w)
  \/ CloseOne(w) \/ BindPort(w) \/ StartListening(w) \/ ListenFails(w)
  \/ StartConnect(w) \/ Refused(w) \/ RefusedAgain(w) \/ AwaitOne(w)
  \/ AcceptOne(w)

------------------------------------------------------------------------------
Advance(w) ==
  /\ LoopTest(w, Script) \/ Return(w, Script)
  /\ UNCHANGED <<files, network>>

Step(w) == Call(w) \/ Advance(w)

Stop(w) == Halt(w) /\ UNCHANGED <<files, network>>

Finished == Over /\ UNCHANGED vars

Next == (\E w \in Worker : Step(w) \/ Handshake(w) \/ Stop(w)) \/ Finished

Spec == Init /\ [][Next]_vars

\* Workers run, and the kernel completes connections.
FairSpec == Spec /\ \A w \in Worker : WF_vars(Step(w)) /\ WF_vars(Handshake(w))

------------------------------------------------------------------------------
\* Every call on a descriptor is made on the very descriptor that the worker
\* opened for it and that is still open, never on a number that was closed and
\* given to somebody else meanwhile; nobody has opened the 1024 of close -b, even
\* if so many threads are asked for that the limit lies above it.
OwnDescriptor ==
  \A w \in Worker : InStage(w) /\ todo[w] # <<>> =>
    LET c == Head(todo[w]) IN
      /\ c.op \in {"use", "close", "bind", "bindreuse", "listen", "start",
                   "connect", "reconnect", "await"} => Mine(w, c.var)
      /\ c.op = "dup" => Mine(w, "shared")
      /\ c.op = "accept" => Mine(w, "lsn")
      /\ bench = "close_b" /\ BadFd \in Fds => table[Proc(w)][BadFd] = Free

\* A round closes what it opens: between rounds a worker holds the descriptors
\* that last for the run and no others, so a long run does not run out of
\* them.  socketpair keeps one of the two each round.
Lasting(w) ==
  LET calls == Script.worker \o (IF once[w] THEN Script.first ELSE <<>>) IN
  {v \in Var : \E i \in DOMAIN calls : calls[i] = Open(v)}
RoundBalanced ==
  \A w \in Worker :
    Idle(w) /\ cb[w] \in {"worker", "post"} /\ bench # "socketpair" =>
      Cardinality({f \in Fds : table[Proc(w)][f].who = w})
        = Cardinality(Lasting(w))

\* No LM_CHK on these calls fails, with four exceptions: close_tcp workers
\* that bound the same port before either of them listened, a connection
\* refused twice, socketpair when its leak reaches the limit, and more threads
\* than the shell's limit has room for where setfdlimit is not called.  In
\* particular the limits asked of setfdlimit are large enough.
FailuresKnown ==
  /\ failed = "listen" =>
       bench = "close_tcp"
         /\ \E v, w \in Worker : v # w /\ port[v] = port[w] /\ listening[v]
  /\ failed = "refused" => bench = "close_tcp"
  /\ failed = "emfile" =>
       bench = "socketpair" \/ (Script.limit = 0 /\ 3 + lm_optT > InitLimit)

\* accept() returns the connection that the same worker is making in this
\* round: not another worker's, and not one left over from an earlier round.
AcceptsOwn ==
  [][\A w \in Worker : Len(queue'[w]) < Len(queue[w]) /\ listening'[w] =>
       Head(queue[w]) = [from |-> w, live |-> TRUE]]_vars

\* No worker hangs in connect() or accept(): a timed part that begins ends,
\* unless a check fails.
RoundEnds ==
  \A w \in Worker : stage[w] = "timed" ~> stage[w] # "timed" \/ failed # "no"

\* "LM_CHK(listen(ts->ts_lsn, 1) == 0)"
ListenSucceeds == failed # "listen"
=============================================================================
