----------------------------- MODULE WorkerData -----------------------------
(***************************************************************************)
(* What a worker knows of itself: the number of its thread, that           *)
(* gettindex() finds in tids[], its slice of the segment of thread-specific*)
(* data, that gettsd() computes, and the static data that the threads of a *)
(* process share with it.  The threads of a process are created by its     *)
(* first one in worker_process(); pthread_create() may store the id of the *)
(* new thread in tids[] before or after that thread begins.                *)
(***************************************************************************)
EXTENDS Callbacks

VARIABLES
  tids,     \* tids[] holds the worker's thread id
  index,    \* the number it took for its own, N before it took one
  slice,    \* who stored last in the bytes of its slice, N for nobody
  path      \* static exec_path of each process: how often "/exec_bin" is in it

data == <<tids, index, slice, path>>

------------------------------------------------------------------------------
\* A benchmark is a record: its name, and the options that matter.
Op(name) == [op |-> name]

\* The calls that create the threads of a process, in its first one.
Create(i) == [op |-> "create", who |-> i]
Threads(w) == [i \in 1..(lm_optT - 1) |-> Create(w + i)]

\* sigaction, mktime, strftime: fill the slice in benchmark_pre, read it in
\* benchmark.
Kept == [Idler EXCEPT !.pre = <<Op("store")>>, !.bench = <<Op("load")>>]
sigaction == Kept
mktime    == Kept
strftime  == Kept

\* siglongjmp keeps a jump buffer in its slice, exec builds the path of its
\* program in place, the cascades take their number in the first benchmark_pre.
DataScript ==
  CASE bench.name = "sigaction" -> sigaction
    [] bench.name = "mktime" -> mktime
    [] bench.name = "strftime" -> strftime
    [] bench.name = "siglongjmp" ->
         [Idler EXCEPT !.bench = <<Op("store"), Op("jump")>>]
    [] bench.name = "exec" ->
         [Idler EXCEPT !.pre = <<Op("strcpy"), Op("strcat")>>, !.bench = <<Op("exec")>>]
    [] bench.name = "cascade" -> [Idler EXCEPT !.first = <<Op("index")>>]

DataNames == {"sigaction", "mktime", "strftime", "siglongjmp", "exec", "cascade"}

\* The bytes that the callbacks use, and lm_tsdsize: siglongjmp sets it and
\* then sets it to 0.
Used ==
  CASE bench.name = "sigaction" -> 152 [] bench.name = "mktime" -> 56
    [] bench.name = "strftime" -> 112  [] bench.name = "siglongjmp" -> 200
    [] OTHER -> 0
lm_tsdsize == IF bench.name = "siglongjmp" THEN 0 ELSE Used

\* Seeded fault: rounded down.
TsdSizeDown == (lm_tsdsize \div 128) * 128
tsdsize == ((lm_tsdsize + 127) \div 128) * 128

gettsd(w) == (Proc(w) * lm_optT + Thread(w)) * tsdsize
Overlap(v, w) == gettsd(v) - gettsd(w) < Used /\ gettsd(w) - gettsd(v) < Used

\* The first thread is the one that tids[] does not hold.
gettindex(w) == IF Thread(w) > 0 /\ tids[w] THEN Thread(w) ELSE 0
Us(w) == Proc(w) * lm_optT + gettindex(w)

------------------------------------------------------------------------------
DataTypeOK ==
  /\ tids \in [Worker -> BOOLEAN]
  /\ index \in [Worker -> 0..N] /\ slice \in [Worker -> 0..N]
  /\ path \in [Worker -> 0..N]

\* The threads of a process are not born yet, except the first.
DataInit(script) ==
  /\ cb = [w \in Worker |-> IF Thread(w) = 0 THEN "worker" ELSE "unborn"]
  /\ todo = [w \in Worker |->
       IF Thread(w) = 0 THEN Threads(w) \o script[w].worker ELSE <<>>]
  /\ tids = [w \in Worker |-> FALSE]
  /\ index = [w \in Worker |-> N] /\ slice = [w \in Worker |-> N]
  /\ path = [w \in Worker |-> 0]

\* pthread_create() of worker i: its thread begins, its id is stored, in
\* either order, and then the call returns.
Creating(i) == Next1(First(i), {"create"}) /\ Head(todo[First(i)]).who = i

Begin(i, script) ==
  /\ Creating(i) /\ cb[i] = "unborn"
  /\ Enter(i, "worker", script.worker)
  /\ UNCHANGED <<round, choice, once, failed, data>>

StoreId(i) ==
  /\ Creating(i) /\ ~tids[i]
  /\ tids' = [tids EXCEPT ![i] = TRUE]
  /\ UNCHANGED <<round, choice, place, failed, index, slice, path>>

Created(i) ==
  /\ Creating(i) /\ cb[i] # "unborn" /\ tids[i]
  /\ Done(First(i))
  /\ UNCHANGED <<round, choice, failed, data>>

Birth(i, script) == Begin(i, script) \/ StoreId(i) \/ Created(i)

TakeIndex(w) ==
  /\ Next1(w, {"index"})
  /\ index' = [index EXCEPT ![w] = Us(w)]
  /\ Done(w)
  /\ UNCHANGED <<round, choice, failed, tids, slice, path>>

Store(w) ==
  /\ Next1(w, {"store"})
  /\ slice' = [v \in Worker |-> IF Overlap(v, w) THEN w ELSE slice[v]]
  /\ Done(w)
  /\ UNCHANGED <<round, choice, failed, tids, index, path>>

Load(w) ==
  /\ Next1(w, {"load"}) /\ Done(w)
  /\ UNCHANGED <<round, choice, failed, data>>

\* siglongjmp() into the stack of another thread is undefined: the run ends
\* there.  The stacks of forked processes are laid out alike.
Stray(w) == slice[w] # w /\ Proc(slice[w]) = Proc(w)

Jump(w) ==
  /\ Next1(w, {"jump"})
  /\ Unless(Stray(w), "stray", w)
  /\ UNCHANGED data

\* strcpy() of the directory, strcat() of the name.
Spell(w) ==
  /\ Next1(w, {"strcpy", "strcat"})
  /\ path' = [path EXCEPT ![Proc(w)] = IF Head(todo[w]).op = "strcpy" THEN 0 ELSE @ + 1]
  /\ Done(w)
  /\ UNCHANGED <<round, choice, failed, tids, index, slice>>

\* fork(), execv() in the child, waitpid(): the status is not 0 if there is no
\* such program.
Exec(w) ==
  /\ Next1(w, {"exec"})
  /\ Unless(path[Proc(w)] # 1, "exec", w)
  /\ UNCHANGED data

DataCall(w) ==
  \/ TakeIndex(w) \/ Store(w) \/ Load(w) \/ Jump(w) \/ Spell(w) \/ Exec(w)

------------------------------------------------------------------------------
\* Workers are told apart.  A number taken in benchmark() is the worker's own:
\* all threads have passed a barrier that the first one reaches after the last
\* pthread_create().  In the first benchmark_pre(), where the cascades take
\* theirs, a thread may find itself to be the first one of its process.  And
\* what a worker finds in its slice in benchmark() is what it left there in
\* benchmark_pre().
WorkersApart ==
  \A w \in Worker :
    /\ index[w] \in {w, N} \/ (bench.name = "cascade" /\ index[w] = First(w))
    /\ Next1(w, {"load"}) => slice[w] = w
=============================================================================
