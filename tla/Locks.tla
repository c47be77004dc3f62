-------------------------------- MODULE Locks -------------------------------
(***************************************************************************)
(* The benchmarks that measure locks and threads: mutex (one mutex for     *)
(* each process or, with -p, for all of them), file_lock (a record lock,   *)
(* that belongs to the process), semop (a semaphore set for each round),   *)
(* pthread_create (the new thread waits for a mutex that its creator holds *)
(* until benchmark_post) and cachetocache (each worker works through the   *)
(* data of all threads of its process, under their mutexes).               *)
(***************************************************************************)
EXTENDS Callbacks

CONSTANT SemLimit   \* semaphore sets that the system can hold (SEMMNI)

ASSUME LocksAssumption == SemLimit \in Nat

VARIABLES
  owner,   \* who holds each mutex: a worker, N + w for the thread w made, Nobody
  flock,   \* the process that holds the record lock, or Nobody
  sets,    \* the semaphore sets that exist
  sem,     \* the value of the worker's semaphore
  child,   \* the thread that pthread_create made: where it is
  known    \* thread_data[] has the worker's data

locks == <<owner, flock, sets, sem, child, known>>

Nobody == 2 * N

Call(name)  == [op |-> name]
Lock(l)     == [op |-> "lock", of |-> l]
Unlock(l)   == [op |-> "unlock", of |-> l]
Inside(l)   == <<Lock(l), Unlock(l)>>

\* Seeded fault: -p is forgotten.
MutexOfProcess(w) == Proc(w)
\* A mapping is shared by the processes with -p, copied by fork() without it.
Mutex(w) == IF bench.p THEN 0 ELSE Proc(w)

\* thread_data[0], ..., thread_data[lm_optT - 1] of the process
Traverse(w) ==
  [i \in 1..(2 * lm_optT) |-> IF i % 2 = 1 THEN Lock(First(w) + i \div 2)
                              ELSE Unlock(First(w) + i \div 2 - 1)]

\* Seeded fault: the new thread has no mutex to wait for.
CreateUnlocked(w) ==
  [Idler EXCEPT !.bench = <<Call("newthread")>>, !.post = <<Call("join")>>]
Creation(w) ==
  [Idler EXCEPT !.pre = <<Lock(w)>>, !.bench = <<Call("newthread")>>,
                !.post = <<Unlock(w), Call("join")>>]

\* Seeded fault: -1 before +1.
SemopDownFirst ==
  [Idler EXCEPT !.pre = <<Call("semget")>>, !.bench = <<Call("down"), Call("up")>>,
                !.post = <<Call("semctl")>>]
Semop ==
  [Idler EXCEPT !.pre = <<Call("semget")>>, !.bench = <<Call("up"), Call("down")>>,
                !.post = <<Call("semctl")>>]

FileLock == [Idler EXCEPT !.bench = <<Call("block"), Call("unblock")>>]

LockNames == {"mutex", "file_lock", "semop", "pthread_create", "cachetocache"}
LockScript(w) ==
  CASE bench.name = "mutex" -> [Idler EXCEPT !.bench = Inside(Mutex(w))]
    [] bench.name = "file_lock" -> FileLock
    [] bench.name = "semop" -> Semop
    [] bench.name = "pthread_create" -> Creation(w)
    [] bench.name = "cachetocache" ->
         [Idler EXCEPT !.worker = <<Call("register")>>, !.bench = Traverse(w)]

LocksTypeOK ==
  /\ owner \in [Worker -> 0..(2 * N)] /\ flock \in Worker \cup {Nobody}
  /\ sets \in 0..SemLimit /\ sem \in [Worker -> 0..1]
  /\ child \in [Worker -> {"none", "waits", "holds", "over"}]
  /\ known \in [Worker -> BOOLEAN]

LocksInit ==
  /\ owner = [l \in Worker |-> Nobody] /\ flock = Nobody
  /\ sets = 0 /\ sem = [w \in Worker |-> 0]
  /\ child = [w \in Worker |-> "none"]
  /\ known = [w \in Worker |-> FALSE]

------------------------------------------------------------------------------
\* pthread_mutex_lock()
TakeLock(w) ==
  LET l == Head(todo[w]).of IN
  /\ Next1(w, {"lock"}) /\ owner[l] = Nobody
  /\ owner' = [owner EXCEPT ![l] = w]
  /\ Done(w)
  /\ UNCHANGED <<round, choice, failed, flock, sets, sem, child, known>>

ReleaseLock(w) ==
  /\ Next1(w, {"unlock"})
  /\ owner' = [owner EXCEPT ![Head(todo[w]).of] = Nobody]
  /\ Done(w)
  /\ UNCHANGED <<round, choice, failed, flock, sets, sem, child, known>>

\* fcntl(F_SETLKW) waits for other processes only, and F_UNLCK releases what
\* the process holds, whichever thread took it.
Block(w) ==
  /\ Next1(w, {"block"}) /\ flock \in {Nobody, Proc(w)}
  /\ flock' = Proc(w)
  /\ Done(w)
  /\ UNCHANGED <<round, choice, failed, owner, sets, sem, child, known>>

Unblock(w) ==
  /\ Next1(w, {"unblock"})
  /\ flock' = IF flock = Proc(w) THEN Nobody ELSE flock
  /\ Done(w)
  /\ UNCHANGED <<round, choice, failed, owner, sets, sem, child, known>>

\* semget() fails with ENOSPC when the system has no more sets.
SemGet(w) ==
  LET full == sets = SemLimit IN
  /\ Next1(w, {"semget"})
  /\ Unless(full, "semget", w)
  /\ sets' = IF full THEN sets ELSE sets + 1
  /\ sem' = IF full THEN sem ELSE [sem EXCEPT ![w] = 0]
  /\ UNCHANGED <<owner, flock, child, known>>

\* semop() with +1, then with -1, which waits for the value to be positive.
SemOp(w) ==
  /\ Next1(w, {"up", "down"})
  /\ Head(todo[w]).op = "down" => sem[w] > 0
  /\ sem' = [sem EXCEPT ![w] = IF Head(todo[w]).op = "up" THEN @ + 1 ELSE @ - 1]
  /\ Done(w)
  /\ UNCHANGED <<round, choice, failed, owner, flock, sets, child, known>>

\* IPC_RMID
SemCtl(w) ==
  /\ Next1(w, {"semctl"})
  /\ sets' = sets - 1
  /\ Done(w)
  /\ UNCHANGED <<round, choice, failed, owner, flock, sem, child, known>>

NewThread(w) ==
  /\ Next1(w, {"newthread"})
  /\ \/ child' = [child EXCEPT ![w] = "waits"] /\ Done(w)
        /\ UNCHANGED <<round, choice, failed>>
     \/ Fails("thread") /\ UNCHANGED child
  /\ UNCHANGED <<owner, flock, sets, sem, known>>

\* func(): pthread_mutex_lock(), pthread_mutex_unlock()
Child(w) ==
  /\ failed = "no"
  /\ \/ /\ child[w] = "waits" /\ owner[w] = Nobody
        /\ owner' = [owner EXCEPT ![w] = N + w]
        /\ child' = [child EXCEPT ![w] = "holds"]
     \/ /\ child[w] = "holds"
        /\ owner' = [owner EXCEPT ![w] = Nobody]
        /\ child' = [child EXCEPT ![w] = "over"]
  /\ UNCHANGED <<round, choice, place, failed, flock, sets, sem, known>>

JoinThread(w) ==
  /\ Next1(w, {"join"}) /\ child[w] = "over"
  /\ child' = [child EXCEPT ![w] = "none"]
  /\ Done(w)
  /\ UNCHANGED <<round, choice, failed, owner, flock, sets, sem, known>>

\* thread_data[pthread_self() - 1] = ts: Solaris numbers the threads from 1.
Register(w) ==
  /\ Next1(w, {"register"})
  /\ known' = [known EXCEPT ![w] = TRUE]
  /\ Done(w)
  /\ UNCHANGED <<round, choice, failed, owner, flock, sets, sem, child>>

LockCall(w) ==
  \/ TakeLock(w) \/ ReleaseLock(w) \/ Block(w) \/ Unblock(w)
  \/ SemGet(w) \/ SemOp(w) \/ SemCtl(w) \/ NewThread(w)
  \/ JoinThread(w) \/ Register(w)

------------------------------------------------------------------------------
\* Two workers are never inside the same lock.  The mutex benchmark excludes
\* the threads of a process and, with -p, all workers; the data of a thread is
\* worked through by one thread at a time, and not before that thread has
\* registered it.  The record lock excludes processes, not the threads of one,
\* and it does so until the first thread of a process has unlocked: then others
\* may come in although its siblings are still inside.
Unblocked(u) == cb[u] = "post" \/ (cb[u] = "bench" /\ todo[u] = <<>>)
Given(v) == \E u \in Worker \ {v} : Proc(u) = Proc(v) /\ Unblocked(u)
In(w) == cb[w] = "bench" /\ todo[w] # <<>> /\ Head(todo[w]).op \in {"unlock", "unblock"}
Exclusive ==
  /\ \A v, w \in Worker : v # w /\ In(v) /\ In(w) =>
       CASE bench.name = "mutex" -> ~bench.p /\ Proc(v) # Proc(w)
         [] bench.name = "file_lock" -> Proc(v) = Proc(w) \/ Given(v) \/ Given(w)
         [] OTHER -> Head(todo[v]) # Head(todo[w])
  /\ \A w \in Worker :
       bench.name = "cachetocache" /\ Next1(w, {"lock"}) => known[Head(todo[w]).of]

\* What the timed part of pthread_create makes does not run in the timed part,
\* the new thread gets no further than its mutex; and it is gone when the next
\* round begins, as its id is overwritten then.
ChildWaits ==
  \A w \in Worker :
    /\ stage[w] = "timed" => child[w] \in {"none", "waits"}
    /\ Idle(w) /\ cb[w] \in {"worker", "post"} => child[w] = "none"
=============================================================================
