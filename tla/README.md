# libMicro in TLA+

libMicro measures system and library calls. Every benchmark is a small program:
a harness (`src/src/libmicro.c`) and a module of callbacks
(`benchmark_init`, `_initrun`, `_initworker`, `_pre`, `benchmark`, `_post`,
`_finiworker`, ...). The harness forks `-P` processes of `-T` threads each and
lets them go through rounds in lock-step; only `benchmark` is timed. The
project models the harness, and those callback modules whose workers interact.

All paths below are relative to `src/`.

## Inventory

| part | state | operations | what makes it hard | what makes it correct |
|---|---|---|---|---|
| barrier (`src/libmicro.c` 512-580) | `ba_lock`, `ba_cv`, `ba_waiters`, `ba_phase`, `ba_hwm` in shared memory | `barrier_create`, `barrier_queue` | wakeups before, between and after the waits; a phase that wraps | nobody passes before everybody has arrived; everybody passes then |
| run loop (`src/libmicro.c` 98-436, 1069-1094) | `ba_flag`, `ba_samples`, `ba_data`, the deadline, processes, threads | fork, create threads, rounds, record, stop, join, wait, report | flag and count read without the lock, a deadline at any moment, one process failing | rounds in lock-step, samples fit, fair shares, a report only of a complete run, every run ends |
| statistics (`src/libmicro.c` 462-500, 776-993) | the samples, `stats_t`, the histogram | sort, percentiles, buckets, bars | rounding, negative and equal samples, whole numbers, very few samples | order statistics are what they are called, every sample but known ones has a bucket, bars fit |
| options (`src/libmicro.c` 150-215, 708-774) | the option variables | getopt, `sizetoll`, `sizetoint` | a size of any sign, -1 for one that does not parse, cut to an int, added in int | every buffer is as large as what is accessed in it, or the run ends with a reason |
| worker data (`src/libmicro.c` 225-252, 582-614) | `tsdseg`, `tids`, `pindex`, static variables of callback modules | `gettsd`, `gettindex`, `getpindex` | `tids[i]` stored after the thread has started, slices rounded to 128 bytes, a module that asks for no bytes and uses some | workers are told apart: own number, own slice |
| cascades (`src/cascade_*.c`) | two locks per worker | a script of blocks and unblocks round a ring | deadlock, lost signals, unlocking another's lock | the baton goes round; nothing is blocked afterwards |
| `src/exit.c`, `src/fork.c` | a second barrier, children, `ts_pid` | fork, queue, exit, waitpid | more users than the barrier was made for; memory shared by parent and child | every child reaped in its round, workers stay |
| descriptors (21 files, from `src/open.c` to `src/connection.c`) | descriptor tables, ports, accept queues | open, close, bind, listen, connect, accept | numbers reused between threads, ports raced for, retries | own descriptors only, balanced rounds, own connection accepted |
| `src/pipe.c` | descriptors of the round, bytes in two channels, a loopback thread or process | prepare, spawn, write, read, join, close | capacity, partial reads, leaks, numbers that are the same descriptor, a loopback that was never made | a round trip per callback, each descriptor closed once, calls return |
| `src/poll.c`, `src/select.c` | descriptors made before the workers exist | poll, select | the expected result is computed from the options, in three ways | it is what the call returns |
| mappings (`src/mmap.c`, `munmap.c`, `mprotect.c`, `msync.c`) | a mapping per worker or per process, a file and its length | map, touch, protect, truncate, unmap | protection changed under another thread, a file shorter than its mapping | rounds balance, failures have known causes |
| locks and threads (`src/mutex.c`, `pthread_create.c`, `semop.c`, `file_lock.c`, `cachetocache.c`) | one lock for all, for a process or a worker; a thread; a semaphore | lock, unlock, create, join, semop | order of unlock and join, locks that belong to a process of several threads, resources of the system | exclusion where it is meant, the new thread waits and is gone, rounds end |
| memory and strings (`src/malloc.c`, `memset.c`, `memcpy.c`, `memmove.c`, `memrand.c`, `str*.c`) | private buffers | allocate, access | offsets, alignment, the last byte, int and long long mixed, sums that overflow | accesses stay inside |
| clocks, signals, contexts, arithmetic | none between rounds | one library call | nothing interacts | not modelled, except what `sigaction`, `mktime`, `strftime`, `siglongjmp` and `exec` keep between callbacks |
| scripts and makefiles | - | - | - | not modelled |

Interaction: the callback modules see nothing of the harness but its rounds.
They share with each other the descriptor table of a process, files, memory
that `initrun` mapped before the fork, ports, and in `exit` and `fork` a second
barrier. `PROJECT.json` lists the hazards line by line.

## Modules

    Rendezvous <--implements-- Barrier <--uses-- Harness --implements--> Rounds
                                  ^                                        ^
                                  |                                        |
                               Exit, Fork ---------------- use ------------+
                                              Cascade, Callbacks use it ---+
    Callbacks <--extended by-- Descriptors
                               Pipe --implements--> Echo
                               WorkerData <-- Memory --+
                               Locks ------------------+--> Objects
                               Polling ----------------+

* **Rendezvous**: what a barrier promises: sets `arrived` and `released`.
* **Barrier**: `barrier_queue`, one action per stretch between two points where
  another thread can run: `Call`, `Lock` (`ba_lock` taken), `Queue` (count,
  phase, broadcast, up to `pthread_cond_wait` or the end), `Relock` (woken, the
  lock again, the `while` test), `Unlock`. `Spurious` is a wakeup without a
  broadcast. `bpc` is the place in the function, `seen` its local `phase`.
  `PhaseMod` stands for the 2^32 values of the int.
* **Rounds**: what the harness promises to a benchmark: nobody is in `benchmark`
  unless everybody is through `benchmark_pre`, nobody goes on to
  `benchmark_post` before everybody is through `benchmark`, all stop after the
  same round.
* **Harness**: `actual_main` (`Fork`, `Wait`, `Report`), `worker_process`
  (`CreateThread`, `StartMain`, `Exit`) and `worker_thread` (`TestFlag`, `Pre`,
  `Sync`, `Benchmark`, `Check`, `Clear`, `RecordQueue`, `Post`) over an instance
  of Barrier. The test of flag, deadline and target, the assignment to
  `ba_flag` and the recording are separate steps, as in the code. `Fail` is
  `lm_err`: `exit(1)` ends the process with all its threads. `recorded` and
  `calls` are history variables.
* **Cascade**: the ring of the cascade benchmarks over an instance of Rounds. The
  scripts are data (`FullScript`, `FlockScript`), the lock primitive is chosen in
  `Init`; a primitive is three definitions: may a block return, what does an
  unblock do, whom does it signal.
* **Exit**, **Fork**: the two benchmarks with a barrier of their own.
* **Callbacks**: the workers of a benchmark as its module sees them: the harness
  calls `benchmark_initworker`, then `_pre`, `benchmark`, `_post` in the rounds of
  Rounds, then `_finiworker`. What a callback does is a script, a sequence of
  calls; `cb` is the callback a worker is in, `todo` what is left of it, `once`
  is `ts_once`. `lm_optT` is the number of threads per process, chosen in `Init`
  from `ThreadCounts`: the N workers are N / `lm_optT` processes, worker w is
  thread `Thread(w)` of process `Proc(w)`. The modules below extend it with what
  the calls do.
* **Descriptors**: the descriptor benchmarks as scripts on a small kernel:
  descriptor tables (lowest free number), ports, listening sockets, handshakes,
  accept queues. A worker's slot is zero until it is assigned, as its mapped data
  is: a call on a stale slot hits descriptor 0.
* **Pipe**: `pipe.c`. `held` are the descriptors a worker has a number of, `leaked`
  counts those it has lost; `chan` counts the units in its two channels; `write`
  and `readall` move any number of units at a time, as far as there is room;
  `loop` is the loopback, which reads and writes a buffer three times. A "fifo" is
  a plain file, because `mknod` gets its arguments in the wrong order
  (`pipe.c` 393): it never fills up and ends at once.
* **Echo**: what a round of the pipe benchmark promises: three round trips, each
  asked, served and answered in this order.
* **WorkerData**: `tids` (in which a thread's id appears before or after the
  thread begins), the number a worker takes for its own (`index`), who stored
  last in its slice of `tsdseg` (`slice`), and the static path of `exec.c`. The
  threads of each process are created by its first one while the others run.
* **Memory**: mappings and buffers. Scripts are lists of allocations and accesses
  with their sizes and places; an access outside its buffer ends the run
  ("overrun"), as do a page behind the end of a file ("bus") and a protected
  segment ("segv"). `ToInt` is the assignment of a `long long` to an `int`.
  A sum of ints that overflows is undefined: `IntSum` has both outcomes a build
  may produce, the sum that wraps and the one that is extended first
  (`strlen.c` 79, `strcpy.c` 80). So has the int index of the loops over the
  pages of `munmap.c`, `msync.c` and `mprotect.c` on more than 2 GB (`Wraps`:
  the run ends there, or the loop goes on).
* **Locks**: who owns each mutex, the record lock of a process, semaphore sets, the
  thread that `pthread_create.c` makes, and `thread_data[]` of `cachetocache.c`.
* **Polling**: the descriptors that `initrun` makes ready and the three formulas
  for the expected result.
* **Objects**: the composition of the last four; a run picks one of their
  benchmarks and its options.
* **Stats**: the arithmetic of the report as operators on exact samples
  (integers in fractions of a microsecond). `qsort` is external: `Sorted` puts each
  sample where its rank in the order of `doublecmp` says. `print_histo` sorts the
  samples where they are. The loop that divides by ten and multiplies again is a
  recursive function of the divisor (`BucketWidth`). The 0.000001 that is added to
  the smallest sample before its fraction is cut off (`libmicro.c` 828) is less
  than a unit, as `Unit` is below 10^6: it turns -1.0 into 0 and changes nothing
  else (`LeastWhole`). The 0.9999999999 that rounds the width up stands for
  rounding up. Rounding of doubles is not modelled. Samples counted at index -1
  are `strays`; a width of 0 or a fullest bucket of 0 divides by zero (`Outcomes`).
* **MC...**: instances for TLC.
* **BarrierProof**, **HarnessProof**, **CascadeProof**, **ExitProof**,
  **CallbacksProof** (extended by **ObjectsProof**, **PipeProof** and
  **DescriptorsProof**): the theorems.
  A proof module EXTENDS the module it is about and takes what is proved of the
  barrier as an INSTANCE of BarrierProof (Harness and Exit). The invariant of the
  rounds is stated in Rounds; CascadeProof, ExitProof and CallbacksProof each have
  the three lemmas that their own instance of Rounds keeps it.

Definitions marked "Seeded fault" are wrong variants of the definition after
them. They are used in no behaviour; replacing a definition by its faulty
variant must break a property, which shows that the property sees the code.

## Runs

| run | instance | what it shows |
|---|---|---|
| barrier | 3 threads, phase modulo 4 | no lost wakeup, exact count, refinement of Rendezvous; a complete generation gets out |
| harness | 2 processes, 2 threads, 1 sample each; fork, thread creation, `benchmark` or `benchmark_post` may fail; deadline at any moment | timed parts are undisturbed, `ba_data` is never overrun, shares differ by one at most, a report is complete, refinement of Rounds; a run in which no process fails ends |
| harness_failure | 2 processes, `benchmark` may fail | **violated**: a failed process can leave the run hanging |
| cascade | 3 workers; mutex, condition variable (both orders), lockf, fcntl | order of the ring, owner unblocks, nothing left blocked, no cycle of waits, every round ends |
| cascade_flock | 3 workers, flock | **violated**: flock never blocks here, workers overtake each other |
| exit | 2 workers with children, both threads of one process or both processes | children are reaped in their round and rounds end although the barrier opens twice |
| fork | 1 worker, word reloaded | **violated**: a worker exits in the middle of the run |
| stats | three plateaus of 0, 1, 2 or 19 samples, 40 at most, eight values from -10 to 12345 us, whole negative ones included | order, percentiles, which samples have no bucket, when the bars cannot be drawn |
| descriptors | 2 workers, 24 scripts, threads or processes | own descriptors, balanced rounds, limits suffice, own connection accepted, no hang |
| listen_race | 2 close_tcp workers | **violated**: both bind one port, the second `listen` fails |
| pipe | 2 workers, 4 transports, 3 modes, a buffer of 0, 1 or 3 units in channels of 2; the loopback may not be made | each callback is one round trip (refinement of Echo); descriptors are closed once and none leak, except with `-m st` on sockets; calls return, except two that cannot |
| objects | 4 workers: 4 processes of 1 thread, 2 of 2; 27 benchmarks with their options, sizes and offsets on both sides of every limit | own numbers and slices, exclusion, the handshake of `pthread_create`, balanced rounds, and a known cause for each failure; rounds end |

Why these bounds. Three threads at a barrier give an arrival that is first,
between and last, and a thread still leaving the last phase while another waits
in the next; a phase modulo 4 wraps often and still tells one phase from the
next but one. Two processes of two threads have a process that fails before and
after the one waited for, and threads that die with their process; one sample
per worker already means two rounds, since the last round is not recorded. In
the ring, three is the smallest size with a worker that is neither first nor
last. In Stats, 19 equal samples and one or two others put the 95th percentile
inside, at the edge of, and between plateaus. With two workers every race for a
port or a descriptor can happen; descriptor limits are scaled down
(`InitLimit` 8) so that a limit that is too low shows, and the descriptor 1024 of
`close -b` (`BadFd`) is 10, above the shell's limit as 1024 is. In `objects` the four
workers give both a process with a sibling thread and another process: a record
lock is released by one thread while its sibling is still inside, and the other
process comes in. An int has 7 bits (`IntMod` 128), a page 4 bytes (the largest
`-a` of `memset` too), the 64 megabytes of `-u`, `-f` and `-t` are 32, a long has
2, and `memrand` steps back 4 longs instead of 128; sizes and offsets are
negative, zero, odd, and on both sides of 32, 64 and 128. `SemLimit` 4 is one
semaphore set for each worker, the least with which a round gets on, `FdSetSize` 8 lies inside the numbers of descriptors
tried. In `pipe` a buffer of 3 units does not fit a channel of 2, so writes and
reads come in parts.

What a violated run means is in `PROJECT.json` under "findings". Two remarks. The
race in `fork` needs a build that reads `ts_pid` back from memory: the
Makefiles pass no `-O`, and such code does (`Reload`). The hang after a failure
needs more than one process.

The type invariants of Cascade, Exit, Descriptors, Pipe and Objects are stated in
their modules; the runs check them no longer, in favour of the properties above.

Exceptions that the properties name, each reachable in its run:

* `socketpair` leaks a descriptor each round, and so does `pipe -m st` on a
  socketpair or a connection; a long run ends with EMFILE.
* Some descriptor benchmarks (`read`, `setsockopt`, ...) never call `setfdlimit`: with
  more threads than the shell's limit has room for they end with EMFILE at once.
* `pipe -m mt` hangs when `pthread_create` fails (its error is compared with -1),
  and `pipe -m st` when the buffer is larger than the pipe. With `-x fifo` it never
  gets through a round: other modes find their file empty, and `-m st` unlinks
  a file that it did not make.
* `mprotect -t` with several threads in a process reads a segment that another
  thread has closed. (`-r` and `-w` touch it in `benchmark_initrun`, before there
  are workers; `touch` is `-t` there.)
* `siglongjmp` asks for no data and has all its workers' jump buffers in the same
  bytes; with several threads in a process the jump may be into another's stack.
  `exec` with several threads in a process may find its path spelt in part or twice.
* The cascades take their number in the first `benchmark_pre`, when `tids[]` may not
  hold the thread yet: two workers may be number 0. glibc stores the id before the
  thread begins, POSIX does not promise it. Module Cascade has correct numbers.
* `file_lock` does not exclude the threads of a process, and the first of them to
  unlock releases the lock for all: with `-P 2 -T 2` another process comes in
  while a sibling is still inside (`Given`).
* `msync` with its default file ends in `ftruncate`, which is for regular files.
* A size that does not parse is -1 and goes to the benchmark, an offset `-a` of -1
  underruns the buffer. Sizes of 2 GB and more are cut to an int in some places
  and not in others (`malloc -g` is cut); with `-s` 2147483647 the string
  benchmarks may ask `malloc` for a negative size and write to a null pointer;
  `memset` and `memcpy` ask for a size that fits no int; `munmap`, `msync` and
  `mprotect -t` count the pages of a longer mapping in an int.
* `exit.c` says "Start them all exiting" (116-118), but the barrier is made for half
  of its users, so that the children may open it by themselves and be gone before
  the timed part (`ExitTimed`).
* A report on a single sample divides by zero: no bucket is counted (`crashed` in
  Stats). It never gets made, as `BarsFit` says.
* If the smallest sample is a negative multiple of the width of a bucket, it is
  counted at index -1, in front of the histogram (`strays`); if that holds of all
  below the 95th percentile, the report divides by zero; and it does so
  (`min /= y`) if the smallest is a whole negative number and the width becomes 0.

## Fairness

Threads and processes are scheduled by the kernel: weak fairness of every step of
theirs. A mutex need not be fair, but a thread that keeps asking for a lock that
is free again and again gets it: strong fairness of the steps that take a lock.
Nothing is assumed of the environment that need not happen: no failure, no
spurious wakeup, no deadline. The kernel completes a TCP handshake when the
accept queue has room. In Pipe the loopbacks are scheduled as the workers are. In Objects less is assumed: `WF_vars(Work)`
says only that as long as some thread can go on, one of them does, in any order. It
is enough, since every worker makes its calls once a round and then waits
for the others; a round could be kept from ending only by workers that all wait.

CHECK_DEADLOCK is off where the system may really stop: in `harness` and
`harness_failure` a failed process leaves the others at the barrier, in `fork` a
worker may be gone, and in `pipe` a worker may hang (`CallsReturn` says when).

## Proofs

Everything below holds for every value of the constants that the named assumption
of the module allows. Those assumptions are the types and ranges of the options
(at least one process, thread, sample, worker), that "nobody" is not one of the
threads, and a modulus of the phase above 1.

**Barrier** (`BarrierProof`), for every finite set of threads, every `ba_hwm` and
every modulus of the phase (`BarrierAssumption`):

* `BarrierType`: `Spec => []TypeOK`.
* `BarrierMutex`: `Spec => []MutexInv`. The lock is owned by the thread in the
  critical section, and no thread sleeps through the broadcast of its phase.
  Both parts are needed together: a thread goes to sleep with the current phase
  only because it owns the lock.
* `BarrierCount`, if `ba_hwm` is the number of threads (as `actual_main` creates
  the barrier, `FullHwm`): `Spec => []CountInv`. The count is the number of
  threads that have arrived in this phase, and a released thread is exactly one
  phase behind. The induction needs `TypeOK`, `MutexInv` and both parts of
  `CountInv`: when the count reaches `ba_hwm` every other thread has arrived
  (`LastArrival`), so nobody is still leaving the previous phase, and the phase
  may advance without fooling anybody's test even when it wraps.
* `BarrierRefinement`, if `FullHwm`: `Spec => ImplementsRendezvous`. Queueing is an
  arrival, early or last; leaving is `Unlock`; all other steps stutter.

**Harness**, for every `-P`, `-T`, `-C` and every set of functions that may fail
(`HarnessAssumption`). The invariant `HarnessInv` has three layers, each with the
one below as a premise:

* `BaseInv` (`HarnessProof`): `TypeOK`, the three invariants of the barrier, where
  each worker is in `barrier_queue` for its place in `worker_thread`, and which
  processes exist, have their threads and are waited for. The barrier is not
  looked into again: the lemmas of BarrierProof are cited for the instance
  `Threads <- Worker, Hwm <- P * OptT`; its assumption and `FullHwm` are proved
  there from `HarnessAssumption`. A process that fails stops where it is:
  its threads keep their places at the barrier, so that the invariants of the
  barrier need not know who is alive. `HarnessType` follows.
* `StageInv`: the workers are all outside the timed part or all in
  it, and one that goes on has been permitted to. A step is first
  classified by what it does to the stages (`StageStep`), where the barrier's
  count is used: the last worker to queue finds all the others waiting. From
  this `HarnessTiming` (`TimingAlone`) and `HarnessRefinement` (`ImplementsRounds`,
  with every step either one of Rounds or a stutter).
* `SamplesInv`: there is a number k of rounds recorded by
  everybody, the workers `Ahead` have recorded one more, and `ba_samples` is
  k * P * T plus how many these are; whoever has seen the target or the deadline
  says so before anybody gets into another round (`Tally`, `Reasons`). The target is
  compared with == in the code: the proof that it is met and not passed is that
  the sum is the target only when k is `OptC` (`RoundsDiffer`). From this
  `HarnessSamplesFit`, `HarnessFairShare`, `HarnessReport` and the action property
  `HarnessLate`.

These three are about multiplication of the real options; the overflow of that
product in an int (`libmicro.c` 257) is a hazard that the model does not have.

**Stats** (second part of `HarnessProof`, which extends Stats too: hence the names
`StatsInit`, `StatsNext`, `StatsSpec`), for every set of sample arrays of any length and
magnitude and every unit below 10^6 (`StatsAssumption`). Stats
has no loop over states: its invariant `ReportInv` says that what has been computed so far
fits the array, and the work is in what the operators compute.

* Ranks are a permutation (`RankType`: two samples never have the same rank, so
  that each rank is taken), hence sorting sorts (`SortedAscends`) and keeps every
  sample (`SortedCounts`). At place k of a sorted array k samples at least are as
  small, and fewer than k smaller (`CountSorted`); with the arithmetic of the
  indices (`PlaceIs`) this gives `ReportOrdered` and `ReportSamples`.
* The width of the buckets, times their number, covers r95, however often r95 is
  divided by ten (`WidthExists`, `WidthCovers`: by the distance of the divisor to
  r95). Division truncates toward zero, so the smallest sample may lie above or
  below where the histogram begins; no quotient reaches 32, and one is negative
  exactly if the smallest sample is a negative multiple of the width and the sample
  is as small (`BucketReached`). The counts of the buckets and these samples
  add up because each other sample falls into one bucket (`BinsAdd`). From this
  `ReportBuckets`.
* `ReportBars`: without a negative whole number as the smallest sample the width is
  positive and the smallest sample has a bucket, if one is counted at all; with a single
  sample none is, and no report is printed.

**Rounds** (`CallbacksProof`), for every set of workers: `RoundsLockstep`, the invariant
`LockstepInv` that the benchmark modules start from.

**Cascade**, for rings of every size and every primitive but flock
(`CascadeAssumption`, and `"flock" \notin Kinds` in each theorem: the flock benchmark has
another script and breaks `RingOrder`, as the run cascade_flock shows). The
invariant `CascadeInv` says that the rounds are in lock-step, and

* `PcInv`: each worker's place in the script fits its stage;
* `HolderInv`: who holds a lock is a function of the places of the workers. Place
  p of the script holds the locks `HoldsAt(w, p, l)`, and an operation changes the
  hold of one lock (`Transfer`). `CascadeOwner` and `CascadeUnblocked` follow;
* `RingInv`: how far a worker may be ahead of its successor, and behind it, at the three
  operations where it waits for another. It is what the baton comes
  to, and `CascadeOrder` follows from it. It needs `HolderInv`, because a worker
  passes such a place only when the lock is not held, that is when the
  neighbour is at a place that does not hold it.

`CascadeNoCycle`: in a set of workers each waiting for another of the set, all wait
for their predecessors (`WaitChain`), at the operations 1, 5 or 9; so worker 0 and
the last one are among them. Those at 5 or at 9 stand in an unbroken row that begins
with worker 0, which cannot be reconciled with what worker 0 and the last one
wait for. The start of a row is the least element of a set (`LeastWorker`, from
the well-foundedness of <).

**Exit**, for every number of workers, as threads and as processes
(`ExitAssumption`). The invariant is lock-step, `TypeOK` and `ReapInv`: before the
timed part exactly the workers that are ready have a child; in it, processes
that have not waited have theirs, and threads have as many children among them
as there are threads that have not waited. Threads reap each other's children, so
for them only the numbers agree, and the proof counts
(`FiniteSetTheorems`). It assumes nothing of the second barrier but its type:
`ExitChildForEach` and the action property `ExitNoneLeft` hold although that barrier
opens early.

**Callbacks** (`CallbacksProof`): the lemmas that every benchmark over Callbacks
needs, over an arbitrary set of calls. `PlaceInv` is lock-step, and that a worker is
in the callback that fits its stage; `Scripted`, that what a worker still has to call
is the rest of its script. Each kind of step (a call made, the loop test, a return to
the harness, the deadline) preserves both.

**Objects** (`ObjectsProof`), for every number of workers, every division of them into
processes of equally many threads (`CallbacksAssumption`) and every choice of options of
the right kinds (`ObjectsAssumption`: sizes and offsets are any integers). All five theorems rest on `CoreInv`
(the two invariants of CallbacksProof, for the script of the benchmark chosen, with the
calls of each callback in the set of its family) and on `StateInv`, the types of the
variables. A benchmark that does not make a kind of call is disposed of by its family.

* `ObjectsApart` (`WorkersApart`). `BirthInv`: a thread that is not born, or not in
  `tids[]`, is still to be created by the first thread of its process, which therefore
  has not yet reached the barrier; so a number taken in `benchmark` is right and one
  taken in the first `benchmark_pre` is right or that of the first thread (`IndexInv`). `KeptInv`: from `benchmark_pre` to
  `benchmark` a worker's slice holds what it stored, because slices of `tsdsize`
  bytes are as large as what is used, so that no two overlap (`KeptApart`).
* `ObjectsChildWaits` (`ChildWaits`). `ChildInv` ties where the new thread is and who
  holds its mutex to the place of its creator in the script.
* `ObjectsExclusive` (`Exclusive`). `HeldInv`: whose next call is an unlock holds that mutex,
  which one owner can do; `FlockInv`: a worker inside the record lock is in its timed
  part, and its process holds the lock or a sibling has unlocked it (`Given`);
  `KnownInv`: a worker has registered its data before its first round, so that who
  is in `benchmark` finds all of them.
* `ObjectsBalanced` (`RoundBalanced`). Each thing that a round makes is counted by the
  place of its maker: `MapsInv` (a worker has a mapping exactly from the `map` of its
  script to the `unmap`), `BlockInv` (the same of the block of `malloc`), `SetsInv`
  (there are as many semaphore sets as workers between `semget` and `semctl`, counted
  with `FiniteSetTheorems`). They say nothing of a run that was cut short, so they are
  conjuncts of the invariant under `failed = "no"` (`GoingInv` in `RunInv`).
* `ObjectsFailures` (`FailuresKnown`) needs one argument for each reason, and looks at
  the step with which a run is cut short (`Faults`). An access: `OnlyScript` computes for
  every script, and either outcome of a sum of ints, that what is allocated and what is
  accessed fit, or the case is one that `OverrunKnown` names (`Sound`, with `IntFits`
  for sizes converted to an int), and `HeapInv` says that a buffer whose allocation is no
  longer in front of the worker has its size. `memrand`: the function `Hop` exists and
  stays inside if the buffer has 128 longs (`HopsInside`). `poll` and `select`:
  `TargetFound` proves, for all -n, -r, -w and -x accepted, that the formula of
  `benchmark_initrun` is the number of ready descriptors: the partner of a partner is
  oneself (`PartnerType`), so those readable are the r chosen ones (`ReadableAre`).
  `semget`: `SetsInv` (with all N - 1 others holding one there is room for N). `msync`: the
  file is as long as the mapping once it is mapped (`FileInv`). Shared data: a worker
  that is the only thread of its process finds the segment open when it reads (`SegInv`)
  and its path spelled once (`PathInv`), and there is no other's stack to jump into.

**Pipe** (`PipeProof`), for every number of workers and of threads per process, every
buffer and channel size, and every choice of options that parses
(`PipeAssumption`: `Benchmarks \subseteq Options`; a size that does not parse is
-1 and is left out). A script of `pipe.c` depends on mode, transport and on what
fails, so its tail is not written out but described:

* `PlanInv`: what each callback still has to call, as a set of calls (`Left`) and an
  order that they keep (`Before`); each call occurs once.
* `ClosesInv`: which descriptors a worker has made and which it has closed fits what is
  left of its round, and the loopback lives from `spawn` to `join`. From it
  `PipeCloses` (`RoundCloses`).
* `EchoInv`: units are conserved. In each channel lies what one side has written
  and the other has not read, counted over the trips done (`Asks`, `Answers`, `Heard`,
  `Echoed`). It is what makes the loopback's three reads and writes, in any parts,
  come out at the ends of units. From it `PipeRefinement` (`ImplementsEcho`): the last
  part of a worker's write asks, that of the loopback's write serves, that of the
  worker's read answers, and all other steps stutter.
* `SupplyInv`: a worker holds nothing but what its round makes and its listening
  socket, and one that is alone has in its channel what it has written and not read.
  From it `PipeFailures` (`FailuresKnown`), which needs all the others too. The limit of
  descriptors is about a sum over the workers of a process; that the fold over a set
  of any size exists and is at most four times as large as the set (`SumExists`,
  `SumBound`) is shown by the least cardinality for which it would not be so, from the
  well-foundedness of <.

**Descriptors** (`DescriptorsProof`), for every number of workers and of threads per
process, every limit of the shell from 8 on, and all 24 scripts
(`DescriptorsAssumption`; 1024 lies above the shell's limit, but may lie below the one
that `setfdlimit` asks for). All four theorems rest on `DescriptorsInv`, which follows
one idea: what a worker has (open descriptors, a bound and a listening socket, a
connection it asked for) is what the rest of its script starts from.

* `HeldInv`: the calls left of a callback are a run (`Runs`) from what the worker has
  (`Holding`) to what it has between callbacks (`AtEnd`): each is legal for what there is
  then (`Legal`: nothing is opened over an open descriptor, nothing used or closed
  that is not open) and changes it in a known way (`After`). `ScriptRuns` checks this of every
  script by computation; everything else is about `Legal` and `After` alone.
* `TableInv`: each descriptor in use is one of the first, the one of `benchmark_initrun`,
  in the slot of the worker that opened it, or one that `socketpair` lost. `OnceInv`: the
  descriptors of the first `benchmark_pre` exist exactly after it.
* `QueueInv`: an accept queue holds at most the connection of its own worker, and that
  connection is not also waiting. `PortInv`: two workers on one port are those of
  `close_tcp`, and one of them listens at most.

`DescriptorsOwn` (`OwnDescriptor`) is `HeldInv` and `TableInv` for the next call.
`DescriptorsBalanced` (`RoundBalanced`): between rounds the slots of a worker are in
bijection with the descriptors that are its own. `DescriptorsFailures` (`FailuresKnown`)
counts: a table that is full (`TableFull`) has as many descriptors as its workers have
opened, and those are fewer than the limit that each benchmark asks for (`LimitsSuffice`);
and a free port is always found, since there are as many ports as workers
and the worker that asks has none (`PortLeft`).
`DescriptorsAccepts` (the action property `AcceptsOwn`): a queue of an open
listening socket gets shorter by `accept` only (`ShrinksBy`).

The descriptor limits of `FailuresKnown` were wrong at first: the proof did not go
through for benchmarks that never raise the limit, which the instance is too small to
show (the exception above).

Each invariant was checked by TLC on the instance of its run before it was proved.

Model-checked only:

* Liveness (`AllPass`, `RunEnds`, `RoundEnds`, ...): fairness and ENABLED are out of the
  prover's reach.
* Fork, and the runs that expect a violation.

## Not modelled

Floating-point statistics, printing, the clock's cost, the alignment sleep `-A`,
the getopt loop, transferred data, contents of buffers, file offsets, socket
options and addresses, flags of `mmap`, `msync` and `fcntl_ndelay`, `isatty -b`. The
sizes of `malloc` are one size; its ring of 32 (`-s` given 32 times leaves none) is
left out. `longjmp.c` never jumps, and neither it nor the clock, process, signal,
context and arithmetic benchmarks keep anything between rounds: there is nothing in
them that a model could contradict. The same goes for `atomic.c`, `system.c` and
`strtol.c`. A record lock belongs to a process: the lockf and fcntl cascades are
modelled with one worker per process, as `bench.sh` runs them; several threads of a
process would not exclude each other there. In `exit` the workers are all threads of one
process or all processes of one thread. Linux semantics are used where systems
differ (SO_REUSEADDR, the accept queue, plain files from `mknod` with swapped
arguments); `cachetocache.c` is modelled on Solaris, the only system it is for.

## Plan

1. Done: Barrier, Rendezvous, BarrierProof; Rounds, Harness; Cascade; Exit, Fork;
   Stats; Callbacks with Descriptors, Pipe and Echo, WorkerData, Memory, Locks,
   Polling and Objects.
2. Done: proofs of Barrier, Rounds, Harness, Cascade, Exit and Stats; over
   CallbacksProof, all the safety properties of Objects, Descriptors and Pipe and
   Pipe's refinement of Echo.
3. Next: processes of several threads in Exit, as in Callbacks; an invariant of Fork
   with `Reload` FALSE (every worker stays to the end of its rounds) and its proof.
