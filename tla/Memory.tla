------------------------------- MODULE Memory -------------------------------
(***************************************************************************)
(* The benchmarks that measure memory: mappings (mmap, munmap, msync,      *)
(* mprotect), the allocator (malloc) and what works in allocated buffers   *)
(* (memset, memcpy, memmove, memrand, strlen, strchr, strcpy, strcmp,      *)
(* strcasecmp).  Sizes are given by the user; a size that does not parse   *)
(* is -1.  A size becomes an int where the code keeps it in one.  Buffers  *)
(* have no contents, but each access has its place.                        *)
(***************************************************************************)
EXTENDS WorkerData, FiniteSets

CONSTANTS
  IntMod,     \* 2^32: an int holds -IntMod/2 .. IntMod/2 - 1
  Page,       \* size of a page, and the largest -a of memset
  Uncached,   \* the 64 megabytes of -u, -f and -t
  Word,       \* size of a long and of a pointer
  Back        \* 128, the longs that memrand steps back

ASSUME MemoryAssumption ==
  /\ {IntMod, Page, Uncached, Word, Back} \subseteq Nat \ {0}
  /\ IntMod % 2 = 0 /\ Uncached < IntMod \div 2 /\ (IntMod \div 2) % Page = 0

VARIABLES
  filelen,   \* length of the mapped file
  maps,      \* mappings that each worker has made and not removed
  heap,      \* size of its buffers "a" and "b", -1 for a null pointer
  open,      \* mprotect: the segment of each process is accessible
  turn       \* mprotect: ts_run % 2

memory == <<filelen, maps, heap, open, turn>>

\* A long long assigned to an int.
ToInt(x) == ((x + IntMod \div 2) % IntMod) - IntMod \div 2

\* A sum of ints; the behaviour of one that overflows is undefined: it wraps,
\* or it is extended before it is added up.
IntSum(x) == {ToInt(x), x}

AtLeast(x, low) == IF x < low THEN low ELSE x

------------------------------------------------------------------------------
\* A benchmark is a choice of its options: l or s is the size, file is "anon",
\* "device" or "regular", touch is -r, -w or -t.
Map          == [op |-> "map"]
Unmap        == [op |-> "unmap"]
Touch        == IF bench.touch THEN <<[op |-> "touch"]>> ELSE <<>>
\* malloc() or valloc() of one of the sizes n, of which the result is checked
\* or not.
AllocAny(b, n) == [op |-> "alloc", buf |-> b, n |-> n, checked |-> TRUE]
TryAny(b, n)   == [op |-> "alloc", buf |-> b, n |-> n, checked |-> FALSE]
Alloc(b, n)    == AllocAny(b, {n})
Try(b, n)      == TryAny(b, {n})
Free(b)      == [op |-> "free", buf |-> b]
Access(b, at, n) == [op |-> "access", buf |-> b, at |-> at, n |-> n]

\* The pointer for which malloc() reserves room is overwritten by mmap().
\* Seeded fault: the mapping is not removed.
MmapKept == [Idler EXCEPT !.first = <<Alloc("a", Word)>>, !.bench = <<Map>> \o Touch]
Mmap == [Idler EXCEPT !.first = <<Alloc("a", Word)>>, !.bench = <<Map>> \o Touch,
                      !.post = <<Unmap>>]
Munmap == [Idler EXCEPT !.first = <<Alloc("a", Word)>>, !.pre = <<Map>> \o Touch,
                        !.bench = <<Unmap>>]
Msync == [Idler EXCEPT !.worker = <<Op("ftruncate"), Map>>, !.bench = Touch]
Mprotect == [Idler EXCEPT !.bench = <<Op("index"), Op("readseg"), Op("protect")>>]

\* The -s sizes of a round are the same; optg blocks are kept as one.
Glob == ToInt(bench.g)
Malloc ==
  [Idler EXCEPT !.worker = <<Alloc("a", Word * Glob)>>,
     !.bench = IF Glob <= 0 THEN <<>>
               ELSE <<Alloc("b", ToInt(bench.s)), Access("a", 0, Word * Glob), Free("b")>>]

\* opta: memset takes none that is larger than a page.
Offset ==
  IF bench.name = "memset" /\ ToInt(bench.a) > Page THEN 0 ELSE ToInt(bench.a)

\* Seeded fault: the offset is not counted.
MemsetSizeShort == ToInt(bench.s)
MemsetSize == IF bench.u THEN Uncached ELSE ToInt(Offset + bench.s)
Memset ==
  [Idler EXCEPT !.worker = <<Alloc("a", MemsetSize), Access("a", 0, AtLeast(MemsetSize, 0))>>,
                !.bench = <<Access("a", Offset, bench.s)>>]

\* That the pointers of -f and -t are local, so that they never advance, does not
\* change what is accessed in a call.
Memcpy ==
  [Idler EXCEPT
     !.worker = <<Try("a", IF bench.f THEN Uncached ELSE ToInt(bench.s + Offset)),
                  Try("b", IF bench.t THEN Uncached ELSE ToInt(bench.s))>>,
     !.bench = <<Access("a", Offset, bench.s), Access("b", 0, bench.s)>>]
Memmove == Memcpy

Chars == ToInt(bench.s)
Unaligned == IF bench.unaligned THEN 1 ELSE 0

\* A string is filled and closed with 0; its length is not negative.
Fill(b, off) == <<Access(b, off, AtLeast(Chars, 0)), Access(b, off + Chars, 1)>>
Length == AtLeast(Chars + 1, 1)
Strlen ==
  [Idler EXCEPT !.first = <<TryAny("a", IntSum(Chars + 1 + Unaligned))>>
                          \o Fill("a", Unaligned),
                !.bench = <<Access("a", Unaligned, Length)>>]
Strchr == Strlen   \* it looks for an X, and there is none
Strcpy ==
  [Idler EXCEPT
     !.first = <<AllocAny("a", IntSum(Chars + 1)),
                 AllocAny("b", IntSum(Chars + 1 + Unaligned))>>
               \o Fill("b", Unaligned),
     !.bench = <<Access("b", Unaligned, Length), Access("a", 0, Length)>>]
Strcmp == [Strcpy EXCEPT !.first = @ \o Fill("a", 0)]
Strcasecmp == Strcmp

\* memrand: the long at i points to the one Back before it, from the end on
\* again at the beginning; benchmark() follows ten pointers and reads a long.
Longs == ToInt(bench.s) \div Word
Pointer(i) == IF i - Back < 0 THEN i - Back + Longs ELSE i - Back
Hop[k \in 0..10] == IF k = 0 THEN 0 ELSE Pointer(Hop[k - 1])
Memrand ==
  [Idler EXCEPT !.worker = <<Alloc("a", ToInt(bench.s))>>, !.bench = <<Op("chase")>>]

Strings == {"strlen", "strchr", "strcpy", "strcmp", "strcasecmp"}
Copies  == {"memcpy", "memmove"}
Mapping == {"mmap", "munmap", "msync", "mprotect"}
MemoryNames == Strings \cup Copies \cup Mapping \cup {"malloc", "memset", "memrand"}

MemoryScript ==
  CASE bench.name = "mmap" -> Mmap         [] bench.name = "munmap" -> Munmap
    [] bench.name = "msync" -> Msync       [] bench.name = "mprotect" -> Mprotect
    [] bench.name = "malloc" -> Malloc     [] bench.name = "memset" -> Memset
    [] bench.name = "memcpy" -> Memcpy     [] bench.name = "memmove" -> Memmove
    [] bench.name = "strlen" -> Strlen     [] bench.name = "strchr" -> Strchr
    [] bench.name = "strcpy" -> Strcpy     [] bench.name = "strcmp" -> Strcmp
    [] bench.name = "memrand" -> Memrand   [] bench.name = "strcasecmp" -> Strcasecmp

\* What benchmark_initrun rejects: a length that is no multiple of the page
\* size, a segment that cannot be mapped.
MemoryAccepted ==
  /\ bench.name = "mmap" => bench.l % Page = 0
  /\ bench.name = "mprotect" => bench.l > 0

------------------------------------------------------------------------------
MemoryTypeOK ==
  /\ filelen \in Nat /\ maps \in [Worker -> 0..1]
  /\ \A w \in Worker : DOMAIN heap[w] = {"a", "b"}
                       /\ \A b \in {"a", "b"} : heap[w][b] \in Nat \cup {-1}
  /\ open \in [Worker -> BOOLEAN] /\ turn \in [Worker -> 0..1]

\* The file may be shorter than what is mapped; other benchmarks have none.
MemoryInit ==
  /\ filelen \in {0, 2 * Page} /\ (bench.name \notin Mapping => filelen = 0)
  /\ maps = [w \in Worker |-> 0]
  /\ heap = [w \in Worker |-> [b \in {"a", "b"} |-> -1]]
  /\ open = [w \in Worker |-> TRUE] /\ turn = [w \in Worker |-> 0]

MapOne(w) ==
  /\ Next1(w, {"map"})
  /\ Unless(bench.l <= 0, "einval", w)
  /\ maps' = IF bench.l <= 0 THEN maps ELSE [maps EXCEPT ![w] = @ + 1]
  /\ UNCHANGED <<data, filelen, heap, open, turn>>

UnmapOne(w) ==
  /\ Next1(w, {"unmap"})
  /\ Done(w)
  /\ maps' = [maps EXCEPT ![w] = @ - 1]
  /\ UNCHANGED <<round, choice, failed, data, filelen, heap, open, turn>>

\* Pages that lie behind the end of a file, before len, cannot be accessed.
Bus(len) ==
  /\ bench.file = "regular"
  /\ \E j \in 0..(len - 1) : j % Page = 0 /\ j >= filelen

\* A loop over the pages whose index is an int (mmap has a size_t) takes it one
\* step beyond its range if the last page that it can number is not the end.
\* That is undefined: a wider index goes on, one that wraps leaves the mapping.
Wraps ==
  /\ bench.name # "mmap" /\ bench.l > IntMod \div 2 - Page
  /\ ~Bus(IntMod \div 2)

EachPage(w) == Unless(Bus(bench.l), "bus", w) \/ (Wraps /\ Fails("wraps"))

TouchAll(w) ==
  /\ Next1(w, {"touch"})
  /\ EachPage(w)
  /\ UNCHANGED <<data, memory>>

\* ftruncate() works on regular files only.
Truncate(w) ==
  LET bad == bench.file # "regular" \/ bench.l < 0 IN
  /\ Next1(w, {"ftruncate"})
  /\ Unless(bad, "ftruncate", w)
  /\ filelen' = IF bad THEN filelen ELSE bench.l
  /\ UNCHANGED <<data, maps, heap, open, turn>>

\* In every other call, by number and turn, a worker reads the segment with -t
\* and closes it; in the others it opens it.
Even(w) == (index[w] + turn[w]) % 2 = 0

ReadSegment(w) ==
  /\ Next1(w, {"readseg"})
  /\ IF ~(Even(w) /\ bench.touch) THEN Done(w) /\ UNCHANGED <<round, choice, failed>>
     ELSE IF open[Proc(w)] THEN EachPage(w)
     ELSE Fails("segv")
  /\ UNCHANGED <<data, memory>>

Protect(w) ==
  /\ Next1(w, {"protect"})
  /\ Done(w)
  /\ open' = [open EXCEPT ![Proc(w)] = ~Even(w)]
  /\ turn' = [turn EXCEPT ![w] = 1 - @]
  /\ UNCHANGED <<round, choice, failed, data, filelen, maps, heap>>

\* A negative size is a huge one for malloc() and valloc().
AllocOne(w) ==
  LET c == Head(todo[w]) IN
  /\ Next1(w, {"alloc"})
  /\ \E n \in c.n :
       /\ Unless(n < 0 /\ c.checked, "enomem", w)
       /\ heap' = [heap EXCEPT ![w][c.buf] = AtLeast(n, -1)]
  /\ UNCHANGED <<data, filelen, maps, open, turn>>

FreeOne(w) ==
  /\ Next1(w, {"free"})
  /\ Done(w)
  /\ heap' = [heap EXCEPT ![w][Head(todo[w]).buf] = -1]
  /\ UNCHANGED <<round, choice, failed, data, filelen, maps, open, turn>>

\* Outside of the buffer; a negative length is a huge one.
Outside(w, c) ==
  c.n # 0 /\ ~(c.n > 0 /\ 0 <= c.at /\ c.at + c.n <= heap[w][c.buf])

AccessOne(w) ==
  /\ Next1(w, {"access"})
  /\ Unless(Outside(w, Head(todo[w])), "overrun", w)
  /\ UNCHANGED <<data, memory>>

Chase(w) ==
  /\ Next1(w, {"chase"})
  /\ Unless(\E k \in 0..10 : Hop[k] \notin 0..(Longs - 1), "overrun", w)
  /\ UNCHANGED <<data, memory>>

MemoryCall(w) ==
  \/ MapOne(w) \/ UnmapOne(w) \/ TouchAll(w) \/ Truncate(w) \/ ReadSegment(w)
  \/ Protect(w) \/ AllocOne(w) \/ FreeOne(w) \/ AccessOne(w) \/ Chase(w)

------------------------------------------------------------------------------
\* When an access leaves its buffer: where an offset is negative; where the size
\* of a buffer that is as large as what is asked for fits no int; where one of
\* fixed size is smaller; where a string length is negative; and where memrand
\* has no room for its first step.
TooLarge(n) == n >= IntMod \div 2
OverrunKnown ==
  CASE bench.name = "memset" ->
         \/ bench.s < 0 \/ Offset < 0
         \/ IF bench.u THEN Offset + bench.s > Uncached
                       ELSE TooLarge(Offset + bench.s)
    [] bench.name \in Copies ->
         \/ bench.s < 0 \/ Offset < 0
         \/ IF bench.f THEN Offset + bench.s > Uncached
                       ELSE TooLarge(Offset + bench.s)
         \/ IF bench.t THEN bench.s > Uncached ELSE TooLarge(bench.s)
    [] bench.name \in Strings -> bench.s < 0 \/ TooLarge(bench.s + 1 + Unaligned)
    [] bench.name = "memrand" -> Longs < Back
    [] OTHER -> FALSE

\* Why a run is cut short: a length of 0, a file shorter than its mapping, an
\* index of pages that is too narrow, msync on what is not a file (its default),
\* an allocation of a negative size, an access outside, and a thread that reads
\* the segment that another one of its process has protected.
MemoryFailures ==
  /\ failed = "einval" => bench.l <= 0
  /\ failed = "bus" => bench.name # "msync" /\ bench.l > filelen
  /\ failed = "wraps" =>
       bench.name \in Mapping \ {"mmap"} /\ bench.touch /\ bench.l > IntMod \div 2 - Page
  /\ failed = "ftruncate" => bench.name = "msync" /\ (bench.file # "regular" \/ bench.l < 0)
  /\ failed = "segv" => bench.name = "mprotect" /\ bench.touch /\ lm_optT > 1
  /\ failed = "enomem" =>
       \/ bench.s < 0 \/ TooLarge(bench.s)
       \/ bench.name = "malloc" /\ (bench.g < 0 \/ TooLarge(bench.g))
       \/ bench.name = "memset" /\ (Offset + bench.s < 0 \/ TooLarge(Offset + bench.s))
       \/ bench.name \in Strings /\ TooLarge(bench.s + 1 + Unaligned)
  /\ failed = "overrun" => OverrunKnown
=============================================================================
