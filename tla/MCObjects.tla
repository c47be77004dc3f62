------------------------------ MODULE MCObjects -----------------------------
(***************************************************************************)
(* Four workers: processes of one thread each, and two processes of two    *)
(* threads.  Sizes are scaled down: an int has 7 bits, a page is 4 bytes,  *)
(* and the sizes lie on both sides of every limit.                         *)
(***************************************************************************)
EXTENDS Objects

MCMapping ==
  [name : Mapping, l : {8, 64}, file : {"regular"}, touch : {TRUE}]
  \cup [name : Mapping, l : {0}, file : {"device"}, touch : {FALSE}]
  \cup [name : {"munmap"}, l : {-1, 60}, file : {"device"}, touch : {TRUE}]

MCBuffers ==
  [name : {"malloc"}, s : {-1, 64}, g : {-1, 0, 2, 64}]
  \cup [name : {"malloc"}, s : {3}, g : {-1, 2, 64}]
  \cup [name : {"memset"}, s : {-1, 3, 62, 64}, a : {-1, 2}, u : {FALSE}]
  \cup [name : {"memset"}, s : {31, 32, 33}, a : {-1, 2, 5}, u : {TRUE}]
  \cup [name : {"memcpy"}, s : {-1, 32, 61, 62}, a : {-1, 2}, f : {FALSE}, t : {FALSE}]
  \cup [name : {"memcpy"}, s : {32}, a : {-1, 0, 2}, f : BOOLEAN, t : {TRUE}]
  \cup [name : {"memmove"}, s : {130}, a : {2, 126}, f : {FALSE}, t : {TRUE}]
  \cup [name : {"memrand"}, s : {-1, 0, 2, 5, 6, 8, 13, 64}]

MCStrings ==
  [name : {"strlen"}, s : {-1, 62, 63}, unaligned : BOOLEAN]
  \cup [name : {"strchr"}, s : {130}, unaligned : {FALSE}]
  \cup [name : {"strcpy"}, s : {-1, 62}, unaligned : {TRUE}]
  \cup [name : {"strcmp"}, s : {63}, unaligned : {FALSE}]
  \cup [name : {"strcasecmp"}, s : {-1, 130}, unaligned : {FALSE}]

MCBenchmarks ==
  [name : DataNames] \cup MCMapping \cup MCBuffers \cup MCStrings
  \cup [name : {"mutex"}, p : BOOLEAN] \cup [name : LockNames \ {"mutex"}]
  \cup [name : PollNames, n : {2, 6}, r : {0, 3}, w : {2}, x : {TRUE}]
=============================================================================
