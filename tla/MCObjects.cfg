CONSTANTS
  N = 4
  ThreadCounts = {1, 2}
  Benchmarks <- MCBenchmarks
  IntMod = 128
  Page = 4
  Uncached = 32
  Word = 2
  Back = 4
  SemLimit = 4
  FdSetSize = 8
SPECIFICATION FairSpec
INVARIANTS WorkersApart Exclusive ChildWaits RoundBalanced FailuresKnown
PROPERTY RoundEnds
