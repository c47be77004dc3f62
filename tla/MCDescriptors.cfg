CONSTANTS
  N = 2
  ThreadCounts = {1, 2}
  Benchmarks <- Names
  InitLimit = 8
  BadFd = 10
SPECIFICATION FairSpec
INVARIANTS OwnDescriptor RoundBalanced FailuresKnown
PROPERTIES AcceptsOwn RoundEnds
