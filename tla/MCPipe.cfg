CONSTANTS
  N = 2
  ThreadCounts = {1, 2}
  Benchmarks <- MCBenchmarks
  Capacity = 2
  InitLimit = 8
  SpawnMayFail = TRUE
SPECIFICATION FairSpec
\* A worker may hang, see CallsReturn.
CHECK_DEADLOCK FALSE
INVARIANTS RoundCloses FailuresKnown
PROPERTIES ImplementsEcho CallsReturn
