CONSTANTS
  N = 2
  ThreadCounts = {1, 2}
  Benchmarks <- CloseTcpOnly
  InitLimit = 8
  BadFd = 10
SPECIFICATION Spec
INVARIANTS ListenSucceeds
