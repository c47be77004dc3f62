CONSTANTS
  OptP = 2
  OptT = 1
  OptC = 1
  Opt1 = FALSE
  FailPoints <- BenchFailure
  PhaseMod = 3
  NoThread = NoThread
SPECIFICATION FairSpec
CHECK_DEADLOCK FALSE
PROPERTIES FailureEndsRun
