CONSTANTS
  OptP = 2
  OptT = 2
  OptC = 1
  Opt1 = FALSE
  FailPoints <- SomeFailure
  PhaseMod = 3
  NoThread = NoThread
SPECIFICATION FairSpec
\* A failed worker leaves the others at the barrier: the system may stop.
CHECK_DEADLOCK FALSE
INVARIANTS TypeOK TimingAlone SamplesFit FairShare ReportComplete
PROPERTIES LateNotRecorded ImplementsRounds RunEnds
