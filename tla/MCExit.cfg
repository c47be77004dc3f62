CONSTANTS
  N = 2
  PhaseMod = 5
  NoThread = NoThread
SPECIFICATION FairSpec
INVARIANTS ChildForEach
PROPERTIES NoneLeft RoundEnds
