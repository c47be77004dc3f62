CONSTANTS
  N = 1
  Reload = TRUE
  MaxChildren = 2
  PhaseMod = 4
  NoThread = NoThread
SPECIFICATION Spec
CHECK_DEADLOCK FALSE
INVARIANTS EndsWithRun
