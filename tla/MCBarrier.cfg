CONSTANTS
  t1 = t1
  t2 = t2
  t3 = t3
  NoThread = NoThread
  Threads <- MCThreads
  Hwm <- MCHwm
  PhaseMod = 4
SPECIFICATION FairSpec
INVARIANTS TypeOK MutexInv CountInv
PROPERTIES ImplementsRendezvous Opens
