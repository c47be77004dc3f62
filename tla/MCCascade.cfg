CONSTANTS
  N = 3
  None = None
  Kinds <- BlockingKinds
SPECIFICATION FairSpec
INVARIANTS OwnerUnblocks NothingBlocked RingOrder NoWaitCycle
PROPERTIES BatchEnds
