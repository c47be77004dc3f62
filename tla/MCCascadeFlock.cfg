CONSTANTS
  N = 3
  None = None
  Kinds <- FlockOnly
SPECIFICATION Spec
INVARIANTS RingOrder
