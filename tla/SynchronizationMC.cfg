\* Four processes, up to two locks or semaphores and two condition variables.
CONSTANTS
  Proc = {p1, p2, p3, p4}
  Idle = Idle
  None = None
  INITIAL_ARR_SIZE = 1
  MAX_ARR_SIZE = 2
  Capacity = {2}
SPECIFICATION Spec
SYMMETRY Symmetry
INVARIANT PermitAccounting
INVARIANT NeededByExact
INVARIANT PlacedOnce
PROPERTY WakesWithLock
PROPERTY NoBarging
