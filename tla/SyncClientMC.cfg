\* Two Bouncers, so that one could be starved, and two SonarGals.
CONSTANTS
  Bouncer = {b1, b2}
  SonarGal = {s1, s2}
  Proc = {b1, b2, s1, s2}
  Idle = Idle
  None = None
  INITIAL_ARR_SIZE = 1
  MAX_ARR_SIZE = 1
  Capacity = {}
SPECIFICATION ClientSpec
INVARIANT RunsHoldingMutex
PROPERTY NobodyStarves
