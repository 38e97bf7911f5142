\* 3 grows to 6 and 12 and shrinks to 1, from where it grows to 2, 4 and 8.
CONSTANTS
  INITIAL_ARR_SIZE = 3
  MAX_ARR_SIZE = 12
SPECIFICATION TableSpec
INVARIANT OpenIsLowestUnused
PROPERTY OneObjectAtATime
