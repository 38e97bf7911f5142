\* Five processes, so that the heap has three levels and its array is resized
\* from 2 up to 8 and down to 1.  A delay of 3 passes INT_MAX from tick 2 on.
CONSTANTS
  Proc = {p1, p2, p3, p4, p5}
  NULL = NULL
  HEAP_INIT_SIZE = 2
  HEAP_MIN_SIZE = 1
  INT_MAX = 4
  Delays = {1, 2, 3}
  MaxTick = 3
SPECIFICATION Spec
INVARIANT TypeOK
INVARIANT HeapOrder
PROPERTY ImplementsQueue
PROPERTY HandlerEnds
\* The model stops at MaxTick.
CHECK_DEADLOCK FALSE
