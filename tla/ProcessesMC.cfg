\* Init and three pcb blocks, with room for one child in a new pcb, so that the
\* array grows twice, or fails to.
CONSTANTS
  Proc = {i, a, b, c}
  Init_pcb = i
  Idle = Idle
  Nobody = Nobody
  CHILD_ARR_SIZE = 1
  MaxDelay = 2
  GrowthMayFail = TRUE
SPECIFICATION Spec
SYMMETRY Symmetry
INVARIANT TypeOK
INVARIANT PlacedOnce
INVARIANT NoDanglingChild
INVARIANT NoPcbLeak
PROPERTY TickLeavesNoWaiter
\* The machine stops when init exits.
CHECK_DEADLOCK FALSE
