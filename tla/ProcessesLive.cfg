\* Init and two pcb blocks; every process may sleep, wait, fork and exit.
CONSTANTS
  Proc = {i, a, b}
  Init_pcb = i
  Idle = Idle
  Nobody = Nobody
  CHILD_ARR_SIZE = 1
  MaxDelay = 2
  GrowthMayFail = TRUE
SPECIFICATION Spec
PROPERTY EveryoneRuns
PROPERTY WaiterReturns
\* The machine stops when init exits.
CHECK_DEADLOCK FALSE
