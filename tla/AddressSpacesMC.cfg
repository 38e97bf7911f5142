\* Kernel stacks of one page: init's stack, its program of 3 pages and its
\* child's copies take 8 of the 9 frames, so a child and two more pages of heap,
\* stack or kernel heap exhaust memory.  Region 1 has 4 pages for heap and stack
\* to meet in; the kernel's heap may have up to 2.  The machine stops at a fault
\* of the kernel.
CONSTANTS
  Proc = {p1, p2}
  Idle = Idle
  None = None
  Init_pcb = p1
  NUM_FRAMES = 9
  REGION1_VPNS = 7
  K_STACK_VPNS = 1
  K_STACK_BASE_VPN = 5
  TextPages = {1}
  DataPages = {1}
  StackPages = {1, 2}
SPECIFICATION Spec
INVARIANT TypeOK
INVARIANT FramesConserved
INVARIANT BrokenOnlyByRefusal
INVARIANT ProgramIsWhole
CHECK_DEADLOCK FALSE
