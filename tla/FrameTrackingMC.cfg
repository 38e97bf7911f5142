\* 16 frames fill two bytes exactly, so bit 16 lies just past the bitset.
CONSTANTS
  NUM_FRAMES = 16
  PMEM_BASE_FRAME = 2
  KernelFrames = {0, 1, 2, 3, 4, 8, 13, 14}
  HeapFrames = {4}
SPECIFICATION Spec
INVARIANT NoFreeFrameMissed
PROPERTY ImplementsPool
