\* 24 frames need three bytes; UP_TO_BYTE gives the bitset two.
CONSTANTS
  NUM_FRAMES = 24
  PMEM_BASE_FRAME = 0
  KernelFrames = {0, 1, 2, 3, 4, 5, 6, 7, 8, 9, 10, 11, 12}
  HeapFrames = {11}
SPECIFICATION Spec
INVARIANT OwnedInsideBitset
