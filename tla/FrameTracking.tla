--------------------------- MODULE FrameTracking ---------------------------
(***************************************************************************)
(* The physical frame allocator of yalnix_framework/src/frame_tracking.c.  *)
(*                                                                         *)
(* The C bitset is an array of bytes; bit n of the model is bit n & 7 of   *)
(* byte n >> 3.  The bitset is calloc'ed with bitset_size bytes, so a bit  *)
(* whose byte is not below bitset_size is memory of whatever the kernel    *)
(* heap put there: HeapNeighbour may change it at any time.  find_frame    *)
(* reads bit NUM_FRAMES before it tests the bound, so the model has it.    *)
(*                                                                         *)
(* Frames in the model are numbered from 0, as next_free is; add_base and  *)
(* subtract_base translate at the interface.                               *)
(***************************************************************************)
EXTENDS Integers

CONSTANTS NUM_FRAMES,       \* frames of physical memory
          PMEM_BASE_FRAME,  \* number of the first one
          KernelFrames,     \* frames (from 0) init_region0_pt reserves at boot
          HeapFrames        \* those of them under the kernel heap's first pages

ASSUME FrameAssumption ==
  /\ NUM_FRAMES \in Nat \ {0}
  /\ PMEM_BASE_FRAME \in Nat
  /\ KernelFrames \subseteq 0..(NUM_FRAMES - 1)
  /\ HeapFrames \subseteq KernelFrames
  \* The kernel stack, which is never given back, lies above the heap.
  /\ \A h \in HeapFrames : \E n \in KernelFrames \ HeapFrames : h < n

VARIABLES frame_bitset,  \* bit of each frame: TRUE when in use
          next_free,     \* where find_frame resumes its scan
          ret,           \* what find_frame last returned
          owned          \* history: frame numbers handed out, not given back

vars == <<frame_bitset, next_free, ret, owned>>

ERROR == -1
BYTE_SIZE == 8

Index == 0..(NUM_FRAMES - 1)
add_base(n) == n + PMEM_BASE_FRAME
subtract_base(f) == f - PMEM_BASE_FRAME
Frame == PMEM_BASE_FRAME..(PMEM_BASE_FRAME + NUM_FRAMES - 1)

\* (n + 7) & ~8: BYTE_MASK is ~BYTE_SIZE, so it clears bit 3 and no other.
UP_TO_BYTE(n) ==
  LET m == n + BYTE_SIZE - 1
  IN  IF (m \div BYTE_SIZE) % 2 = 1 THEN m - BYTE_SIZE ELSE m

bitset_size == UP_TO_BYTE(NUM_FRAMES) \div BYTE_SIZE
InBitset(n) == n \div BYTE_SIZE < bitset_size

\* The bitset has a bit for every frame (true of half the values of
\* NUM_FRAMES, among them every multiple of 16).
BitsetCovers == \A n \in Index : InBitset(n)

check_if_free(n) == ~frame_bitset[n]
set_frame(n) == [frame_bitset EXCEPT ![n] = TRUE]
clear_frame(n) == [frame_bitset EXCEPT ![n] = FALSE]

\* calloc zeroes the bitset and nothing beyond it.
initialize_frame_tracking ==
  /\ \E junk \in SUBSET {n \in 0..NUM_FRAMES : ~InBitset(n)} :
       frame_bitset = [n \in 0..NUM_FRAMES |-> n \in junk]
  /\ next_free = 0

Init == initialize_frame_tracking /\ ret = ERROR /\ owned = {}

\* Text, data and kernel stack stay reserved for good; SetKernelBrk can give
\* the frames of heap pages back when the heap shrinks.
Permanent == KernelFrames \ HeapFrames

\* init_region0_pt reserves every kernel frame before any other allocation,
\* the kernel stack last.
Booted == \A n \in Permanent : add_base(n) \in owned

\* Slip: the frame's bit is left clear.
acquire_frame_Unmarked(pfn) ==
  /\ ~Booted
  /\ subtract_base(pfn) \in KernelFrames /\ pfn \notin owned
  /\ owned' = owned \union {pfn}
  /\ UNCHANGED <<frame_bitset, next_free, ret>>

\* Called by init_region0_pt only, for text, data (with the heap so far) and
\* stack pages in increasing order.
acquire_frame(pfn) ==
  LET n == subtract_base(pfn)
  IN  /\ ~Booted
      /\ n \in KernelFrames /\ pfn \notin owned
      /\ \A m \in KernelFrames : m < n => add_base(m) \in owned
      /\ check_if_free(n)
      /\ frame_bitset' = set_frame(n)
      /\ owned' = owned \union {pfn}
      /\ UNCHANGED <<next_free, ret>>

\* The scan's exit: the first free bit from next_free on, or NUM_FRAMES.
ScanStopsAt(n) ==
  /\ n \in next_free..NUM_FRAMES
  /\ n = NUM_FRAMES \/ check_if_free(n)
  /\ \A m \in next_free..(n - 1) : ~check_if_free(m)

find_frame ==
  /\ Booted
  /\ \E n \in 0..NUM_FRAMES :
       /\ ScanStopsAt(n)
       /\ \/ /\ n = NUM_FRAMES
             /\ next_free' = n
             /\ ret' = ERROR
             /\ UNCHANGED <<frame_bitset, owned>>
          \/ /\ n # NUM_FRAMES
             /\ frame_bitset' = set_frame(n)
             /\ next_free' = n + 1
             /\ ret' = add_base(n)
             /\ owned' = owned \union {add_base(n)}

\* Slip: the scan does not go back to the freed frame.
free_frame_NoPullBack(pfn) ==
  LET n == subtract_base(pfn)
  IN  /\ Booted
      /\ n \in Index \ Permanent
      /\ ~check_if_free(n)
      /\ frame_bitset' = clear_frame(n)
      /\ owned' = owned \ {pfn}
      /\ UNCHANGED <<next_free, ret>>

\* A frame number that is out of range or already free is refused and changes
\* nothing.
free_frame(pfn) ==
  LET n == subtract_base(pfn)
  IN  /\ Booted
      /\ n \in Index \ Permanent
      /\ ~check_if_free(n)
      /\ frame_bitset' = clear_frame(n)
      /\ next_free' = IF n < next_free THEN n ELSE next_free
      /\ owned' = owned \ {pfn}
      /\ UNCHANGED ret

\* Kernel heap data that shares the bytes after the bitset.
HeapNeighbour ==
  /\ \E n \in 0..NUM_FRAMES :
       /\ ~InBitset(n)
       /\ frame_bitset' = [frame_bitset EXCEPT ![n] = ~@]
  /\ UNCHANGED <<next_free, ret, owned>>

Next ==
  \/ \E pfn \in Frame : acquire_frame(pfn) \/ free_frame(pfn)
  \/ find_frame
  \/ HeapNeighbour

Spec == Init /\ [][Next]_vars
-----------------------------------------------------------------------------
\* The bitset, the scan position and the interface values have their types.
TypeOK ==
  /\ frame_bitset \in [0..NUM_FRAMES -> BOOLEAN]
  /\ next_free \in 0..NUM_FRAMES
  /\ ret \in Frame \union {ERROR}
  /\ owned \subseteq Frame

\* find_frame only looks from next_free on: whatever sequence of find_frame
\* and free_frame calls came before, no free frame hides below next_free, so
\* find_frame returns ERROR only when physical memory is really exhausted.
NoFreeFrameMissed ==
  \A n \in Index : check_if_free(n) => n >= next_free

\* The bitset and the frames that are out agree bit for bit.
BitsetIsOwned ==
  \A n \in Index : check_if_free(n) <=> add_base(n) \notin owned

\* "The frame bitset represents which physical frames are free or in use":
\* the frames handed out each have their bit inside the allocated bitset.
OwnedInsideBitset ==
  \A f \in owned : InBitset(subtract_base(f))

\* The allocator keeps the promise of FramePool, which knows nothing of
\* bits, bytes or scan positions.
Pool == INSTANCE FramePool
ImplementsPool == Pool!Spec
=============================================================================
