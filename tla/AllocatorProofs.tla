-------------------------- MODULE AllocatorProofs ---------------------------
(***************************************************************************)
(* Proofs about what hands out the lowest free slot: the frame allocator,  *)
(* for every amount of physical memory, and the tables of locks and        *)
(* condition variables, for every initial and maximal size.                *)
(***************************************************************************)
EXTENDS FrameTracking, ObjectTable, TLAPS

\* The allocator's variables keep their types whatever the size of the
\* bitset: no find_frame, acquire_frame or free_frame leaves the scan
\* position or a returned frame number out of range.
THEOREM TypeCorrect == Spec => []TypeOK
<1> USE FrameAssumption DEF TypeOK, Frame, Index, add_base, subtract_base
<1>1. Init => TypeOK
  BY DEF Init, initialize_frame_tracking
<1>2. TypeOK /\ [Next]_vars => TypeOK'
  <2> SUFFICES ASSUME TypeOK, [Next]_vars PROVE TypeOK'
    OBVIOUS
  <2>1. ASSUME NEW pfn \in Frame, acquire_frame(pfn) PROVE TypeOK'
    BY <2>1 DEF acquire_frame, set_frame
  <2>2. ASSUME NEW pfn \in Frame, free_frame(pfn) PROVE TypeOK'
    BY <2>2 DEF free_frame, clear_frame
  <2>3. CASE find_frame
    <3>1. PICK n \in 0..NUM_FRAMES :
            \/ /\ next_free' = n
               /\ ret' = ERROR
               /\ UNCHANGED <<frame_bitset, owned>>
            \/ /\ n # NUM_FRAMES
               /\ frame_bitset' = [frame_bitset EXCEPT ![n] = TRUE]
               /\ next_free' = n + 1
               /\ ret' = n + PMEM_BASE_FRAME
               /\ owned' = owned \union {n + PMEM_BASE_FRAME}
      BY <2>3 DEF find_frame, set_frame
    <3>2. frame_bitset' \in [0..NUM_FRAMES -> BOOLEAN]
      BY <3>1
    <3>3. next_free' \in 0..NUM_FRAMES
      BY <3>1
    <3>4. n # NUM_FRAMES => n + PMEM_BASE_FRAME \in Frame
      OBVIOUS
    <3>5. ret' \in Frame \union {ERROR}
      BY <3>1, <3>4 DEF ERROR
    <3>6. owned' \subseteq Frame
      BY <3>1, <3>4
    <3> QED BY <3>2, <3>3, <3>5, <3>6
  <2>4. CASE HeapNeighbour
    BY <2>4 DEF HeapNeighbour
  <2>5. CASE UNCHANGED vars
    BY <2>5 DEF vars
  <2> QED BY <2>1, <2>2, <2>3, <2>4, <2>5 DEF Next
<1> QED BY <1>1, <1>2, PTL DEF Spec

\* When the bitset covers the frames, nothing but the allocator writes the
\* bits it allocates from.
LEMMA NeighbourLeavesFrames ==
  ASSUME BitsetCovers, TypeOK, HeapNeighbour
  PROVE  /\ \A n \in Index : frame_bitset'[n] = frame_bitset[n]
         /\ UNCHANGED <<next_free, ret, owned>>
BY FrameAssumption DEF BitsetCovers, HeapNeighbour, TypeOK, Index

\* No sequence of allocations and frees makes find_frame skip a free frame,
\* whatever the number of frames: free_frame pulls next_free back far enough.
THEOREM NoFrameIsMissed == BitsetCovers => (Spec => []NoFreeFrameMissed)
<1> SUFFICES ASSUME BitsetCovers PROVE Spec => []NoFreeFrameMissed
  OBVIOUS
<1> USE FrameAssumption DEF NoFreeFrameMissed, check_if_free, Index
<1>1. Init => NoFreeFrameMissed
  BY DEF Init, initialize_frame_tracking
<1>2. TypeOK /\ NoFreeFrameMissed /\ [Next]_vars => NoFreeFrameMissed'
  <2> SUFFICES ASSUME TypeOK, NoFreeFrameMissed, [Next]_vars
               PROVE NoFreeFrameMissed'
    OBVIOUS
  <2> USE DEF TypeOK
  <2>1. ASSUME NEW pfn \in Frame, acquire_frame(pfn) PROVE NoFreeFrameMissed'
    BY <2>1 DEF acquire_frame, set_frame
  <2>2. ASSUME NEW pfn \in Frame, free_frame(pfn) PROVE NoFreeFrameMissed'
    BY <2>2 DEF free_frame, clear_frame
  <2>3. CASE find_frame
    BY <2>3 DEF find_frame, set_frame, ScanStopsAt
  <2>4. CASE HeapNeighbour
    BY <2>4, NeighbourLeavesFrames
  <2>5. CASE UNCHANGED vars
    BY <2>5 DEF vars
  <2> QED BY <2>1, <2>2, <2>3, <2>4, <2>5 DEF Next
<1> QED BY <1>1, <1>2, TypeCorrect, PTL DEF Spec

\* The bitset never disagrees with the set of frames that are out.
LEMMA BitsetAgrees == BitsetCovers => (Spec => []BitsetIsOwned)
<1> SUFFICES ASSUME BitsetCovers PROVE Spec => []BitsetIsOwned
  OBVIOUS
<1>n. NUM_FRAMES \in Nat \ {0} /\ PMEM_BASE_FRAME \in Nat
  BY FrameAssumption
<1> USE <1>n DEF BitsetIsOwned, check_if_free, Index, add_base, subtract_base
<1>1. Init => BitsetIsOwned
  <2> SUFFICES ASSUME Init, NEW n \in Index PROVE ~frame_bitset[n]
    BY DEF Init
  <2>1. PICK junk \in SUBSET {m \in 0..NUM_FRAMES : ~InBitset(m)} :
          frame_bitset = [m \in 0..NUM_FRAMES |-> m \in junk]
    BY DEF Init, initialize_frame_tracking
  <2>2. n \notin junk
    BY DEF BitsetCovers
  <2>3. n \in 0..NUM_FRAMES
    OBVIOUS
  <2>4. frame_bitset[n] = (n \in junk)
    BY <2>1, <2>3, Zenon
  <2> QED BY <2>2, <2>4, Zenon
<1>2. TypeOK /\ BitsetIsOwned /\ [Next]_vars => BitsetIsOwned'
  <2> SUFFICES ASSUME TypeOK, BitsetIsOwned, [Next]_vars
               PROVE BitsetIsOwned'
    OBVIOUS
  <2> USE DEF TypeOK, Frame
  <2>1. ASSUME NEW pfn \in Frame, acquire_frame(pfn) PROVE BitsetIsOwned'
    BY <2>1 DEF acquire_frame, set_frame
  <2>2. ASSUME NEW pfn \in Frame, free_frame(pfn) PROVE BitsetIsOwned'
    BY <2>2 DEF free_frame, clear_frame
  <2>3. CASE find_frame
    BY <2>3 DEF find_frame, set_frame, ScanStopsAt
  <2>4. CASE HeapNeighbour
    BY <2>4, NeighbourLeavesFrames
  <2>5. CASE UNCHANGED vars
    BY <2>5 DEF vars
  <2> QED BY <2>1, <2>2, <2>3, <2>4, <2>5 DEF Next
<1> QED BY <1>1, <1>2, TypeCorrect, PTL DEF Spec

\* frame_tracking.c implements FramePool: no frame is handed out twice, and
\* an allocation fails only when all frames are out.  The step that needs
\* NoFreeFrameMissed is the failing find_frame: its scan saw only the frames
\* from next_free on, and concludes about all of them.
THEOREM FrameTrackingImplementsPool == BitsetCovers => (Spec => ImplementsPool)
<1> SUFFICES ASSUME BitsetCovers PROVE Spec => Pool!Spec
  BY DEF ImplementsPool
<1> DEFINE IInv == TypeOK /\ NoFreeFrameMissed /\ BitsetIsOwned
<1>1. Init => Pool!Init
  BY DEF Init, Pool!Init
<1>2. IInv /\ [Next]_vars => [Pool!Next]_(Pool!vars)
  <2> SUFFICES ASSUME IInv, [Next]_vars PROVE [Pool!Next]_(Pool!vars)
    OBVIOUS
  <2> USE FrameAssumption DEF TypeOK, BitsetIsOwned, check_if_free, Index,
                              add_base, subtract_base, Frame
  <2>1. ASSUME NEW pfn \in Frame, acquire_frame(pfn) PROVE Pool!Reserve(pfn)
    BY <2>1 DEF acquire_frame, Pool!Reserve
  <2>2. ASSUME NEW pfn \in Frame, free_frame(pfn) PROVE Pool!GiveBack(pfn)
    BY <2>2 DEF free_frame, Pool!GiveBack
  <2>3. CASE find_frame
    <3>1. PICK n \in 0..NUM_FRAMES :
            /\ ScanStopsAt(n)
            /\ \/ /\ n = NUM_FRAMES
                  /\ ret' = ERROR
                  /\ UNCHANGED owned
               \/ /\ n # NUM_FRAMES
                  /\ ret' = add_base(n)
                  /\ owned' = owned \union {add_base(n)}
      BY <2>3 DEF find_frame
    <3>2. CASE n = NUM_FRAMES
      <4>1. \A m \in Index : ~check_if_free(m)
        BY <3>1, <3>2 DEF ScanStopsAt, NoFreeFrameMissed
      <4>2. owned = Frame
        <5> SUFFICES ASSUME NEW f \in Frame PROVE f \in owned
          OBVIOUS
        <5>1. subtract_base(f) \in Index /\ add_base(subtract_base(f)) = f
          OBVIOUS
        <5> QED BY <4>1, <5>1
      <4> QED BY <3>1, <3>2, <4>2 DEF Pool!Next, Pool!Exhausted
    <3>3. CASE n # NUM_FRAMES
      <4>1. add_base(n) \in Frame \ owned
        BY <3>1, <3>3 DEF ScanStopsAt
      <4> QED BY <3>1, <3>3, <4>1 DEF Pool!Next, Pool!Allocate
    <3> QED BY <3>2, <3>3
  <2>4. CASE HeapNeighbour
    BY <2>4 DEF HeapNeighbour, Pool!vars
  <2>5. CASE UNCHANGED vars
    BY <2>5 DEF vars, Pool!vars
  <2> QED BY <2>1, <2>2, <2>3, <2>4, <2>5 DEF Next, Pool!Next
<1>3. Spec => []IInv
  BY TypeCorrect, NoFrameIsMissed, BitsetAgrees, PTL
<1> QED BY <1>1, <1>2, <1>3, PTL DEF Spec, Pool!Spec
-----------------------------------------------------------------------------
(* Object tables *)

TableInv == TableTypeOK /\ OpenIsLowestUnused

\* Growing copies open_idx entries, which are all there are: a table only
\* grows when its open index has reached its end.
LEMMA GrowthCopiesAll == TableInv => AfterGrowth = in_use
<1> SUFFICES ASSUME TableInv, Full PROVE in_use \intersect 0..(open_idx - 1) = in_use
  BY DEF AfterGrowth
<1>1. \A i \in in_use : i \in 0..(open_idx - 1)
  BY DEF TableInv, TableTypeOK, OpenIsLowestUnused, Full
<1> QED BY <1>1

\* Creating an object keeps the open index at the lowest unused entry.
LEMMA NewKeepsOrder ==
  ASSUME TableInv, NEW id \in Entry, New(id)
  PROVE  TableInv' /\ id \notin in_use /\ in_use' = in_use \union {id}
<1> USE TableAssumption DEF TableInv, TableTypeOK, OpenIsLowestUnused, Entry
<1>1. id = open_idx /\ id \notin in_use
  BY DEF New
<1>2. AfterGrowth = in_use
  BY GrowthCopiesAll
<1>3. in_use' = in_use \union {id}
  BY <1>2 DEF New
<1>4. GrownSize \in 1..MAX_ARR_SIZE /\ arr_size <= GrownSize /\ open_idx < GrownSize
  BY DEF New, GrownSize, Full
<1>5. arr_size' = GrownSize
  BY DEF New
<1>6. PICK k \in 0..MAX_ARR_SIZE :
        ScanEndsAt(k, id, in_use', GrownSize) /\ open_idx' = k
  BY DEF New
<1>7. in_use' \subseteq 0..(arr_size' - 1)
  BY <1>1, <1>3, <1>4, <1>5
<1>8. k \notin in_use' /\ k \in 0..GrownSize
  BY <1>4, <1>5, <1>6, <1>7 DEF ScanEndsAt
<1>9. \A i \in 0..(k - 1) : i \in in_use'
  BY <1>1, <1>3, <1>6 DEF ScanEndsAt
<1> QED BY <1>1, <1>3, <1>4, <1>5, <1>6, <1>7, <1>8, <1>9

\* Deleting an object, with or without halving the table, removes that
\* object only and pulls the open index back to it when it lies below.
LEMMA DeleteKeepsOrder ==
  ASSUME TableInv, NEW i \in Entry, Delete(i)
  PROVE  TableInv' /\ i \in in_use /\ in_use' = in_use \ {i}
<1> USE TableAssumption DEF TableInv, TableTypeOK, OpenIsLowestUnused, Entry
<1>1. CASE DeleteInPlace(i)
  BY <1>1 DEF DeleteInPlace
<1>2. CASE DeleteAndShrink(i)
  <2> DEFINE half == arr_size \div 2
  <2>1. /\ i \in in_use
        /\ \A j \in half..(arr_size - 1) : j \notin in_use \ {i}
        /\ open_idx' = IF i < open_idx THEN i ELSE open_idx
        /\ open_idx' < half
        /\ in_use' = (in_use \ {i}) \intersect 0..(half - 1)
        /\ arr_size' = half
    BY <1>2 DEF DeleteAndShrink
  <2>2. half \in 0..arr_size
    OBVIOUS
  <2> HIDE DEF half
  <2>3. \A j \in in_use \ {i} : j \in 0..(half - 1)
    BY <2>1, <2>2
  <2>4. in_use' = in_use \ {i}
    BY <2>1, <2>3
  <2>5. arr_size' \in 1..MAX_ARR_SIZE
    BY <2>1, <2>2
  <2>6. in_use' \subseteq 0..(arr_size' - 1)
    BY <2>1
  <2> QED BY <2>1, <2>2, <2>4, <2>5, <2>6
<1> QED BY <1>1, <1>2 DEF Delete

\* A failed creation may leave a larger table, with the same objects.
LEMMA NewFailsKeepsOrder ==
  ASSUME TableInv, NewFails
  PROVE  TableInv' /\ in_use' = in_use
<1>1. in_use' = in_use
  BY GrowthCopiesAll DEF NewFails
<1>2. arr_size' \in 1..MAX_ARR_SIZE /\ arr_size < arr_size'
  BY TableAssumption DEF NewFails, GrownSize, TableInv, TableTypeOK
<1> QED BY <1>1, <1>2 DEF TableInv, TableTypeOK, OpenIsLowestUnused, NewFails

\* In every reachable state the open index is the lowest unused entry and no
\* object lies outside the table, whatever the table's first size.
THEOREM OpenIndexCorrect == TableSpec => [](TableTypeOK /\ OpenIsLowestUnused)
<1>1. TableInit => TableInv
  BY TableAssumption DEF TableInit, TableInv, TableTypeOK, OpenIsLowestUnused, Entry
<1>2. TableInv /\ [TableNext]_table_vars => TableInv'
  <2>1. ASSUME TableInv, UNCHANGED table_vars PROVE TableInv'
    BY <2>1 DEF TableInv, TableTypeOK, OpenIsLowestUnused, table_vars
  <2> QED BY <2>1, NewKeepsOrder, DeleteKeepsOrder, NewFailsKeepsOrder DEF TableNext
<1> QED BY <1>1, <1>2, PTL DEF TableSpec, TableInv

\* No growth, shrink or failed allocation loses an object, and no creation
\* overwrites one.
THEOREM ObjectsSurviveResizing == TableSpec => OneObjectAtATime
<1> DEFINE Step == \/ \E i \in Entry \ in_use : in_use' = in_use \union {i}
                   \/ \E i \in in_use : in_use' = in_use \ {i}
                   \/ in_use' = in_use
<1>1. TableInv /\ [TableNext]_table_vars => [Step]_table_vars
  <2> SUFFICES ASSUME TableInv, TableNext PROVE Step
    OBVIOUS
  <2>1. ASSUME NEW i \in Entry, New(i) PROVE Step
    BY <2>1, NewKeepsOrder
  <2>2. ASSUME NEW i \in Entry, Delete(i) PROVE Step
    BY <2>2, DeleteKeepsOrder
  <2>3. CASE NewFails
    BY <2>3, NewFailsKeepsOrder
  <2> QED BY <2>1, <2>2, <2>3 DEF TableNext
<1>2. TableSpec => []TableInv
  BY OpenIndexCorrect DEF TableInv
<1> QED BY <1>1, <1>2, PTL DEF TableSpec, OneObjectAtATime
=============================================================================
