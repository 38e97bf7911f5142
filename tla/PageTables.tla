----------------------------- MODULE PageTables -----------------------------
(***************************************************************************)
(* Page tables over the pool of physical frames, and what the kernel has   *)
(* one of: the free frames, region 0 and the break of its heap.  A table   *)
(* maps page numbers to entries [pfn, prot], or to None when the entry is  *)
(* not valid.                                                              *)
(*                                                                         *)
(* user_memory.c and kernel_memory.c have the same page loops over their   *)
(* own tables; these are what the loops come to.  find_frame returns the   *)
(* lowest free frame (NoFreeFrameMissed of FrameTracking), and the loops   *)
(* go from low pages to high.                                              *)
(***************************************************************************)
EXTENDS Integers, FiniteSets

CONSTANTS None,
          NUM_FRAMES,
          K_STACK_BASE_VPN   \* the page of region 0 where the kernel stack begins

\* An entry that is not valid is not one that is.
ASSUME NoneAssumption == None \notin [pfn : Nat, prot : {"rw", "rx"}]

VARIABLES free,              \* the frames that are not marked in use
          region0_pt,        \* the kernel's table
          current_brk_page   \* the break of its heap

Mapped(pt) == {v \in DOMAIN pt : pt[v] # None}

\* The frames of those of the pages that are mapped.
Frames(pt, pages) == {pt[v].pfn : v \in pages \intersect Mapped(pt)}

Rank(x, S) == Cardinality({y \in S : y < x})

\* Are there frames for all the pages?
Enough(pages, pool) == Cardinality(pages) <= Cardinality(pool)

\* The frame that page v gets when frames are found for all the pages.
FrameFor(v, pages, pool) == CHOOSE f \in pool : Rank(f, pool) = Rank(v, pages)
Taken(pages, pool) == {FrameFor(v, pages, pool) : v \in pages}

\* The table after alloc_page of each of the pages, and after dealloc_page
\* or unmap_no_free of each of them.  alloc_page does not look at what the
\* entry was before.
With(pt, pages, prot, pool) ==
  [v \in DOMAIN pt |-> IF v \in pages
                       THEN [pfn |-> FrameFor(v, pages, pool), prot |-> prot] ELSE pt[v]]
Without(pt, pages) == [v \in DOMAIN pt |-> IF v \in pages THEN None ELSE pt[v]]

\* The pages that get a frame before the frames run out.
Served(pages, pool) == {v \in pages : Rank(v, pages) < Cardinality(pool)}
=============================================================================
