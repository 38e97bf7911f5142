-------------------------------- MODULE Boot --------------------------------
(***************************************************************************)
(* KernelStart (kernel_start.c) and the kernel's own memory while it goes  *)
(* on (kernel_memory.c).  Before enable_vm an address is a frame: what the *)
(* kernel writes in page v is in frame v, and region0_pt must say so when  *)
(* VM is enabled.                                                          *)
(*                                                                         *)
(* malloc is the machine's library.  With SetKernelBrk it moves the end of *)
(* its heap, heap_end, whenever what it has left is not enough: each       *)
(* initializer may move it by some pages or not at all.                    *)
(***************************************************************************)
EXTENDS PageTables

CONSTANTS first_kernel_text_page, first_kernel_data_page, orig_kernel_brk_page,
          K_STACK_LIMIT_VPN,
          MaxGrowth   \* the pages by which one initializer moves the heap's end

\* Text, data and heap below the kernel stack, all of it in real memory.
ASSUME BootAssumption ==
  /\ first_kernel_text_page \in Nat /\ first_kernel_data_page \in Nat
  /\ orig_kernel_brk_page \in Nat /\ K_STACK_BASE_VPN \in Nat
  /\ K_STACK_LIMIT_VPN \in Nat /\ NUM_FRAMES \in Nat /\ MaxGrowth \in Nat
  /\ first_kernel_text_page < first_kernel_data_page
  /\ first_kernel_data_page < orig_kernel_brk_page
  /\ orig_kernel_brk_page < K_STACK_BASE_VPN - 2
  /\ K_STACK_BASE_VPN < K_STACK_LIMIT_VPN /\ K_STACK_LIMIT_VPN <= NUM_FRAMES

VARIABLES done,              \* how many of the steps of KernelStart are done
          vm_enabled,
          others,            \* the frames of idle's page and of init's kernel stack
          heap_end,          \* where the library's heap ends
          old_end,           \* history: below it, pages were written before VM was enabled
          agreed             \* history: did region0_pt get all of the heap?

boot_vars == <<done, vm_enabled, current_brk_page, region0_pt, free, others, heap_end,
               old_end, agreed>>

Region0Page == 0..(K_STACK_LIMIT_VPN - 1)
Stack == K_STACK_BASE_VPN..(K_STACK_LIMIT_VPN - 1)

BootInit ==
  /\ done = 0 /\ vm_enabled = FALSE
  /\ current_brk_page = 0 /\ heap_end = orig_kernel_brk_page
  /\ region0_pt = [v \in Region0Page |-> None]
  /\ free = 0..(NUM_FRAMES - 1) /\ others = {}
  /\ old_end = 0 /\ agreed = FALSE
-----------------------------------------------------------------------------
(* The break of the kernel's heap *)

\* Without VM the break moves and no page is mapped.
SetBrk(heap_page) ==
  /\ ~vm_enabled
  /\ current_brk_page' = heap_page
  /\ UNCHANGED <<region0_pt, free>>

GrowBrk(heap_page) ==
  LET pages == current_brk_page..(heap_page - 1)
  IN  /\ vm_enabled /\ heap_page > current_brk_page
      /\ Enough(pages, free)
      /\ region0_pt' = With(region0_pt, pages, "rw", free)
      /\ free' = free \ Taken(pages, free)
      /\ current_brk_page' = heap_page

ShrinkBrk(heap_page) ==
  LET pages == heap_page..(current_brk_page - 1)
  IN  /\ vm_enabled /\ heap_page <= current_brk_page
      /\ free' = free \union Frames(region0_pt, pages)
      /\ region0_pt' = Without(region0_pt, pages)
      /\ current_brk_page' = heap_page

BootSetKernelBrk(heap_page) ==
  /\ heap_page >= orig_kernel_brk_page /\ heap_page < K_STACK_BASE_VPN - 2
  /\ SetBrk(heap_page) \/ GrowBrk(heap_page) \/ ShrinkBrk(heap_page)

\* malloc moves the end of the heap, or has enough and does not.
MoveHeap(heap_page) ==
  /\ BootSetKernelBrk(heap_page)
  /\ heap_end' = heap_page
  /\ old_end' = IF heap_page < old_end THEN heap_page ELSE old_end
  /\ agreed' = (agreed /\ vm_enabled)
KeepHeap == UNCHANGED <<current_brk_page, region0_pt, free, heap_end, old_end, agreed>>
Mallocs == KeepHeap \/ \E n \in 1..MaxGrowth : MoveHeap(heap_end + n)
-----------------------------------------------------------------------------
(* The steps of KernelStart, in order *)

Step(n) == done = n - 1 /\ done' = n

initialize_frame_tracking ==
  /\ Step(1) /\ Mallocs
  /\ UNCHANGED <<vm_enabled, others>>

init_kernel_brk ==
  /\ Step(2)
  /\ current_brk_page' = orig_kernel_brk_page
  /\ UNCHANGED <<vm_enabled, region0_pt, free, others, heap_end, old_end, agreed>>

\* The pcbs of idle and init.
create_pcbs ==
  /\ Step(3) /\ Mallocs
  /\ UNCHANGED <<vm_enabled, others>>

\* Slip: the heap is left out.
init_region0_pt_NoHeap ==
  LET pages == (first_kernel_text_page..(orig_kernel_brk_page - 1)) \union Stack
  IN  /\ Step(4)
      /\ region0_pt' = [v \in Region0Page |-> IF v \notin pages THEN None
                         ELSE [pfn |-> v, prot |-> IF v < first_kernel_data_page THEN "rx" ELSE "rw"]]
      /\ free' = free \ pages
      /\ agreed' = (current_brk_page = heap_end)
      /\ UNCHANGED <<vm_enabled, current_brk_page, others, heap_end, old_end>>

\* Text, data and heap up to the break, and idle's kernel stack, each page in
\* the frame of the same number.
init_region0_pt ==
  LET pages == (first_kernel_text_page..(current_brk_page - 1)) \union Stack
  IN  /\ Step(4)
      /\ region0_pt' = [v \in Region0Page |-> IF v \notin pages THEN None
                         ELSE [pfn |-> v, prot |-> IF v < first_kernel_data_page THEN "rx" ELSE "rw"]]
      /\ free' = free \ pages
      /\ agreed' = (current_brk_page = heap_end)
      /\ UNCHANGED <<vm_enabled, current_brk_page, others, heap_end, old_end>>

\* Idle's one page of region 1.
init_region1_pt ==
  /\ Step(5)
  /\ free # {}
  /\ others' = others \union Taken({0}, free)
  /\ free' = free \ Taken({0}, free)
  /\ UNCHANGED <<vm_enabled, current_brk_page, region0_pt, heap_end, old_end, agreed>>

\* init_sync, init_pipes and init_scheduler.
init_services ==
  /\ Step(6) /\ Mallocs
  /\ UNCHANGED <<vm_enabled, others>>

enable_vm ==
  /\ Step(7)
  /\ vm_enabled' = TRUE /\ old_end' = heap_end
  /\ UNCHANGED <<current_brk_page, region0_pt, free, others, heap_end, agreed>>

\* BootInit's kernel stack is mapped above the break to be written, and is then
\* init's alone.
BootKCCopy ==
  /\ Step(8)
  /\ current_brk_page + Cardinality(Stack) < K_STACK_BASE_VPN - 2
  /\ Enough(Stack, free)
  /\ others' = others \union Taken(Stack, free)
  /\ free' = free \ Taken(Stack, free)
  /\ region0_pt' = Without(region0_pt,
                           current_brk_page..(current_brk_page + Cardinality(Stack) - 1))
  /\ UNCHANGED <<vm_enabled, current_brk_page, heap_end, old_end, agreed>>

\* From now on the heap goes up and down as the kernel works.
Runs ==
  /\ done = 8
  /\ \E heap_page \in (heap_end - MaxGrowth)..(heap_end + MaxGrowth) :
       heap_page # heap_end /\ MoveHeap(heap_page)
  /\ UNCHANGED <<done, vm_enabled, others>>

KernelStart ==
  \/ initialize_frame_tracking \/ init_kernel_brk \/ create_pcbs \/ init_region0_pt
  \/ init_region1_pt \/ init_services \/ enable_vm \/ BootKCCopy

BootNext == KernelStart \/ Runs

BootSpec == BootInit /\ [][BootNext]_boot_vars
-----------------------------------------------------------------------------
\* The pages the kernel uses: text, data, heap and its stack.
KernelPages == (first_kernel_text_page..(heap_end - 1)) \union Stack

\* Every page in use is mapped, and one that was written before VM was
\* enabled is in the frame it was written in.
AllMapped ==
  \A v \in KernelPages :
    /\ region0_pt[v] # None
    /\ v \in (0..(old_end - 1)) \union Stack => region0_pt[v].pfn = v

\* "Initialize region 0 page table entries for kernel text, data, and stack":
\* the kernel can reach all of its memory, for as long as it runs, and no frame
\* is mapped twice or both in use and free, if the heap is where
\* current_brk_page says when region0_pt is filled in, and does not grow from
\* there until VM is enabled.  KernelStart ensures neither: both depend on what
\* malloc has left over.
SoundWhenAgreed ==
  agreed =>
    LET mapped == Frames(region0_pt, Region0Page)
    IN  /\ vm_enabled => AllMapped
        /\ Cardinality(Mapped(region0_pt)) = Cardinality(mapped)
        /\ (mapped \union others) \intersect free = {}
        /\ mapped \intersect others = {}
        /\ vm_enabled => mapped \union others \union free = 0..(NUM_FRAMES - 1)
=============================================================================
