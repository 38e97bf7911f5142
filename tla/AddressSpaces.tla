--------------------------- MODULE AddressSpaces ----------------------------
(***************************************************************************)
(* The memory of processes: the heap, stack and program of region 1        *)
(* (user_memory.c, load_program.c), kernel stacks and the kernel's heap in *)
(* region 0 (kernel_memory.c), and the calls and traps that change them    *)
(* (syscalls.c, interrupt.c), all over one pool of frames.                 *)
(*                                                                         *)
(* Region 1 pages are numbered from 0.  What is in a page is left out.     *)
(* Region 0 holds the kernel's heap, numbered from 0 and empty at first,   *)
(* below the kernel stack; the tables of idle are left out, and the part   *)
(* of region 0 that holds the stack is the running process's ks_pt.        *)
(* A call that is refused without changing anything is no step.            *)
(***************************************************************************)
EXTENDS RunQueue, PageTables

CONSTANTS Init_pcb,
          REGION1_VPNS,
          K_STACK_VPNS,      \* the pages of a kernel stack
          TextPages, DataPages, StackPages  \* the sizes of programs

ASSUME SpaceAssumption ==
  /\ Init_pcb \in Proc /\ None \notin Proc
  /\ NUM_FRAMES \in Nat /\ REGION1_VPNS \in Nat
  /\ K_STACK_VPNS \in Nat \ {0} /\ K_STACK_BASE_VPN \in Nat
  /\ TextPages \union DataPages \union StackPages \subseteq Nat \ {0}

VARIABLES region1_pt,  \* each process's region 1 table
          mem_ctx,     \* [txt_start_page, data_start_page, orig_brk_page, curr_brk_page]
          sp,          \* the page each process's stack pointer is in
          ks_pt,       \* each process's kernel stack
          live,        \* the processes that exist
          fault,       \* "none", or what the kernel itself faulted on: a "page"
                       \* of the caller or the "pcb" of the child in Fork, the
                       \* stack of the process at a "switch", a user's "pointer"
          refused,     \* history: the pages of each process's stack that there
                       \* was no memory for when it needed them last
          stackless,   \* history: those whose kernel stack there was none for
          overgrown    \* history: has a heap been grown onto a stack's pages?

user == <<region1_pt, mem_ctx, sp>>
kernel == <<ks_pt, region0_pt, current_brk_page>>
queue == <<running, main_queue>>
history == <<refused, stackless, overgrown>>
vars == <<queue, free, user, kernel, live, fault, history>>

Page == 0..(REGION1_VPNS - 1)
StackPage == 0..(K_STACK_VPNS - 1)
Program == [text : TextPages, data : DataPages, stack : StackPages]

\* What a process that does not exist has.
NoTable(pages) == [v \in pages |-> None]
NoContext == [txt_start_page |-> 0, data_start_page |-> 0, orig_brk_page |-> 0, curr_brk_page |-> 0]

\* Can the kernel's heap end at heap_page?
HeapMayEndAt(heap_page) == heap_page < K_STACK_BASE_VPN - 2

\* There is a request of at most n pages that malloc cannot meet: it returns
\* NULL when SetKernelBrk refuses the pages it asks for.
MallocMayFail(n) ==
  n > Cardinality(free) \/ ~HeapMayEndAt(current_brk_page + n)

pt == region1_pt[running]
ctx == mem_ctx[running]

Trap == UserRuns /\ fault = "none"

\* The pages of p's stack.
UserStack(p) == sp[p]..(REGION1_VPNS - 1)
-----------------------------------------------------------------------------
(* Programs *)

\* The table of a program just loaded, its frames taken from the pool.
Loaded(prog, pool) ==
  LET low   == 0..(prog.text + prog.data - 1)
      pages == low \union ((REGION1_VPNS - prog.stack)..(REGION1_VPNS - 1))
      table == With(NoTable(Page), pages, "rw", pool)
  IN  [v \in Page |-> IF v < prog.text THEN [table[v] EXCEPT !.prot = "rx"] ELSE table[v]]

ContextOf(prog) ==
  [txt_start_page |-> 0, data_start_page |-> prog.text,
   orig_brk_page |-> prog.text + prog.data, curr_brk_page |-> prog.text + prog.data]

Size(prog) == prog.text + prog.data + prog.stack

\* "leave at least one page between heap and stack"
Fits(prog) == Size(prog) < REGION1_VPNS

\* KernelStart: init has a kernel stack and its program; idle runs.
Init ==
  \E prog \in Program :
    LET all == 0..(NUM_FRAMES - 1)
        pool == all \ Taken(StackPage, all)
        table == Loaded(prog, pool)
    IN  /\ Fits(prog) /\ Size(prog) <= Cardinality(pool)
        /\ running = Init_pcb /\ main_queue = <<>>
        /\ live = {Init_pcb}
        /\ region1_pt = [p \in Proc |-> IF p = Init_pcb THEN table ELSE NoTable(Page)]
        /\ mem_ctx = [p \in Proc |-> IF p = Init_pcb THEN ContextOf(prog) ELSE NoContext]
        /\ sp = [p \in Proc |-> IF p = Init_pcb THEN REGION1_VPNS - prog.stack ELSE 0]
        /\ ks_pt = [p \in Proc |-> IF p = Init_pcb THEN With(NoTable(StackPage), StackPage, "rw", all)
                                                   ELSE NoTable(StackPage)]
        /\ free = pool \ Frames(table, Page)
        /\ region0_pt = NoTable(0..(K_STACK_BASE_VPN - 1)) /\ current_brk_page = 0
        /\ fault = "none"
        /\ refused = [p \in Proc |-> {}] /\ stackless = {} /\ overgrown = FALSE

\* Slip: the text stays writable.
LoadProgram_Writable(prog) ==
  LET pool == free \union Frames(pt, Page)
      table == [v \in Page |-> IF Loaded(prog, pool)[v] = None THEN None
                               ELSE [Loaded(prog, pool)[v] EXCEPT !.prot = "rw"]]
  IN  /\ Fits(prog) /\ Size(prog) <= Cardinality(pool)
      /\ region1_pt' = [region1_pt EXCEPT ![running] = table]
      /\ free' = pool \ Frames(table, Page)
      /\ mem_ctx' = [mem_ctx EXCEPT ![running] = ContextOf(prog)]
      /\ sp' = [sp EXCEPT ![running] = REGION1_VPNS - prog.stack]

\* The old pages are given back, and the program gets its own.
LoadProgram(prog) ==
  LET pool == free \union Frames(pt, Page)
      table == Loaded(prog, pool)
  IN  /\ Fits(prog) /\ Size(prog) <= Cardinality(pool)
      /\ region1_pt' = [region1_pt EXCEPT ![running] = table]
      /\ free' = pool \ Frames(table, Page)
      /\ mem_ctx' = [mem_ctx EXCEPT ![running] = ContextOf(prog)]
      /\ sp' = [sp EXCEPT ![running] = REGION1_VPNS - prog.stack]

KernelExec(prog) ==
  /\ Trap
  /\ LoadProgram(prog)
  /\ refused' = [refused EXCEPT ![running] = {}]
  /\ UNCHANGED <<queue, kernel, live, fault, stackless, overgrown>>

\* LoadProgram has set the new stack pointer and there is no memory for a
\* copy of the arguments: Exec returns ERROR, and the process has the stack
\* pointer of a stack it did not get.
ExecReturnsError(prog) ==
  /\ Trap
  /\ Fits(prog) /\ MallocMayFail(prog.stack)
  /\ sp' = [sp EXCEPT ![running] = REGION1_VPNS - prog.stack]
  /\ refused' = [refused EXCEPT ![running] = @ \union ((REGION1_VPNS - prog.stack)..(REGION1_VPNS - 1))]
  /\ UNCHANGED <<queue, free, region1_pt, mem_ctx, kernel, live, fault, stackless, overgrown>>
-----------------------------------------------------------------------------
(* Heap and stack *)

BrkGrows(heap_page) ==
  LET pages == ctx.curr_brk_page..(heap_page - 1)
  IN  /\ heap_page > ctx.curr_brk_page
      /\ Enough(pages, free)
      /\ region1_pt' = [region1_pt EXCEPT ![running] = With(@, pages, "rw", free)]
      /\ free' = free \ Taken(pages, free)
      /\ mem_ctx' = [mem_ctx EXCEPT ![running].curr_brk_page = heap_page]
      /\ overgrown' = (overgrown \/ ctx.curr_brk_page..heap_page \intersect Mapped(pt) # {})

\* Frames run out: the pages that got one lose it again.
BrkFails(heap_page) ==
  LET pages == ctx.curr_brk_page..(heap_page - 1)
  IN  /\ heap_page > ctx.curr_brk_page
      /\ ~Enough(pages, free)
      /\ region1_pt' = [region1_pt EXCEPT ![running] = Without(@, Served(pages, free))]
      /\ overgrown' = (overgrown \/ pages \intersect Mapped(pt) # {})
      /\ UNCHANGED <<free, mem_ctx>>

BrkShrinks(heap_page) ==
  LET pages == heap_page..(ctx.curr_brk_page - 1)
  IN  /\ heap_page <= ctx.curr_brk_page
      /\ free' = free \union Frames(pt, pages)
      /\ region1_pt' = [region1_pt EXCEPT ![running] = Without(@, pages)]
      /\ mem_ctx' = [mem_ctx EXCEPT ![running].curr_brk_page = heap_page]
      /\ UNCHANGED overgrown

KernelBrk_Impl(heap_page) ==
  /\ Trap
  /\ heap_page >= ctx.orig_brk_page /\ heap_page < sp[running] - 1
  /\ BrkGrows(heap_page) \/ BrkFails(heap_page) \/ BrkShrinks(heap_page)
  /\ UNCHANGED <<queue, sp, kernel, live, fault, refused, stackless>>

\* The process makes its stack smaller.
Pops(v) ==
  /\ Trap
  /\ v > sp[running]
  /\ sp' = [sp EXCEPT ![running] = v]
  /\ UNCHANGED <<queue, free, region1_pt, mem_ctx, kernel, live, fault, history>>

\* Slip: only the page of the address is mapped.
expand_stack_OnePage(page) ==
  LET pages == {page}
  IN  /\ page >= ctx.curr_brk_page + 1
      /\ region1_pt' = [region1_pt EXCEPT ![running] = With(@, Served(pages, free), "rw", free)]
      /\ free' = free \ Taken(Served(pages, free), free)
      /\ refused' = [refused EXCEPT ![running] = (@ \union pages) \ Served(pages, free)]

\* The pages from the address up to the first that is mapped, or as many of
\* them as there are frames for.
expand_stack(page) ==
  LET pages == {v \in page..(REGION1_VPNS - 1) : page..v \intersect Mapped(pt) = {}}
      served == Served(pages, free)
  IN  /\ page >= ctx.curr_brk_page + 1
      /\ region1_pt' = [region1_pt EXCEPT ![running] = With(@, served, "rw", free)]
      /\ free' = free \ Taken(served, free)
      /\ refused' = [refused EXCEPT ![running] = (@ \union pages) \ served]

\* The process moves its stack pointer down to page v, whose page, if it is
\* not there, the memory trap adds.
Pushes(v) ==
  /\ Trap
  /\ v < sp[running] /\ v > ctx.curr_brk_page
  /\ sp' = [sp EXCEPT ![running] = v]
  /\ \/ v \in Mapped(pt) /\ UNCHANGED <<region1_pt, free, refused>>
     \/ v \notin Mapped(pt) /\ expand_stack(v)
  /\ UNCHANGED <<queue, mem_ctx, kernel, live, fault, stackless, overgrown>>

\* A page of the stack that there was no frame for is touched again.
TouchesAgain(v) ==
  /\ Trap
  /\ v >= sp[running] /\ v \notin Mapped(pt)
  /\ expand_stack(v)
  /\ UNCHANGED <<queue, mem_ctx, sp, kernel, live, fault, stackless, overgrown>>
-----------------------------------------------------------------------------
(* Fork *)

\* The pages UCCopy copies.
Copied(p) ==
  mem_ctx[p].txt_start_page..(mem_ctx[p].curr_brk_page - 1) \union UserStack(p)

\* Slip: the child's text becomes executable and stays writable.
UCCopy_KeepsWrite(c) ==
  LET pages == Copied(running)
      copy == With(NoTable(Page), pages, "rw", free)
  IN  /\ region1_pt' = [region1_pt EXCEPT
           ![running] = Without(@, {ctx.curr_brk_page}),
           ![c] = [v \in Page |-> IF v \in ctx.txt_start_page..(ctx.data_start_page - 1)
                                  THEN [copy[v] EXCEPT !.prot = "rwx"] ELSE copy[v]]]
      /\ mem_ctx' = [mem_ctx EXCEPT ![c] = ctx]
      /\ sp' = [sp EXCEPT ![c] = sp[running]]

\* Every page is copied by way of the caller's page at its brk, which is not
\* mapped in the end.
UCCopy(c) ==
  LET pages == Copied(running)
      copy == With(NoTable(Page), pages, "rw", free)
  IN  /\ region1_pt' = [region1_pt EXCEPT
           ![running] = Without(@, {ctx.curr_brk_page}),
           ![c] = [v \in Page |-> IF v \in ctx.txt_start_page..(ctx.data_start_page - 1)
                                  THEN [copy[v] EXCEPT !.prot = "rx"] ELSE copy[v]]]
      /\ mem_ctx' = [mem_ctx EXCEPT ![c] = ctx]
      /\ sp' = [sp EXCEPT ![c] = sp[running]]

\* Slip: the frames of the stack stay free.
KCCopy_Unmarked(c, pool) ==
  LET ok == HeapMayEndAt(current_brk_page + K_STACK_VPNS) /\ Enough(StackPage, pool)
  IN  /\ ks_pt' = IF ok THEN [ks_pt EXCEPT ![c] = With(@, StackPage, "rw", pool)] ELSE ks_pt
      /\ free' = pool
      /\ stackless' = IF ok THEN stackless ELSE stackless \union {c}

\* The kernel's heap is grown for the copy of the stack, which then goes to
\* the child.  KernelFork does not look whether it could be.
KCCopy(c, pool) ==
  LET ok == HeapMayEndAt(current_brk_page + K_STACK_VPNS) /\ Enough(StackPage, pool)
  IN  /\ ks_pt' = IF ok THEN [ks_pt EXCEPT ![c] = With(@, StackPage, "rw", pool)] ELSE ks_pt
      /\ free' = IF ok THEN pool \ Taken(StackPage, pool) ELSE pool
      /\ stackless' = IF ok THEN stackless ELSE stackless \union {c}

ForkTrap == Trap /\ ctx.curr_brk_page < sp[running]

KernelFork(c) ==
  /\ ForkTrap
  /\ c \notin live
  /\ Copied(running) \subseteq Mapped(pt)
  /\ Enough(Copied(running), free)
  /\ UCCopy(c)
  /\ KCCopy(c, free \ Taken(Copied(running), free))
  /\ live' = live \union {c}
  /\ main_queue' = schedule_process(main_queue, c)
  /\ overgrown' = (overgrown \/ ctx.curr_brk_page \in Mapped(pt))
  /\ UNCHANGED <<running, region0_pt, current_brk_page, fault, refused>>

\* The pages UCCopy comes to before frames run out.
Reached == Served(Copied(running), free)

\* Frames run out in UCCopy: what was copied is given back, and the caller
\* is without its page at the brk if one page was copied.
ForkFails ==
  /\ ForkTrap
  /\ Reached \subseteq Mapped(pt)
  /\ ~Enough(Copied(running), free)
  /\ region1_pt' = IF free = {} THEN region1_pt
                   ELSE [region1_pt EXCEPT ![running] = Without(@, {ctx.curr_brk_page})]
  /\ overgrown' = (overgrown \/ ctx.curr_brk_page \in Mapped(pt))
  /\ UNCHANGED <<queue, free, mem_ctx, sp, kernel, live, fault, refused, stackless>>

\* UCCopy copies a page that is not there.
ForkFaults ==
  /\ ForkTrap
  /\ ~(Reached \subseteq Mapped(pt))
  /\ fault' = "page"
  /\ UNCHANGED <<queue, free, user, kernel, live, history>>

\* There is no memory for the child's pcb: UCCopy goes through NULL.
ForkWithoutPcb ==
  /\ ForkTrap
  /\ MallocMayFail(1)
  /\ fault' = "pcb"
  /\ UNCHANGED <<queue, free, user, kernel, live, history>>

\* Wait and the calls that create a pipe, lock, semaphore or condition variable
\* store through a pointer of the user that nobody looked at.
StoresThroughPointer(v) ==
  /\ Trap
  /\ pt[v] # None => pt[v].prot # "rw"
  /\ fault' = "pointer"
  /\ UNCHANGED <<queue, free, user, kernel, live, history>>
-----------------------------------------------------------------------------
(* The end of a process, the kernel's heap, the clock *)

\* A switch to a process without a kernel stack is the end of the kernel.
SwitchFaults ==
  fault' = IF running' \in Proc /\ Mapped(ks_pt[running']) = {} THEN "switch" ELSE "none"

\* Exit, the end of a process that faults, and of one whose Exec fails after
\* its old pages are gone.
KernelExit ==
  /\ Trap
  /\ running # Init_pcb
  /\ free' = free \union Frames(pt, Page) \union Frames(ks_pt[running], StackPage)
  /\ region1_pt' = [region1_pt EXCEPT ![running] = NoTable(Page)]
  /\ ks_pt' = [ks_pt EXCEPT ![running] = NoTable(StackPage)]
  /\ mem_ctx' = [mem_ctx EXCEPT ![running] = NoContext]
  /\ sp' = [sp EXCEPT ![running] = 0]
  /\ live' = live \ {running}
  /\ SwitchToNext(main_queue)
  /\ SwitchFaults
  /\ refused' = [refused EXCEPT ![running] = {}]
  /\ stackless' = stackless \ {running}
  /\ UNCHANGED <<region0_pt, current_brk_page, overgrown>>

HeapGrows(heap_page) ==
  LET pages == current_brk_page..(heap_page - 1)
  IN  /\ heap_page > current_brk_page /\ Enough(pages, free)
      /\ region0_pt' = With(region0_pt, pages, "rw", free)
      /\ free' = free \ Taken(pages, free)

HeapShrinks(heap_page) ==
  LET pages == heap_page..(current_brk_page - 1)
  IN  /\ heap_page < current_brk_page
      /\ free' = free \union Frames(region0_pt, pages)
      /\ region0_pt' = Without(region0_pt, pages)

\* malloc and free in the kernel move the end of its heap.
SetKernelBrk(heap_page) ==
  /\ Trap
  /\ HeapMayEndAt(heap_page)
  /\ HeapGrows(heap_page) \/ HeapShrinks(heap_page)
  /\ current_brk_page' = heap_page
  /\ UNCHANGED <<queue, user, ks_pt, live, fault, history>>

trap_clock_handler ==
  /\ fault = "none"
  /\ Preempt(main_queue)
  /\ SwitchFaults
  /\ UNCHANGED <<free, user, kernel, live, history>>

Next ==
  \/ \E prog \in Program : KernelExec(prog) \/ ExecReturnsError(prog)
  \/ \E v \in Page : KernelBrk_Impl(v) \/ Pops(v) \/ Pushes(v) \/ TouchesAgain(v)
                    \/ StoresThroughPointer(v)
  \/ \E c \in Proc : KernelFork(c)
  \/ ForkFails \/ ForkFaults \/ ForkWithoutPcb
  \/ KernelExit
  \/ \E v \in 0..(K_STACK_BASE_VPN - 1) : SetKernelBrk(v)
  \/ trap_clock_handler

Spec == Init /\ [][Next]_vars
-----------------------------------------------------------------------------
Pte == [pfn : 0..(NUM_FRAMES - 1), prot : {"rw", "rx"}] \union {None}

\* The variables have their types.
TypeOK ==
  /\ running \in Proc \union {Idle} /\ main_queue \in Seq(Proc) /\ live \subseteq Proc
  /\ free \subseteq 0..(NUM_FRAMES - 1)
  /\ region1_pt \in [Proc -> [Page -> Pte]]
  /\ ks_pt \in [Proc -> [StackPage -> Pte]]
  /\ region0_pt \in [0..(K_STACK_BASE_VPN - 1) -> Pte]
  /\ \A p \in Proc : mem_ctx[p] \in [txt_start_page : Page, data_start_page : Page,
                                     orig_brk_page : Page, curr_brk_page : Page]
  /\ sp \in [Proc -> Page]
  /\ current_brk_page \in 0..K_STACK_BASE_VPN
  /\ fault \in {"none", "page", "pcb", "switch", "pointer"}
  /\ refused \in [Proc -> SUBSET Page] /\ stackless \subseteq Proc

\* Every entry of every table: <<owner, page>>.
Entries ==
  {<<"user", p, v>> : p \in Proc, v \in Page} \union
  {<<"stack", p, v>> : p \in Proc, v \in StackPage} \union
  {<<"heap", 0, v>> : v \in DOMAIN region0_pt}
EntryAt(e) == IF e[1] = "user" THEN region1_pt[e[2]][e[3]]
              ELSE IF e[1] = "stack" THEN ks_pt[e[2]][e[3]] ELSE region0_pt[e[3]]
InUse == {e \in Entries : EntryAt(e) # None}
MappedFrames == {EntryAt(e).pfn : e \in InUse}

\* Isolation and no leaks: every frame is either free, and mapped nowhere, or
\* mapped by one entry of one table only.  Frames are lost, in use and mapped
\* by no table, only after a heap has been grown onto pages of a stack.
FramesConserved ==
  /\ Cardinality(InUse) = Cardinality(MappedFrames)
  /\ MappedFrames \intersect free = {}
  /\ overgrown \/ free \union MappedFrames = 0..(NUM_FRAMES - 1)

\* Every page missing from a stack is one that there was no memory for when
\* this process needed it last, and a process is without a kernel stack only if
\* KCCopy could not make its own: the failures of Brk and of UCCopy, which are
\* undone, another process's bad luck, and a stack that shrinks and comes back
\* beside a moving heap, leave no hole.  So UCCopy and a switch fault on just
\* these.  Nothing is said of a fault on a user's pointer, which happens
\* whatever memory there is.
BrokenOnlyByRefusal ==
  /\ \A p \in live : UserStack(p) \ Mapped(region1_pt[p]) \subseteq refused[p]
  /\ \A p \in live : Mapped(ks_pt[p]) = StackPage \/ p \in stackless
  /\ fault = "page" => refused[running] \intersect (UserStack(running) \ Mapped(region1_pt[running])) # {}
  /\ fault = "switch" => running \in stackless

\* Text is never writable, and all of text, data and heap is there.
ProgramIsWhole ==
  \A p \in live :
    LET m == mem_ctx[p]
        Prot(v) == IF v < m.data_start_page THEN "rx" ELSE "rw"
    IN  \A v \in m.txt_start_page..(m.curr_brk_page - 1) :
          region1_pt[p][v] # None /\ region1_pt[p][v].prot = Prot(v)
=============================================================================
