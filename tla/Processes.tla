----------------------------- MODULE Processes ------------------------------
(***************************************************************************)
(* The life of processes: Fork, Exit, Wait and Delay of syscalls.c, the    *)
(* parent and child bookkeeping of pcb.c, the waiting and sleeping queues  *)
(* of scheduler.c, and the clock handler of interrupt.c that serves them.  *)
(*                                                                         *)
(* A member of Proc is a block of kernel heap that can hold a pcb: it is   *)
(* used again once it has been freed, so a pointer that outlives its pcb   *)
(* can come to point to another process.  Exit codes are left out.         *)
(*                                                                         *)
(* wake_up is kept as the number of ticks still to go.  The heap of        *)
(* sleepers is abstracted to the order it promises: earliest first, and    *)
(* any order among processes that wake at the same tick (SleepHeap).       *)
(***************************************************************************)
EXTENDS RunQueue, SequencesExt

CONSTANTS Init_pcb,        \* the init process, whose exit halts the machine
          CHILD_ARR_SIZE,  \* room for children in a new pcb
          MaxDelay,        \* bound on the argument of Delay
          GrowthMayFail,   \* may add_child_proc fail to allocate?
          Nobody           \* no parent

ASSUME ProcessAssumption ==
  /\ IsFiniteSet(Proc) /\ Init_pcb \in Proc
  /\ CHILD_ARR_SIZE \in Nat \ {0}
  /\ MaxDelay \in Nat \ {0}
  /\ GrowthMayFail \in BOOLEAN
  /\ Nobody \notin Proc

VARIABLES state,       \* "FREE": no pcb here; "LIVE"; "EXITED"
          children,    \* relations.children
          arr_size,    \* relations.arr_size (0: there is no array)
          has_parent,  \* relations.has_parent
          wait_queue,  \* queues[WAIT_BLOCKING_QUEUE]
          sleepers,    \* ticks each sleeping process has still to sleep
          halted,      \* Halt was called
          parent,      \* history: who forked the process, while that one lives
          unlisted     \* history: processes add_child_proc failed to list

family == <<state, children, arr_size, has_parent, parent, unlisted>>
vars == <<running, main_queue, family, wait_queue, sleepers, halted>>

Live == {p \in Proc : state[p] = "LIVE"}
Exited(p) == state[p] = "EXITED"

\* KernelStart: init is scheduled, and the idle process runs.
Init ==
  /\ running = Idle
  /\ main_queue = <<Init_pcb>>
  /\ state = [p \in Proc |-> IF p = Init_pcb THEN "LIVE" ELSE "FREE"]
  /\ children = [p \in Proc |-> <<>>]
  /\ arr_size = [p \in Proc |-> IF p = Init_pcb THEN CHILD_ARR_SIZE ELSE 0]
  /\ has_parent = [p \in Proc |-> p = Init_pcb]
  /\ wait_queue = <<>>
  /\ sleepers = <<>>
  /\ halted = FALSE
  /\ parent = [p \in Proc |-> Nobody]
  /\ unlisted = {}

Trap == UserRuns /\ ~halted

-----------------------------------------------------------------------------
(* Fork *)

\* create_new_pcb, in the block c.
create_new_pcb(c) ==
  /\ state' = [state EXCEPT ![c] = "LIVE"]
  /\ has_parent' = [has_parent EXCEPT ![c] = TRUE]

\* Slip: the array grows one child too late.
add_child_proc_Late(p, c) ==
  /\ children' = [children EXCEPT ![p] = Append(@, c), ![c] = <<>>]
  /\ arr_size' = [arr_size EXCEPT
       ![p] = IF Len(children[p]) > @ THEN 2 * @ ELSE @,
       ![c] = CHILD_ARR_SIZE]
  /\ UNCHANGED unlisted

\* add_child_proc when there is room or a larger array can be allocated.
add_child_proc(p, c) ==
  /\ children' = [children EXCEPT ![p] = Append(@, c), ![c] = <<>>]
  /\ arr_size' = [arr_size EXCEPT
       ![p] = IF Len(children[p]) = @ THEN 2 * @ ELSE @,
       ![c] = CHILD_ARR_SIZE]
  /\ UNCHANGED unlisted

\* add_child_proc when it returns false.
add_child_fails(p, c) ==
  /\ GrowthMayFail
  /\ Len(children[p]) = arr_size[p]
  /\ children' = [children EXCEPT ![c] = <<>>]
  /\ arr_size' = [arr_size EXCEPT ![c] = CHILD_ARR_SIZE]
  /\ unlisted' = unlisted \union {c}

\* A fork that runs out of memory undoes itself and is no step.  KernelFork
\* does not look at what add_child_proc returns.
KernelFork ==
  /\ Trap
  /\ \E c \in Proc :
       /\ state[c] = "FREE"
       /\ create_new_pcb(c)
       /\ add_child_proc(running, c) \/ add_child_fails(running, c)
       /\ main_queue' = schedule_process(main_queue, c)
       /\ parent' = [parent EXCEPT ![c] = running]
  /\ UNCHANGED <<running, wait_queue, sleepers, halted>>
-----------------------------------------------------------------------------
(* Exit *)

\* Slip: the pcb is freed although its parent still points to it.
retire_pcb_TooEarly(p) ==
  LET kids == Range(children[p])
  IN  /\ state' = [c \in Proc |-> IF c = p \/ (c \in kids /\ Exited(c)) THEN "FREE" ELSE state[c]]
      /\ has_parent' = [c \in Proc |-> has_parent[c] /\ ~(c \in kids /\ ~Exited(c))]
      /\ children' = [children EXCEPT ![p] = <<>>]
      /\ parent' = [c \in Proc |-> IF parent[c] = p THEN Nobody ELSE parent[c]]
      /\ arr_size' = [arr_size EXCEPT ![p] = 0]
      /\ UNCHANGED unlisted

\* Slip: the children do not learn that they are orphans.
retire_pcb_NoOrphans(p) ==
  LET freed == {c \in Range(children[p]) : Exited(c)}
                 \union (IF has_parent[p] THEN {} ELSE {p})
  IN  /\ state' = [c \in Proc |-> IF c \in freed THEN "FREE"
                                  ELSE IF c = p THEN "EXITED" ELSE state[c]]
      /\ children' = [children EXCEPT ![p] = <<>>]
      /\ parent' = [c \in Proc |-> IF parent[c] = p THEN Nobody ELSE parent[c]]
      /\ arr_size' = [arr_size EXCEPT ![p] = 0]
      /\ UNCHANGED <<has_parent, unlisted>>

\* Children that have exited are freed, the others become orphans, and the
\* pcb itself is freed when no parent can ask for it.
retire_pcb(p) ==
  LET kids  == Range(children[p])
      freed == {c \in kids : Exited(c)} \union (IF has_parent[p] THEN {} ELSE {p})
  IN  /\ state' = [c \in Proc |-> IF c \in freed THEN "FREE"
                                  ELSE IF c = p THEN "EXITED" ELSE state[c]]
      /\ has_parent' = [c \in Proc |-> has_parent[c] /\ ~(c \in kids /\ ~Exited(c))]
      /\ children' = [children EXCEPT ![p] = <<>>]
      /\ parent' = [c \in Proc |-> IF parent[c] = p THEN Nobody ELSE parent[c]]
      /\ arr_size' = [arr_size EXCEPT ![p] = 0]
      /\ UNCHANGED unlisted

\* Exit, and the end of a process that faults.
KernelExit ==
  /\ Trap
  /\ running # Init_pcb
  /\ SwitchToNext(main_queue)
  /\ retire_pcb(running)
  /\ UNCHANGED <<wait_queue, sleepers, halted>>

Halt ==
  /\ Trap
  /\ running = Init_pcb
  /\ halted' = TRUE
  /\ UNCHANGED <<running, main_queue, family, wait_queue, sleepers>>
-----------------------------------------------------------------------------
(* Wait *)

\* Slip: only the eldest child is looked at.
HasExitedChild_Eldest(p) == children[p] # <<>> /\ Exited(Head(children[p]))

HasExitedChild(p) == \E c \in Range(children[p]) : Exited(c)

\* Where find_exited_child finds p's first exited child.
FirstExited(p) ==
  CHOOSE i \in DOMAIN children[p] :
    /\ Exited(children[p][i])
    /\ \A j \in 1..(i - 1) : ~Exited(children[p][j])

\* find_exited_child on behalf of every process of the set ps, each of which
\* has an exited child: the child is freed, the array compacted and, when it
\* is sparse and a smaller one can be allocated, halved.
find_exited_child(ps) ==
  LET freed  == {children[p][FirstExited(p)] : p \in ps}
      sparse == {p \in ps : Len(children[p]) < arr_size[p] \div 2}
  IN  /\ state' = [c \in Proc |-> IF c \in freed THEN "FREE" ELSE state[c]]
      /\ parent' = [c \in Proc |-> IF c \in freed THEN Nobody ELSE parent[c]]
      /\ children' = [p \in Proc |-> IF p \in ps THEN RemoveAt(children[p], FirstExited(p))
                                     ELSE children[p]]
      /\ \E halved \in SUBSET sparse :
           arr_size' = [p \in Proc |-> IF p \in halved THEN arr_size[p] \div 2
                                       ELSE arr_size[p]]
      /\ UNCHANGED <<has_parent, unlisted>>

\* Wait finds a child that has exited, or blocks.
KernelWait ==
  /\ Trap
  /\ \/ /\ HasExitedChild(running)
        /\ find_exited_child({running})
        /\ UNCHANGED <<running, main_queue, wait_queue>>
     \/ /\ ~HasExitedChild(running)
        /\ wait_queue' = Append(wait_queue, running)
        /\ SwitchToNext(main_queue)
        /\ UNCHANGED family
  /\ UNCHANGED <<sleepers, halted>>
-----------------------------------------------------------------------------
(* Delay and the clock *)

\* Delay of no ticks returns at once; a full heap that cannot grow is refused.
KernelDelay ==
  /\ Trap
  /\ \E t \in 1..MaxDelay :
       sleepers' = [p \in DOMAIN sleepers \union {running} |-> IF p = running THEN t ELSE sleepers[p]]
  /\ SwitchToNext(main_queue)
  /\ UNCHANGED <<family, wait_queue, halted>>

\* The members of S that are on the queue q, in its order.
Selected(q, S) ==
  CHOOSE s \in SetToSeqs(Range(q) \intersect S) :
    \A i, j \in DOMAIN s : i < j => \E k, l \in DOMAIN q : k < l /\ q[k] = s[i] /\ q[l] = s[j]

\* Slip: one process is woken at each tick.
Woken_One ==
  LET all == Selected(wait_queue, {p \in Proc : HasExitedChild(p)})
  IN  IF all = <<>> THEN all ELSE <<Head(all)>>

\* wake_waiters goes through the queue until nobody in it has an exited
\* child; each process it wakes takes one child, its own.
Woken == Selected(wait_queue, {p \in Proc : HasExitedChild(p)})

\* Slip: processes that are woken stay on the waiting queue.
StillWaiting_All == wait_queue

StillWaiting == Selected(wait_queue, Proc \ Range(Woken))

\* The sleepers whose time has come with this tick.
Due == {p \in DOMAIN sleepers : sleepers[p] = 1}

\* Slip: the tick is not counted.
trap_clock_handler_NoCount ==
  /\ ~halted
  /\ find_exited_child(Range(Woken))
  /\ wait_queue' = StillWaiting
  /\ sleepers' = [p \in DOMAIN sleepers \ Due |-> sleepers[p]]
  /\ \E due \in SetToSeqs(Due) : Preempt(main_queue \o Woken \o due)
  /\ UNCHANGED halted

\* One tick: wake_waiters, then wake_sleepers, then the next process.
trap_clock_handler ==
  /\ ~halted
  /\ find_exited_child(Range(Woken))
  /\ wait_queue' = StillWaiting
  /\ sleepers' = [p \in DOMAIN sleepers \ Due |-> sleepers[p] - 1]
  /\ \E due \in SetToSeqs(Due) : Preempt(main_queue \o Woken \o due)
  /\ UNCHANGED halted

Next ==
  \/ KernelFork
  \/ KernelExit
  \/ Halt
  \/ KernelWait
  \/ KernelDelay
  \/ trap_clock_handler

\* The clock interrupt keeps arriving; nothing is assumed of the processes.
Spec == Init /\ [][Next]_vars /\ WF_vars(trap_clock_handler)
-----------------------------------------------------------------------------
\* Every variable has its type.  The children of a process fit in their array,
\* and halving never leaves an array of no entries, which add_child_proc could
\* not double.
TypeOK ==
  /\ running \in Proc \union {Idle}
  /\ main_queue \in Seq(Proc)
  /\ state \in [Proc -> {"FREE", "LIVE", "EXITED"}]
  /\ children \in [Proc -> Seq(Proc)]
  /\ arr_size \in [Proc -> Nat]
  /\ \A p \in Live : arr_size[p] >= 1 /\ Len(children[p]) <= arr_size[p]
  /\ has_parent \in [Proc -> BOOLEAN]
  /\ wait_queue \in Seq(Proc)
  /\ DOMAIN sleepers \subseteq Proc
  /\ \A p \in DOMAIN sleepers : sleepers[p] \in 1..MaxDelay
  /\ halted \in BOOLEAN
  /\ parent \in [Proc -> Proc \union {Nobody}]
  /\ unlisted \subseteq Proc

Place == {"running", "main", "wait", "sleep"}
At(k) ==
  CASE k = "running" -> {running}
    [] k = "main"    -> Range(main_queue)
    [] k = "wait"    -> Range(wait_queue)
    [] k = "sleep"   -> DOMAIN sleepers

\* A live process is in exactly one place, once: no clock tick, exit or fork
\* queues it twice or loses it.  A pcb that exited or was freed is nowhere.
PlacedOnce ==
  /\ \A p \in Proc : Cardinality({k \in Place : p \in At(k)}) = IF p \in Live THEN 1 ELSE 0
  /\ IsInjective(main_queue) /\ IsInjective(wait_queue)

\* A child pointer never dangles, whatever block is freed and used again in
\* between: the child a living parent lists is still the child it forked, is
\* listed once, and knows that it has a parent.
NoDanglingChild ==
  \A p \in Proc :
    /\ IsInjective(children[p])
    /\ \A c \in Range(children[p]) :
         p \in Live /\ state[c] # "FREE" /\ parent[c] = p /\ has_parent[c]

\* No pcb outlives its use: a process that says it has a parent is listed by
\* the living process that forked it, and a pcb that exited is kept only for
\* such a parent.  The one way out is the return value of add_child_proc that
\* KernelFork drops: the pcb of a child that was never listed is never freed.
NoPcbLeak ==
  \A c \in Proc \ ({Init_pcb} \union unlisted) :
    /\ state[c] # "FREE" /\ has_parent[c] =>
         parent[c] \in Live /\ c \in Range(children[parent[c]])
    /\ Exited(c) => has_parent[c]

\* "Wake up any processes blocked waiting for a child to exit": right after a
\* clock tick nobody is left waiting who forked a child that has exited, but
\* for the children that add_child_proc failed to list.
TickLeavesNoWaiter ==
  [][trap_clock_handler =>
       \A p \in Range(wait_queue'), c \in Proc \ unlisted :
         ~(state'[c] = "EXITED" /\ parent'[c] = p)]_vars

\* A process that is ready or asleep gets the processor again.
EveryoneRuns ==
  \A p \in Proc :
    p \in Range(main_queue) \union DOMAIN sleepers ~> (running = p \/ halted)

\* A process blocked in Wait that forked a child that has exited comes back
\* from Wait, provided add_child_proc listed that child.
WaiterReturns ==
  \A p, c \in Proc :
    (p \in Range(wait_queue) /\ Exited(c) /\ parent[c] = p /\ c \notin unlisted)
      ~> (running = p \/ halted)
=============================================================================
