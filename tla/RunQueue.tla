----------------------------- MODULE RunQueue ------------------------------
(***************************************************************************)
(* The running process and the FIFO main queue of scheduler.c, which every *)
(* blocking kernel service uses.                                           *)
(*                                                                         *)
(* The kernel takes no interrupts: a handler runs to its end, or to the    *)
(* context switch that blocks its caller, as one step.  A process's state  *)
(* field is left out: only EXITED is ever read, and the components that    *)
(* read it keep it themselves.                                             *)
(***************************************************************************)
EXTENDS Sequences, Integers, Functions

CONSTANTS Proc,  \* the user processes
          Idle   \* the idle process, never on a queue

ASSUME IdleAssumption == Idle \notin Proc

VARIABLES running,    \* running_proc
          main_queue  \* queues[MAIN_QUEUE]

\* The main queue after schedule_process(p).
schedule_process(q, p) == IF p = Idle THEN q ELSE Append(q, p)

\* get_next_process and the context switch to what it returns, when the main
\* queue is q.
SwitchToNext(q) ==
  \/ /\ q = <<>>
     /\ running' = Idle
     /\ main_queue' = q
  \/ /\ q # <<>>
     /\ running' = Head(q)
     /\ main_queue' = Tail(q)

\* Slip: only an idle processor looks at the queue.
Preempt_NoRotation(q) ==
  IF running = Idle THEN SwitchToNext(q) ELSE main_queue' = q /\ UNCHANGED running

\* The rescheduling half of trap_clock_handler, when the processes it woke
\* have made the main queue q.
Preempt(q) == SwitchToNext(schedule_process(q, running))

UserRuns == running \in Proc
=============================================================================
