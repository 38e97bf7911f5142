-------------------------- MODULE Synchronization --------------------------
(***************************************************************************)
(* Locks, semaphores and condition variables of synchronization.c, with    *)
(* the run queue their callers block on and return to.                     *)
(*                                                                         *)
(* A semaphore is a lock with a capacity; Acquire and SemDown, and Release *)
(* and SemUp, do the same to the table entry they name, so one action      *)
(* stands for both.  Processes may name any table index: a call with an    *)
(* index that is out of range or not in use returns ERROR and changes      *)
(* nothing, and is no step of the model.                                   *)
(*                                                                         *)
(* Proc holds the processes that init forked; init itself only waits.      *)
(***************************************************************************)
EXTENDS RunQueue, FiniteSets

CONSTANTS INITIAL_ARR_SIZE,  \* entries of both tables at boot
          MAX_ARR_SIZE,      \* bound: a larger table cannot be allocated
          Capacity,          \* capacities semaphores are created with
          None               \* no cvar

ASSUME SyncAssumption ==
  /\ INITIAL_ARR_SIZE \in Nat \ {0}
  /\ MAX_ARR_SIZE \in Nat
  /\ INITIAL_ARR_SIZE <= MAX_ARR_SIZE
  /\ Capacity \subseteq Nat \ {0}
  /\ None \notin Nat
  /\ IsFiniteSet(Proc)

VARIABLES locks,          \* contents of the lock table's entries
          lock_in_use, lock_arr_size, open_lock_idx,
          cvars,          \* queue of each condition variable
          cvar_in_use, cvar_arr_size, open_cvar_idx,
          cvar_lock_id,   \* the lock a process gave to its last CvarWait
          draining,       \* cvar whose broadcast loop is under way, or None
          exited          \* processes that have exited

lock_table == <<lock_in_use, lock_arr_size, open_lock_idx>>
cvar_table == <<cvar_in_use, cvar_arr_size, open_cvar_idx>>
sched == <<running, main_queue>>
vars == <<sched, locks, lock_table, cvars, cvar_table, cvar_lock_id, draining, exited>>

LockTable == INSTANCE ObjectTable WITH
  in_use <- lock_in_use, arr_size <- lock_arr_size, open_idx <- open_lock_idx
CvarTable == INSTANCE ObjectTable WITH
  in_use <- cvar_in_use, arr_size <- cvar_arr_size, open_idx <- open_cvar_idx

Id == 0..(MAX_ARR_SIZE - 1)

\* pids is the set of the holders: a slot of the C array is free exactly when
\* it holds no pid.
Lock == [capacity : Nat, val : Int, pids : SUBSET Proc,
         queue : Seq(Proc), needed_by : Int]

NewLock(cap) == [capacity |-> cap, val |-> cap, pids |-> {},
                 queue |-> <<>>, needed_by |-> 0]

init_sync ==
  /\ locks = [l \in Id |-> NewLock(0)]
  /\ cvars = [c \in Id |-> <<>>]
  /\ LockTable!TableInit
  /\ CvarTable!TableInit

Init ==
  /\ init_sync
  /\ running \in Proc
  /\ main_queue \in [1..(Cardinality(Proc) - 1) -> Proc]
  /\ Range(main_queue) = Proc \ {running}
  /\ cvar_lock_id = [p \in Proc |-> 0]
  /\ draining = None
  /\ exited = {}

\* A user process makes a kernel call.
Trap == UserRuns /\ draining = None
-----------------------------------------------------------------------------
(* Creation and reclamation *)

\* LockInit and SemInit, by capacity.
LockInit(cap) ==
  /\ Trap
  /\ \E l \in Id :
       /\ LockTable!New(l)
       /\ locks' = [locks EXCEPT ![l] = NewLock(cap)]
  /\ UNCHANGED <<sched, cvars, cvar_table, cvar_lock_id, draining, exited>>

LockInitFails ==
  /\ Trap
  /\ LockTable!NewFails
  /\ UNCHANGED <<sched, locks, cvars, cvar_table, cvar_lock_id, draining, exited>>

CvarInit ==
  /\ Trap
  /\ \E c \in Id :
       /\ CvarTable!New(c)
       /\ cvars' = [cvars EXCEPT ![c] = <<>>]
  /\ UNCHANGED <<sched, locks, lock_table, cvar_lock_id, draining, exited>>

\* Slip: a lock that is still needed is reclaimed.
delete_lock_Needed(l) ==
  /\ Trap
  /\ LockTable!Delete(l)
  /\ locks' = [locks EXCEPT ![l] = NewLock(0)]
  /\ UNCHANGED <<sched, cvars, cvar_table, cvar_lock_id, draining, exited>>

\* Reclaim of a lock or semaphore; its entry is cleared by the next new_lock.
delete_lock(l) ==
  /\ Trap
  /\ locks[l].needed_by <= 0
  /\ LockTable!Delete(l)
  /\ locks' = [locks EXCEPT ![l] = NewLock(0)]
  /\ UNCHANGED <<sched, cvars, cvar_table, cvar_lock_id, draining, exited>>

\* Reclaim of a condition variable.
delete_cvar(c) ==
  /\ Trap
  /\ cvars[c] = <<>>
  /\ CvarTable!Delete(c)
  /\ UNCHANGED <<sched, locks, lock_table, cvars, cvar_lock_id, draining, exited>>
-----------------------------------------------------------------------------
(* Acquiring and releasing *)

CanAcquire(l, p) == l \in lock_in_use /\ p \notin locks[l].pids

\* Slip: CvarWait and its wake-up count like Release and Acquire, but a
\* process asleep on the condition variable needs the lock as well.
Needed_NotByCvar(l, d, cvar_use) == locks[l].needed_by + d

\* needed_by counts a process from its Acquire to its Release: the release
\* and the acquisition inside CvarWait leave it alone.
Needed(l, d, cvar_use) == IF cvar_use THEN locks[l].needed_by ELSE locks[l].needed_by + d

\* Lock l after acquire(l, p): unchanged when it returns ERROR, a permit less
\* when it returns ACQUIRED, p on the lock's queue when it returns NEED.
Acquired(l, p, cvar_use) ==
  IF ~CanAcquire(l, p) THEN locks[l]
  ELSE IF locks[l].val > 0
       THEN [locks[l] EXCEPT !.val = @ - 1,
                             !.pids = @ \union {p},
                             !.needed_by = Needed(l, 1, cvar_use)]
       ELSE [locks[l] EXCEPT !.queue = Append(@, p),
                             !.needed_by = Needed(l, 1, cvar_use)]

\* Acquire and SemDown.
Acquire(l) ==
  /\ Trap
  /\ CanAcquire(l, running)
  /\ locks' = [locks EXCEPT ![l] = Acquired(l, running, FALSE)]
  /\ \/ locks[l].val > 0 /\ UNCHANGED sched
     \/ locks[l].val <= 0 /\ SwitchToNext(main_queue)
  /\ UNCHANGED <<lock_table, cvars, cvar_table, cvar_lock_id, draining, exited>>

CanRelease(l, p) == l \in lock_in_use /\ p \in locks[l].pids

\* Slip: the permit is given back although the next process takes it over.
Released_ExtraPermit(l, p, cvar_use) ==
  [locks[l] EXCEPT !.val = @ + 1,
                   !.pids = (@ \ {p}) \union
                     (IF locks[l].queue = <<>> THEN {} ELSE {Head(locks[l].queue)}),
                   !.queue = IF @ = <<>> THEN @ ELSE Tail(@),
                   !.needed_by = Needed(l, -1, cvar_use)]

\* Slip: the next process is woken to try again, but the code it returns to
\* does not try again.
Released_WakeOnly(l, p, cvar_use) ==
  [locks[l] EXCEPT !.val = @ + 1,
                   !.pids = @ \ {p},
                   !.queue = IF @ = <<>> THEN @ ELSE Tail(@),
                   !.needed_by = Needed(l, -1, cvar_use)]

\* Lock l after release(l, p): the head of the queue, if there is one, takes
\* over p's permit.
Released(l, p, cvar_use) ==
  IF locks[l].queue = <<>>
  THEN [locks[l] EXCEPT !.val = @ + 1,
                        !.pids = @ \ {p},
                        !.needed_by = Needed(l, -1, cvar_use)]
  ELSE [locks[l] EXCEPT !.pids = (@ \ {p}) \union {Head(locks[l].queue)},
                        !.queue = Tail(@),
                        !.needed_by = Needed(l, -1, cvar_use)]

\* The main queue after release(l, p).
Handed(l) ==
  IF locks[l].queue = <<>> THEN main_queue
  ELSE schedule_process(main_queue, Head(locks[l].queue))

\* Release and SemUp.
Release(l) ==
  /\ Trap
  /\ CanRelease(l, running)
  /\ locks' = [locks EXCEPT ![l] = Released(l, running, FALSE)]
  /\ main_queue' = Handed(l)
  /\ UNCHANGED <<running, lock_table, cvars, cvar_table, cvar_lock_id, draining, exited>>
-----------------------------------------------------------------------------
(* Condition variables *)

\* Slip: the newest waiter is put first.
CvarWait_Front(c, l) ==
  /\ Trap
  /\ c \in cvar_in_use
  /\ CanRelease(l, running)
  /\ locks' = [locks EXCEPT ![l] = Released(l, running, TRUE)]
  /\ cvar_lock_id' = [cvar_lock_id EXCEPT ![running] = l]
  /\ cvars' = [cvars EXCEPT ![c] = <<running>> \o @]
  /\ SwitchToNext(Handed(l))
  /\ UNCHANGED <<lock_table, cvar_table, draining, exited>>

CvarWait(c, l) ==
  /\ Trap
  /\ c \in cvar_in_use
  /\ CanRelease(l, running)
  /\ locks' = [locks EXCEPT ![l] = Released(l, running, TRUE)]
  /\ cvar_lock_id' = [cvar_lock_id EXCEPT ![running] = l]
  /\ cvars' = [cvars EXCEPT ![c] = Append(@, running)]
  /\ SwitchToNext(Handed(l))
  /\ UNCHANGED <<lock_table, cvar_table, draining, exited>>

\* Slip: the process is scheduled without its lock.
WakeOne_NoLock(c) ==
  /\ cvars[c] # <<>>
  /\ cvars' = [cvars EXCEPT ![c] = Tail(@)]
  /\ main_queue' = schedule_process(main_queue, Head(cvars[c]))
  /\ UNCHANGED <<running, locks, lock_table, cvar_table, cvar_lock_id, exited>>

\* The head of c's queue is taken off and tries to get its lock back.  It
\* is scheduled when acquire returns ACQUIRED, waits for the lock when it
\* returns NEED, and is on no queue at all when it returns ERROR.
WakeOne(c) ==
  LET p == Head(cvars[c])
      l == cvar_lock_id[p]
  IN  /\ cvars[c] # <<>>
      /\ cvars' = [cvars EXCEPT ![c] = Tail(@)]
      /\ locks' = [locks EXCEPT ![l] = Acquired(l, p, TRUE)]
      /\ main_queue' = IF CanAcquire(l, p) /\ locks[l].val > 0
                       THEN schedule_process(main_queue, p) ELSE main_queue
      /\ UNCHANGED <<running, lock_table, cvar_table, cvar_lock_id, exited>>

CvarSignal(c) ==
  /\ Trap
  /\ c \in cvar_in_use
  /\ WakeOne(c)
  /\ UNCHANGED draining

\* Broadcast runs WakeOne until the queue is empty, with no other step in
\* between: the first round here, the others in BroadcastStep.
CvarBroadcast(c) ==
  /\ Trap
  /\ c \in cvar_in_use
  /\ WakeOne(c)
  /\ draining' = IF Len(cvars[c]) = 1 THEN None ELSE c

BroadcastStep(c) ==
  /\ draining = c
  /\ WakeOne(c)
  /\ draining' = IF Len(cvars[c]) = 1 THEN None ELSE c
-----------------------------------------------------------------------------
(* The rest of the kernel *)

\* The running process exits; what it holds stays held.
KernelExit ==
  /\ Trap
  /\ exited' = exited \union {running}
  /\ SwitchToNext(main_queue)
  /\ UNCHANGED <<locks, lock_table, cvars, cvar_table, cvar_lock_id, draining>>

trap_clock_handler ==
  /\ draining = None
  /\ Preempt(main_queue)
  /\ UNCHANGED <<locks, lock_table, cvars, cvar_table, cvar_lock_id, draining, exited>>

Next ==
  \/ \E cap \in {1} \union Capacity : LockInit(cap)
  \/ LockInitFails
  \/ CvarInit
  \/ \E l \in Id : delete_lock(l) \/ Acquire(l) \/ Release(l)
  \/ \E c \in Id : delete_cvar(c) \/ CvarSignal(c) \/ CvarBroadcast(c) \/ BroadcastStep(c)
  \/ \E c, l \in Id : CvarWait(c, l)
  \/ KernelExit
  \/ trap_clock_handler

Spec == Init /\ [][Next]_vars
-----------------------------------------------------------------------------
\* Every variable has its type, and both tables satisfy their own invariant.
TypeOK ==
  /\ running \in Proc \union {Idle}
  /\ main_queue \in Seq(Proc)
  /\ locks \in [Id -> Lock]
  /\ cvars \in [Id -> Seq(Proc)]
  /\ cvar_lock_id \in [Proc -> Id]
  /\ draining \in Id \union {None}
  /\ exited \subseteq Proc
  /\ LockTable!TableTypeOK
  /\ CvarTable!TableTypeOK

\* Permits are neither lost nor made: val and the holders always add up to
\* the capacity, through every hand-over from a releaser to a waiter, and
\* nobody queues for a lock that has a permit left.
PermitAccounting ==
  \A l \in lock_in_use :
    /\ locks[l].val >= 0
    /\ locks[l].val + Cardinality(locks[l].pids) = locks[l].capacity
    /\ locks[l].queue # <<>> => locks[l].val = 0

\* The processes asleep on a condition variable that will need lock l.
CvarWaiters(l) ==
  {p \in Proc : cvar_lock_id[p] = l /\ \E c \in Id : p \in Range(cvars[c])}

\* needed_by counts exactly the holders, the queue and the processes asleep
\* on a condition variable that will need the lock: delete_lock refuses
\* while there is one, and does not refuse for ever once there is none.
NeededByExact ==
  \A l \in lock_in_use :
    locks[l].needed_by =
      Cardinality(locks[l].pids) + Len(locks[l].queue) + Cardinality(CvarWaiters(l))

\* The places a process can be in, and who is there.
Place == {<<"running", 0>>, <<"main", 0>>, <<"exited", 0>>}
           \union ({"lock", "cvar"} \X Id)
At(k) ==
  CASE k[1] = "running" -> {running}
    [] k[1] = "main"    -> Range(main_queue)
    [] k[1] = "exited"  -> exited
    [] k[1] = "lock"    -> Range(locks[k[2]].queue)
    [] k[1] = "cvar"    -> Range(cvars[k[2]])

\* A process is on one queue, once, or running, or has exited: queues are
\* threaded through the one next field of the pcb, so a pcb on two of them
\* would corrupt both, and one on none would never run again.  In particular
\* no signal loses the process it takes off the condition variable.
PlacedOnce ==
  /\ \A p \in Proc : Cardinality({k \in Place : p \in At(k)}) = 1
  /\ IsInjective(main_queue)
  /\ \A i \in Id : IsInjective(locks[i].queue) /\ IsInjective(cvars[i])

\* Acquire and CvarWait return only with the lock: a process leaves a lock's
\* queue as a holder, and leaves a condition variable's queue as a holder of
\* the lock it gave to CvarWait or for that lock's queue.
WakesWithLock ==
  [][\A p \in Proc, i \in Id :
       /\ (p \in Range(locks[i].queue) /\ p \notin Range(locks'[i].queue))
            => p \in locks'[i].pids /\ p \in Range(main_queue') \union {running'}
       /\ (p \in Range(cvars[i]) /\ p \notin Range(cvars'[i]))
            => LET l == cvar_lock_id[p]
               IN  \/ p \in locks'[l].pids /\ p \in Range(main_queue')
                  \/ p \in Range(locks'[l].queue)]_vars

\* Nobody overtakes: while processes queue for a lock, only the first of
\* them can become a holder, also when the lock passes through CvarWait.
NoBarging ==
  [][\A l \in lock_in_use :
       locks[l].queue # <<>> =>
         locks'[l].pids \ locks[l].pids \subseteq {Head(locks[l].queue)}]_vars
=============================================================================
