----------------------- MODULE SynchronizationProofs -----------------------
(***************************************************************************)
(* Proofs about locks, semaphores and condition variables, for any number  *)
(* of processes, any capacities and any table sizes.                       *)
(*                                                                         *)
(* Why permits need the placement of processes: release hands its permit   *)
(* to the head of the queue, which leaves the number of holders as it was  *)
(* only if the head is not a holder already.  It could be one if it were   *)
(* on the queue twice, and that can only be excluded for all queues of the *)
(* kernel together, as processes move from one to another.                 *)
(*                                                                         *)
(* Why placement in turn needs needed_by: a signal loses the process it    *)
(* takes off the condition variable when acquire refuses it, which is so   *)
(* when the lock it needs has been reclaimed.  delete_lock refuses as long *)
(* as needed_by counts a sleeper, so the count has to be exact first.      *)
(*                                                                         *)
(* The last part is about the clients of SyncClient; the rest does not use *)
(* what that module adds to Synchronization.                               *)
(***************************************************************************)
EXTENDS SyncClient, FiniteSetTheorems, TLAPS

-----------------------------------------------------------------------------
(* Types *)

SchedTypeOK == running \in Proc \union {Idle} /\ main_queue \in Seq(Proc)

\* Taking the next process off a queue of processes keeps the types.
LEMMA SwitchType ==
  ASSUME NEW q \in Seq(Proc), SwitchToNext(q)
  PROVE  SchedTypeOK'
BY DEF SwitchToNext, SchedTypeOK

\* schedule_process turns a queue of processes into one.
LEMMA ScheduleType ==
  ASSUME NEW q \in Seq(Proc), NEW p \in Proc \union {Idle}
  PROVE  schedule_process(q, p) \in Seq(Proc)
BY DEF schedule_process

\* The two kinds of change that acquire and release make keep a lock a lock.
LEMMA LockFields ==
  ASSUME NEW r \in Lock, NEW v \in Int, NEW s \in SUBSET Proc,
         NEW q \in Seq(Proc), NEW n \in Int
  PROVE  /\ [r EXCEPT !.val = v, !.pids = s, !.needed_by = n] \in Lock
         /\ [r EXCEPT !.queue = q, !.needed_by = n] \in Lock
         /\ [r EXCEPT !.pids = s, !.queue = q, !.needed_by = n] \in Lock
BY DEF Lock

\* acquire turns a lock into a lock.
LEMMA AcquiredType ==
  ASSUME locks \in [Id -> Lock], NEW l \in Id, NEW p \in Proc, NEW cvar_use \in BOOLEAN
  PROVE  Acquired(l, p, cvar_use) \in Lock
<1>1. locks[l] \in Lock
  OBVIOUS
<1>2. Needed(l, 1, cvar_use) \in Int
  BY <1>1 DEF Needed, Lock
<1>3. Append(locks[l].queue, p) \in Seq(Proc)
  BY <1>1 DEF Lock
<1>4. CASE CanAcquire(l, p) /\ locks[l].val > 0
  <2>1. locks[l].val - 1 \in Int /\ locks[l].pids \union {p} \in SUBSET Proc
    BY <1>1 DEF Lock
  <2>2. [locks[l] EXCEPT !.val = locks[l].val - 1,
                         !.pids = locks[l].pids \union {p},
                         !.needed_by = Needed(l, 1, cvar_use)] \in Lock
    BY <1>1, <1>2, <2>1 DEF Lock
  <2> QED BY <1>4, <2>2 DEF Acquired
<1>5. CASE CanAcquire(l, p) /\ ~(locks[l].val > 0)
  <2>1. [locks[l] EXCEPT !.queue = Append(locks[l].queue, p),
                         !.needed_by = Needed(l, 1, cvar_use)] \in Lock
    BY <1>1, <1>2, <1>3, LockFields, Zenon
  <2> QED BY <1>5, <2>1 DEF Acquired
<1>6. CASE ~CanAcquire(l, p)
  BY <1>1, <1>6 DEF Acquired
<1> QED BY <1>4, <1>5, <1>6

\* release turns a lock into a lock.
LEMMA ReleasedType ==
  ASSUME locks \in [Id -> Lock], NEW l \in Id, NEW p \in Proc, NEW cvar_use \in BOOLEAN
  PROVE  Released(l, p, cvar_use) \in Lock
<1>1. locks[l] \in Lock
  OBVIOUS
<1>2. Needed(l, -1, cvar_use) \in Int
  BY <1>1 DEF Needed, Lock
<1>3. CASE locks[l].queue = <<>>
  <2>1. locks[l].val + 1 \in Int /\ locks[l].pids \ {p} \in SUBSET Proc
    BY <1>1 DEF Lock
  <2>2. [locks[l] EXCEPT !.val = locks[l].val + 1,
                         !.pids = locks[l].pids \ {p},
                         !.needed_by = Needed(l, -1, cvar_use)] \in Lock
    BY <1>1, <1>2, <2>1 DEF Lock
  <2> QED BY <1>3, <2>2 DEF Released
<1>4. CASE locks[l].queue # <<>>
  <2>1. Head(locks[l].queue) \in Proc /\ Tail(locks[l].queue) \in Seq(Proc)
    BY <1>1, <1>4 DEF Lock
  <2>2. (locks[l].pids \ {p}) \union {Head(locks[l].queue)} \in SUBSET Proc
    BY <1>1, <2>1 DEF Lock
  <2>3. [locks[l] EXCEPT !.pids = (locks[l].pids \ {p}) \union {Head(locks[l].queue)},
                         !.queue = Tail(locks[l].queue),
                         !.needed_by = Needed(l, -1, cvar_use)] \in Lock
    BY <1>1, <1>2, <2>1, <2>2, LockFields, Zenon
  <2> QED BY <1>4, <2>3 DEF Released
<1> QED BY <1>3, <1>4

\* What release leaves on the main queue is a queue of processes.
LEMMA HandedType ==
  ASSUME locks \in [Id -> Lock], NEW l \in Id, main_queue \in Seq(Proc)
  PROVE  Handed(l) \in Seq(Proc)
BY DEF Handed, Lock, schedule_process

\* A new lock is a lock.
LEMMA NewLockType ==
  ASSUME NEW cap \in Nat
  PROVE  NewLock(cap) \in Lock
BY DEF NewLock, Lock

\* One round of signal or broadcast keeps the types.
LEMMA WakeOneType ==
  ASSUME TypeOK, NEW c \in Id, WakeOne(c)
  PROVE  /\ main_queue' \in Seq(Proc)
         /\ locks' \in [Id -> Lock]
         /\ cvars' \in [Id -> Seq(Proc)]
<1> DEFINE p == Head(cvars[c])
           l == cvar_lock_id[p]
<1>1. p \in Proc /\ Tail(cvars[c]) \in Seq(Proc) /\ l \in Id
  BY DEF WakeOne, TypeOK
<1>2. cvars' \in [Id -> Seq(Proc)]
  BY <1>1 DEF WakeOne, TypeOK
<1>3. Acquired(l, p, TRUE) \in Lock
  BY <1>1, AcquiredType DEF TypeOK
<1>4. locks' \in [Id -> Lock]
  BY <1>1, <1>3 DEF WakeOne, TypeOK
<1>5. main_queue' \in Seq(Proc)
  BY <1>1, ScheduleType DEF WakeOne, TypeOK
<1> QED BY <1>2, <1>4, <1>5

\* The table operations keep the tables' types.
LEMMA LockTableType ==
  ASSUME LockTable!TableTypeOK,
         \/ \E i \in Id : LockTable!New(i) \/ LockTable!Delete(i)
         \/ LockTable!NewFails
         \/ UNCHANGED lock_table
  PROVE  LockTable!TableTypeOK'
<1> USE SyncAssumption DEF LockTable!TableTypeOK, LockTable!Entry, Id
<1>1. ASSUME NEW i \in Id, LockTable!New(i)
      PROVE  LockTable!TableTypeOK'
  BY <1>1 DEF LockTable!New, LockTable!AfterGrowth, LockTable!GrownSize, LockTable!Full
<1>2. ASSUME NEW i \in Id, LockTable!DeleteInPlace(i)
      PROVE  LockTable!TableTypeOK'
  BY <1>2 DEF LockTable!DeleteInPlace
<1>3. ASSUME NEW i \in Id, LockTable!DeleteAndShrink(i)
      PROVE  LockTable!TableTypeOK'
  BY <1>3 DEF LockTable!DeleteAndShrink
<1>4. CASE LockTable!NewFails
  BY <1>4 DEF LockTable!NewFails, LockTable!AfterGrowth, LockTable!GrownSize, LockTable!Full
<1>5. CASE UNCHANGED lock_table
  BY <1>5 DEF lock_table
<1> QED BY <1>1, <1>2, <1>3, <1>4, <1>5 DEF LockTable!Delete

\* The same for the table of condition variables.
LEMMA CvarTableType ==
  ASSUME CvarTable!TableTypeOK,
         \/ \E i \in Id : CvarTable!New(i) \/ CvarTable!Delete(i)
         \/ UNCHANGED cvar_table
  PROVE  CvarTable!TableTypeOK'
<1> USE SyncAssumption DEF CvarTable!TableTypeOK, CvarTable!Entry, Id
<1>1. ASSUME NEW i \in Id, CvarTable!New(i)
      PROVE  CvarTable!TableTypeOK'
  BY <1>1 DEF CvarTable!New, CvarTable!AfterGrowth, CvarTable!GrownSize, CvarTable!Full
<1>2. ASSUME NEW i \in Id, CvarTable!DeleteInPlace(i)
      PROVE  CvarTable!TableTypeOK'
  BY <1>2 DEF CvarTable!DeleteInPlace
<1>3. ASSUME NEW i \in Id, CvarTable!DeleteAndShrink(i)
      PROVE  CvarTable!TableTypeOK'
  BY <1>3 DEF CvarTable!DeleteAndShrink
<1>4. CASE UNCHANGED cvar_table
  BY <1>4 DEF cvar_table
<1> QED BY <1>1, <1>2, <1>3, <1>4 DEF CvarTable!Delete

\* The variables of the caller's side, which few actions change.
RestTypeOK ==
  /\ cvar_lock_id \in [Proc -> Id]
  /\ draining \in Id \union {None}
  /\ exited \subseteq Proc

\* The first main queue is a queue.
LEMMA StartQueue ==
  ASSUME running \in Proc, main_queue \in [1..(Cardinality(Proc) - 1) -> Proc]
  PROVE  main_queue \in Seq(Proc)
<1>1. Cardinality(Proc) \in Nat
  BY SyncAssumption, FS_CardinalityType
<1>2. Cardinality(Proc) - 1 \in Nat
  BY <1>1, SyncAssumption, FS_EmptySet
<1> QED BY <1>2

\* init_sync and the first processes have their types.
LEMMA InitType == Init => TypeOK
<1> SUFFICES ASSUME Init PROVE TypeOK
  OBVIOUS
<1> USE SyncAssumption
<1>1. 0 \in Id /\ NewLock(0) \in Lock
  BY NewLockType DEF Id
<1>2. locks \in [Id -> Lock] /\ cvars \in [Id -> Seq(Proc)]
  BY <1>1 DEF Init, init_sync
<1>3. LockTable!TableTypeOK /\ CvarTable!TableTypeOK
  BY DEF Init, init_sync, LockTable!TableInit, LockTable!TableTypeOK, LockTable!Entry,
         CvarTable!TableInit, CvarTable!TableTypeOK, CvarTable!Entry
<1>4. main_queue \in Seq(Proc)
  BY StartQueue DEF Init
<1>5. RestTypeOK
  BY <1>1 DEF Init, RestTypeOK
<1> QED BY <1>2, <1>3, <1>4, <1>5 DEF Init, TypeOK, RestTypeOK

\* Every step keeps the types.
LEMMA NextType == TypeOK /\ [Next]_vars => TypeOK'
<1> SUFFICES ASSUME TypeOK, [Next]_vars PROVE TypeOK'
  OBVIOUS
<1> USE SyncAssumption
<1>0. /\ SchedTypeOK /\ RestTypeOK
      /\ locks \in [Id -> Lock] /\ cvars \in [Id -> Seq(Proc)]
      /\ LockTable!TableTypeOK /\ CvarTable!TableTypeOK
  BY DEF TypeOK, SchedTypeOK, RestTypeOK
<1>a. ASSUME SchedTypeOK', RestTypeOK', locks' \in [Id -> Lock],
             cvars' \in [Id -> Seq(Proc)], LockTable!TableTypeOK', CvarTable!TableTypeOK'
      PROVE  TypeOK'
  BY <1>a DEF TypeOK, SchedTypeOK, RestTypeOK
<1>b. UNCHANGED sched => SchedTypeOK'
  BY <1>0 DEF sched, SchedTypeOK
<1>c. UNCHANGED <<cvar_lock_id, draining, exited>> => RestTypeOK'
  BY <1>0 DEF RestTypeOK
<1>d. UNCHANGED lock_table => LockTable!TableTypeOK'
  BY <1>0, LockTableType
<1>e. UNCHANGED cvar_table => CvarTable!TableTypeOK'
  BY <1>0, CvarTableType
<1>1. ASSUME NEW cap \in {1} \union Capacity, LockInit(cap) PROVE TypeOK'
  <2>1. PICK l \in Id : LockTable!New(l) /\ locks' = [locks EXCEPT ![l] = NewLock(cap)]
    BY <1>1 DEF LockInit
  <2>2. LockTable!TableTypeOK'
    BY <1>0, <2>1, LockTableType
  <2>3. locks' \in [Id -> Lock]
    BY <1>0, <2>1, NewLockType
  <2> QED BY <1>0, <1>1, <1>a, <1>b, <1>c, <1>e, <2>2, <2>3 DEF LockInit
<1>2. CASE LockInitFails
  <2>1. LockTable!TableTypeOK'
    BY <1>0, <1>2, LockTableType DEF LockInitFails
  <2> QED BY <1>0, <1>2, <1>a, <1>b, <1>c, <1>e, <2>1 DEF LockInitFails
<1>3. CASE CvarInit
  <2>1. PICK c \in Id : CvarTable!New(c) /\ cvars' = [cvars EXCEPT ![c] = <<>>]
    BY <1>3 DEF CvarInit
  <2>2. CvarTable!TableTypeOK'
    BY <1>0, <2>1, CvarTableType
  <2>3. cvars' \in [Id -> Seq(Proc)]
    BY <1>0, <2>1
  <2> QED BY <1>0, <1>3, <1>a, <1>b, <1>c, <1>d, <2>2, <2>3 DEF CvarInit
<1>4. ASSUME NEW l \in Id, delete_lock(l) PROVE TypeOK'
  <2>1. LockTable!TableTypeOK'
    BY <1>0, <1>4, LockTableType DEF delete_lock
  <2>2. locks' \in [Id -> Lock]
    BY <1>0, <1>4, NewLockType DEF delete_lock
  <2> QED BY <1>0, <1>4, <1>a, <1>b, <1>c, <1>e, <2>1, <2>2 DEF delete_lock
<1>5. ASSUME NEW c \in Id, delete_cvar(c) PROVE TypeOK'
  <2>1. CvarTable!TableTypeOK'
    BY <1>0, <1>5, CvarTableType DEF delete_cvar
  <2> QED BY <1>0, <1>5, <1>a, <1>b, <1>c, <1>d, <2>1 DEF delete_cvar
<1>6. ASSUME NEW l \in Id, Acquire(l) PROVE TypeOK'
  <2>1. SchedTypeOK'
    BY <1>0, <1>6, <1>b, SwitchType DEF Acquire, SchedTypeOK
  <2>2. locks' \in [Id -> Lock]
    BY <1>0, <1>6, AcquiredType DEF Acquire, Trap, UserRuns
  <2> QED BY <1>0, <1>6, <1>a, <1>c, <1>d, <1>e, <2>1, <2>2 DEF Acquire
<1>7. ASSUME NEW l \in Id, Release(l) PROVE TypeOK'
  <2>1. SchedTypeOK'
    BY <1>0, <1>7, HandedType DEF Release, SchedTypeOK
  <2>2. locks' \in [Id -> Lock]
    BY <1>0, <1>7, ReleasedType DEF Release, Trap, UserRuns
  <2> QED BY <1>0, <1>7, <1>a, <1>c, <1>d, <1>e, <2>1, <2>2 DEF Release
<1>8. ASSUME NEW c \in Id, NEW l \in Id, CvarWait(c, l) PROVE TypeOK'
  <2>1. SchedTypeOK'
    BY <1>0, <1>8, HandedType, SwitchType DEF CvarWait, SchedTypeOK
  <2>2. locks' \in [Id -> Lock]
    BY <1>0, <1>8, ReleasedType DEF CvarWait, Trap, UserRuns
  <2>3. cvars' \in [Id -> Seq(Proc)]
    BY <1>0, <1>8 DEF CvarWait, Trap, UserRuns
  <2>4. RestTypeOK'
    BY <1>0, <1>8 DEF CvarWait, Trap, UserRuns, RestTypeOK
  <2> QED BY <1>0, <1>8, <1>a, <1>d, <1>e, <2>1, <2>2, <2>3, <2>4 DEF CvarWait
<1>9. ASSUME NEW c \in Id, WakeOne(c), draining' \in Id \union {None} PROVE TypeOK'
  <2>1. /\ main_queue' \in Seq(Proc)
        /\ locks' \in [Id -> Lock]
        /\ cvars' \in [Id -> Seq(Proc)]
    BY <1>9, WakeOneType
  <2>2. SchedTypeOK'
    BY <1>0, <1>9, <2>1 DEF WakeOne, SchedTypeOK
  <2>3. RestTypeOK'
    BY <1>0, <1>9 DEF WakeOne, RestTypeOK
  <2> QED BY <1>9, <1>a, <1>d, <1>e, <2>1, <2>2, <2>3 DEF WakeOne
<1>10. ASSUME NEW c \in Id, CvarSignal(c) \/ CvarBroadcast(c) \/ BroadcastStep(c)
       PROVE  TypeOK'
  <2>1. WakeOne(c) /\ draining' \in Id \union {None}
    BY <1>0, <1>10 DEF CvarSignal, CvarBroadcast, BroadcastStep, RestTypeOK
  <2> QED BY <1>9, <2>1
<1>11. CASE KernelExit
  <2>1. SchedTypeOK'
    BY <1>0, <1>11, SwitchType DEF KernelExit, SchedTypeOK
  <2>2. RestTypeOK'
    BY <1>0, <1>11 DEF KernelExit, Trap, UserRuns, RestTypeOK
  <2> QED BY <1>0, <1>11, <1>a, <1>d, <1>e, <2>1, <2>2 DEF KernelExit
<1>12. CASE trap_clock_handler
  <2>1. SchedTypeOK'
    BY <1>0, <1>12, ScheduleType, SwitchType DEF trap_clock_handler, Preempt, SchedTypeOK
  <2> QED BY <1>0, <1>12, <1>a, <1>c, <1>d, <1>e, <2>1 DEF trap_clock_handler
<1>13. CASE UNCHANGED vars
  BY <1>0, <1>13, <1>a, <1>b, <1>c, <1>d, <1>e DEF vars
<1> QED
  BY <1>1, <1>2, <1>3, <1>4, <1>5, <1>6, <1>7, <1>8, <1>10, <1>11, <1>12, <1>13 DEF Next

\* Every variable of synchronization.c keeps its type, for any number of
\* processes and any table sizes.
THEOREM SyncTypeCorrect == Spec => []TypeOK
BY InitType, NextType, PTL DEF Spec
-----------------------------------------------------------------------------
(* Sequences without repetition *)

\* The members of a queue to which a process was added.
LEMMA AppendFacts ==
  ASSUME NEW S, NEW s \in Seq(S), NEW x \in S
  PROVE  /\ Append(s, x) \in Seq(S)
         /\ Range(Append(s, x)) = Range(s) \union {x}
         /\ IsInjective(s) /\ x \notin Range(s) => IsInjective(Append(s, x))
<1>1. /\ DOMAIN Append(s, x) = 1..(Len(s) + 1)
      /\ \A i \in 1..Len(s) : Append(s, x)[i] = s[i]
      /\ Append(s, x)[Len(s) + 1] = x
      /\ DOMAIN s = 1..Len(s) /\ Len(s) \in Nat
  OBVIOUS
<1>2. Range(Append(s, x)) = Range(s) \union {x}
  <2>1. ASSUME NEW y \in Range(s) PROVE y \in Range(Append(s, x))
    BY <1>1, <2>1 DEF Range
  <2>2. x \in Range(Append(s, x))
    BY <1>1 DEF Range
  <2>3. ASSUME NEW y \in Range(Append(s, x)) PROVE y \in Range(s) \union {x}
    <3>1. PICK i \in 1..(Len(s) + 1) : y = Append(s, x)[i]
      BY <1>1, <2>3 DEF Range
    <3>2. CASE i = Len(s) + 1
      BY <1>1, <3>1, <3>2
    <3>3. CASE i \in 1..Len(s)
      BY <1>1, <3>1, <3>3 DEF Range
    <3> QED BY <1>1, <3>2, <3>3
  <2> QED BY <2>1, <2>2, <2>3
<1>3. ASSUME IsInjective(s), x \notin Range(s) PROVE IsInjective(Append(s, x))
  <2> SUFFICES ASSUME NEW a \in 1..(Len(s) + 1), NEW b \in 1..(Len(s) + 1),
                      Append(s, x)[a] = Append(s, x)[b]
               PROVE  a = b
    BY <1>1 DEF IsInjective
  <2>1. \A i \in 1..Len(s) : s[i] # x
    BY <1>1, <1>3 DEF Range
  <2> QED BY <1>1, <1>3, <2>1 DEF IsInjective
<1> QED BY <1>2, <1>3

\* The members of a queue from which get_next_process took the first.
LEMMA TailFacts ==
  ASSUME NEW S, NEW s \in Seq(S), s # <<>>
  PROVE  /\ Head(s) \in S /\ Tail(s) \in Seq(S)
         /\ Head(s) \in Range(s)
         /\ Range(Tail(s)) \subseteq Range(s)
         /\ Range(s) \subseteq Range(Tail(s)) \union {Head(s)}
         /\ IsInjective(s) => IsInjective(Tail(s)) /\ Head(s) \notin Range(Tail(s))
<1>1. /\ Len(s) \in Nat \ {0} /\ DOMAIN s = 1..Len(s)
      /\ Head(s) = s[1]
      /\ DOMAIN Tail(s) = 1..(Len(s) - 1)
      /\ \A i \in 1..(Len(s) - 1) : Tail(s)[i] = s[i + 1]
  OBVIOUS
<1>2. Head(s) \in S /\ Tail(s) \in Seq(S)
  OBVIOUS
<1>3. Head(s) \in Range(s)
  BY <1>1 DEF Range
<1>4. Range(Tail(s)) \subseteq Range(s)
  BY <1>1 DEF Range
<1>5. ASSUME IsInjective(s) PROVE IsInjective(Tail(s)) /\ Head(s) \notin Range(Tail(s))
  <2>1. IsInjective(Tail(s))
    BY <1>1, <1>5 DEF IsInjective
  <2>2. \A i \in 1..(Len(s) - 1) : Tail(s)[i] # s[1]
    BY <1>1, <1>5 DEF IsInjective
  <2>3. Head(s) \notin Range(Tail(s))
    BY <1>1, <2>2 DEF Range
  <2> QED BY <2>1, <2>3
<1>6. ASSUME NEW x \in Range(s) PROVE x \in Range(Tail(s)) \union {Head(s)}
  <2>1. PICK i \in 1..Len(s) : x = s[i]
    BY <1>1, <1>6 DEF Range
  <2>2. CASE i = 1
    BY <1>1, <2>1, <2>2
  <2>3. CASE i # 1
    <3>1. i - 1 \in 1..(Len(s) - 1) /\ Tail(s)[i - 1] = x
      BY <1>1, <2>1, <2>3
    <3> QED BY <1>1, <3>1 DEF Range
  <2> QED BY <2>2, <2>3
<1> QED BY <1>2, <1>3, <1>4, <1>5, <1>6
-----------------------------------------------------------------------------
(* Separate queues *)

\* The queues a pcb can be linked into, as one family.
QueueName == {<<"main", 0>>} \union ({"lock", "cvar"} \X Id)
Queues ==
  [k \in QueueName |-> IF k[1] = "main" THEN main_queue
                       ELSE IF k[1] = "lock" THEN locks[k[2]].queue ELSE cvars[k[2]]]

\* No queue of the family has a process twice, no two queues share one, and
\* process r is in none.
Separate(r, Q) ==
  /\ \A k \in QueueName : IsInjective(Q[k]) /\ r \notin Range(Q[k])
  /\ \A k, j \in QueueName : k # j => Range(Q[k]) \intersect Range(Q[j]) = {}

Family == [QueueName -> Seq(Proc)]

\* The idle process, or any other that is no user process, is on no queue.
LEMMA LeaveProcessor ==
  ASSUME NEW Q \in Family, NEW r, Separate(r, Q)
  PROVE  Separate(Idle, Q)
<1>1. ASSUME NEW k \in QueueName PROVE Idle \notin Range(Q[k])
  BY IdleAssumption DEF Range, Family
<1> QED BY <1>1 DEF Separate

\* A queue loses its first process: nobody has it then.
LEMMA Take ==
  ASSUME NEW Q \in Family, NEW r, Separate(r, Q),
         NEW k \in QueueName, Q[k] # <<>>
  PROVE  LET R == [Q EXCEPT ![k] = Tail(@)]
         IN  /\ R \in Family
             /\ Head(Q[k]) \in Proc /\ Head(Q[k]) # r
             /\ Separate(r, R) /\ Separate(Head(Q[k]), R)
<1> DEFINE R == [Q EXCEPT ![k] = Tail(@)]
           h == Head(Q[k])
<1>1. Q[k] \in Seq(Proc)
  BY DEF Family
<1>2. /\ R[k] \in Seq(Proc) /\ IsInjective(R[k]) /\ h \notin Range(R[k])
      /\ h \in Range(Q[k]) /\ h \in Proc /\ Range(R[k]) \subseteq Range(Q[k])
      /\ \A j \in QueueName : j # k => R[j] = Q[j]
  BY <1>1, TailFacts DEF Family, Separate
<1>3. R \in Family
  BY <1>2 DEF Family
<1>4. Separate(r, Q)
  OBVIOUS
<1> HIDE DEF R, h
<1>5. h # r
  BY <1>2, <1>4 DEF Separate
<1>6. ASSUME NEW i \in QueueName
      PROVE  IsInjective(R[i]) /\ r \notin Range(R[i]) /\ h \notin Range(R[i])
  BY <1>2, <1>4 DEF Separate
<1>7. ASSUME NEW i \in QueueName, NEW j \in QueueName, i # j
      PROVE  Range(R[i]) \intersect Range(R[j]) = {}
  BY <1>2, <1>4, <1>7 DEF Separate
<1>8. Separate(r, R) /\ Separate(h, R)
  BY <1>6, <1>7 DEF Separate
<1> QED BY <1>2, <1>3, <1>5, <1>8 DEF R, h

\* A process that is on no queue joins one, while another runs.
LEMMA Put ==
  ASSUME NEW Q \in Family, NEW r, NEW h \in Proc, r # h,
         Separate(r, Q), Separate(h, Q), NEW k \in QueueName
  PROVE  LET R == [Q EXCEPT ![k] = Append(@, h)]
         IN  R \in Family /\ Separate(r, R)
<1> DEFINE R == [Q EXCEPT ![k] = Append(@, h)]
<1>1. Q[k] \in Seq(Proc)
  BY DEF Family
<1>2. /\ R[k] \in Seq(Proc) /\ IsInjective(R[k]) /\ Range(R[k]) = Range(Q[k]) \union {h}
      /\ \A j \in QueueName : j # k => R[j] = Q[j]
  BY <1>1, AppendFacts DEF Family, Separate
<1>3. R \in Family
  BY <1>2 DEF Family
<1>4. Separate(r, Q) /\ Separate(h, Q)
  OBVIOUS
<1> HIDE DEF R
<1>5. ASSUME NEW i \in QueueName PROVE IsInjective(R[i]) /\ r \notin Range(R[i])
  BY <1>2, <1>4 DEF Separate
<1>6. ASSUME NEW i \in QueueName, NEW j \in QueueName, i # j
      PROVE  Range(R[i]) \intersect Range(R[j]) = {}
  BY <1>2, <1>4, <1>6 DEF Separate
<1> QED BY <1>3, <1>5, <1>6 DEF Separate, R

\* A queue is emptied.
LEMMA Clear ==
  ASSUME NEW Q \in Family, NEW r, Separate(r, Q), NEW k \in QueueName
  PROVE  LET R == [Q EXCEPT ![k] = <<>>]
         IN  R \in Family /\ Separate(r, R)
<1> DEFINE R == [Q EXCEPT ![k] = <<>>]
<1>1. /\ R[k] = <<>>
      /\ \A j \in QueueName : j # k => R[j] = Q[j]
      /\ R \in Family
  BY DEF Family
<1>2. IsInjective(R[k]) /\ Range(R[k]) = {}
  BY <1>1 DEF IsInjective, Range
<1>3. Separate(r, Q)
  OBVIOUS
<1> HIDE DEF R
<1>4. Separate(r, R)
  BY <1>1, <1>2, <1>3 DEF Separate
<1> QED BY <1>1, <1>4 DEF R

main == <<"main", 0>>
lockq(l) == <<"lock", l>>
cvarq(c) == <<"cvar", c>>

\* A processor that nobody uses takes the next process off the main queue.
LEMMA Dispatch ==
  ASSUME NEW Q \in Family, Separate(Idle, Q), SwitchToNext(Q[main])
  PROVE  /\ [Q EXCEPT ![main] = main_queue'] \in Family
         /\ Separate(running', [Q EXCEPT ![main] = main_queue'])
<1>1. main \in QueueName
  BY DEF main, QueueName
<1>2. CASE Q[main] = <<>>
  <2>1. running' = Idle /\ main_queue' = Q[main]
    BY <1>2 DEF SwitchToNext
  <2>2. [Q EXCEPT ![main] = main_queue'] = Q
    BY <1>1, <2>1 DEF Family
  <2> QED BY <2>1, <2>2
<1>3. CASE Q[main] # <<>>
  <2>1. running' = Head(Q[main]) /\ main_queue' = Tail(Q[main])
    BY <1>3 DEF SwitchToNext
  <2> QED BY <1>1, <1>3, <2>1, Take
<1> QED BY <1>2, <1>3

\* The family made of the queues of a state.
LEMMA QueuesOfState ==
  ASSUME TypeOK
  PROVE  /\ Queues \in Family
         /\ main \in QueueName /\ Queues[main] = main_queue
         /\ \A l \in Id : lockq(l) \in QueueName /\ Queues[lockq(l)] = locks[l].queue
         /\ \A c \in Id : cvarq(c) \in QueueName /\ Queues[cvarq(c)] = cvars[c]
<1>1. /\ main \in QueueName /\ Queues[main] = main_queue
      /\ \A l \in Id : lockq(l) \in QueueName /\ Queues[lockq(l)] = locks[l].queue
      /\ \A c \in Id : cvarq(c) \in QueueName /\ Queues[cvarq(c)] = cvars[c]
  BY DEF main, lockq, cvarq, QueueName, Queues
<1>2. ASSUME NEW k \in QueueName PROVE Queues[k] \in Seq(Proc)
  BY DEF TypeOK, Lock, QueueName, Queues
<1>3. Queues \in Family
  BY <1>2 DEF Family, Queues
<1> QED BY <1>1, <1>3

\* The family of the next state, put together queue by queue.
LEMMA QueuesOfNextState ==
  ASSUME NEW Q \in Family, main_queue' = Q[main],
         \A l \in Id : locks'[l].queue = Q[lockq(l)],
         \A c \in Id : cvars'[c] = Q[cvarq(c)]
  PROVE  Queues' = Q
<1>1. ASSUME NEW k \in QueueName PROVE Queues'[k] = Q[k]
  BY DEF main, lockq, cvarq, QueueName, Queues
<1> QED BY <1>1 DEF Family, Queues

\* acquire changes the queue only when it returns NEED.
LEMMA AcquiredQueue ==
  ASSUME locks \in [Id -> Lock], NEW l \in Id, NEW p, NEW u
  PROVE  Acquired(l, p, u).queue = IF CanAcquire(l, p) /\ ~(locks[l].val > 0)
                                   THEN Append(locks[l].queue, p) ELSE locks[l].queue
<1>1. locks[l] \in Lock
  OBVIOUS
<1> QED BY <1>1 DEF Acquired, Lock

\* release takes the head off the queue, if there is one.
LEMMA ReleasedQueue ==
  ASSUME locks \in [Id -> Lock], NEW l \in Id, NEW p, NEW u
  PROVE  Released(l, p, u).queue = IF locks[l].queue = <<>>
                                   THEN locks[l].queue ELSE Tail(locks[l].queue)
<1>1. locks[l] \in Lock
  OBVIOUS
<1> QED BY <1>1 DEF Released, Lock

\* The queues after release: the head of the lock's queue is on the main queue.
HandedQueues(l) ==
  IF locks[l].queue = <<>> THEN Queues
  ELSE [[Queues EXCEPT ![lockq(l)] = Tail(@)]
          EXCEPT ![main] = Append(@, Head(locks[l].queue))]

\* The hand-over inside release keeps the processes separate.
LEMMA HandOver ==
  ASSUME TypeOK, Separate(running, Queues), NEW l \in Id
  PROVE  /\ HandedQueues(l) \in Family /\ Separate(running, HandedQueues(l))
         /\ HandedQueues(l)[main] = Handed(l)
         /\ \A c \in Id : HandedQueues(l)[cvarq(c)] = cvars[c]
         /\ HandedQueues(l)[lockq(l)] = IF locks[l].queue = <<>>
                                        THEN locks[l].queue ELSE Tail(locks[l].queue)
         /\ \A m \in Id : m # l => HandedQueues(l)[lockq(m)] = locks[m].queue
<1>q. /\ Queues \in Family
      /\ main \in QueueName /\ Queues[main] = main_queue
      /\ \A m \in Id : lockq(m) \in QueueName /\ Queues[lockq(m)] = locks[m].queue
      /\ \A c \in Id : cvarq(c) \in QueueName /\ Queues[cvarq(c)] = cvars[c]
  BY QueuesOfState
<1>d. /\ \A m \in Id : lockq(m) # main
      /\ \A c \in Id : cvarq(c) # main
      /\ \A c, m \in Id : cvarq(c) # lockq(m)
      /\ \A k, m \in Id : k # m => lockq(k) # lockq(m)
  BY DEF main, lockq, cvarq
<1>1. CASE locks[l].queue = <<>>
  BY <1>1, <1>q DEF HandedQueues, Handed
<1>2. CASE locks[l].queue # <<>>
  <2> DEFINE T == [Queues EXCEPT ![lockq(l)] = Tail(@)]
             h == Head(locks[l].queue)
             R == [T EXCEPT ![main] = Append(@, h)]
  <2>1. /\ T \in Family /\ h \in Proc /\ h # running
        /\ Separate(running, T) /\ Separate(h, T)
    <3>1. Queues \in Family /\ lockq(l) \in QueueName /\ Queues[lockq(l)] = locks[l].queue
      BY <1>q
    <3>2. Queues[lockq(l)] # <<>> /\ h = Head(Queues[lockq(l)])
      BY <1>2, <3>1
    <3> HIDE DEF h
    <3> QED BY <3>1, <3>2, Take, Zenon
  <2>2. R \in Family /\ Separate(running, R)
    BY <1>q, <2>1, Put
  <2>3. HandedQueues(l) = R
    BY <1>2 DEF HandedQueues
  <2>4. R[main] = Handed(l)
    <3>1. R[main] = Append(main_queue, h)
      BY <1>q, <1>d, <2>1 DEF Family
    <3>2. Handed(l) = Append(main_queue, h)
      BY <1>2, <2>1, IdleAssumption DEF Handed, schedule_process
    <3> QED BY <3>1, <3>2
  <2>5. \A c \in Id : R[cvarq(c)] = cvars[c]
    BY <1>q, <1>d, <2>1 DEF Family
  <2>6. /\ R[lockq(l)] = Tail(locks[l].queue)
        /\ \A m \in Id : m # l => R[lockq(m)] = locks[m].queue
    BY <1>q, <1>d, <2>1 DEF Family
  <2> QED BY <1>2, <2>2, <2>3, <2>4, <2>5, <2>6
<1> QED BY <1>1, <1>2

\* The processes are separate in every state: on one queue, once, or running.
SepInv == Separate(running, Queues)

\* At first everybody but the running process is on the main queue, once.
LEMMA StartSeparate ==
  ASSUME running \in Proc, main_queue \in [1..(Cardinality(Proc) - 1) -> Proc],
         Range(main_queue) = Proc \ {running},
         \A l \in Id : locks[l].queue = <<>>, \A c \in Id : cvars[c] = <<>>
  PROVE  SepInv
<1>1. /\ main \in QueueName /\ Queues[main] = main_queue
      /\ \A k \in QueueName : k # main => Queues[k] = <<>>
  BY DEF main, QueueName, Queues
<1>2. IsInjective(<<>>) /\ Range(<<>>) = {}
  BY DEF IsInjective, Range
<1>3. running \notin Range(main_queue)
  OBVIOUS
<1>4. IsInjective(main_queue)
  <2> DEFINE n == Cardinality(Proc) - 1
             D == 1..n
  <2>1. running \in Proc /\ IsFiniteSet(Proc)
    BY SyncAssumption
  <2>2. Cardinality(Proc \ {running}) = n /\ n \in Nat
    <3>1. IsFiniteSet(Proc \ {running}) /\ Cardinality(Proc \ {running}) = n
      BY <2>1, FS_RemoveElement, Zenon
    <3> QED BY <3>1, FS_CardinalityType
  <2>3. IsFiniteSet(D) /\ Cardinality(D) = n
    BY <2>2, FS_Interval
  <2>4. main_queue \in Surjection(D, Proc \ {running})
    BY DEF Surjection, Range
  <2>5. main_queue \in Injection(D, Proc \ {running})
    BY <2>2, <2>3, <2>4, FS_SurjSameCardinalityImpliesInj
  <2> QED BY <2>5 DEF Injection
<1> QED BY <1>1, <1>2, <1>3, <1>4 DEF SepInv, Separate

\* This is how the kernel starts.
LEMMA InitSeparate == Init => SepInv
BY StartSeparate DEF Init, init_sync, NewLock

\* Every step keeps the processes separate.
LEMMA NextSeparate == TypeOK /\ SepInv /\ [Next]_vars => SepInv'
<1> SUFFICES ASSUME TypeOK, SepInv, [Next]_vars PROVE SepInv'
  OBVIOUS
<1> USE DEF SepInv
<1>q. /\ Queues \in Family
      /\ main \in QueueName /\ Queues[main] = main_queue
      /\ \A l \in Id : lockq(l) \in QueueName /\ Queues[lockq(l)] = locks[l].queue
      /\ \A c \in Id : cvarq(c) \in QueueName /\ Queues[cvarq(c)] = cvars[c]
  BY QueuesOfState
<1>d. /\ \A l \in Id : lockq(l) # main
      /\ \A c \in Id : cvarq(c) # main
      /\ \A c, l \in Id : cvarq(c) # lockq(l)
      /\ \A l, m \in Id : l # m => lockq(l) # lockq(m) /\ cvarq(l) # cvarq(m)
  BY DEF main, lockq, cvarq
<1>t. locks \in [Id -> Lock] /\ cvars \in [Id -> Seq(Proc)] /\ main_queue \in Seq(Proc)
  BY DEF TypeOK
<1>s. ASSUME running' = running, main_queue' = main_queue, cvars' = cvars,
             \A l \in Id : locks'[l].queue = locks[l].queue
      PROVE  SepInv'
  <2>1. Queues' = Queues
    BY <1>q, <1>s, QueuesOfNextState
  <2> QED BY <1>s, <2>1
<1>1. ASSUME NEW l \in Id, NEW cap, locks' = [locks EXCEPT ![l] = NewLock(cap)],
             UNCHANGED sched, UNCHANGED cvars
      PROVE  SepInv'
  <2> DEFINE Q == [Queues EXCEPT ![lockq(l)] = <<>>]
  <2>1. Q \in Family /\ Separate(running, Q)
    BY <1>q, Clear
  <2>2. Queues' = Q
    <3>1. main_queue' = Q[main] /\ \A c \in Id : cvars'[c] = Q[cvarq(c)]
      BY <1>1, <1>q, <1>d DEF Family, sched
    <3>2. \A m \in Id : locks'[m].queue = Q[lockq(m)]
      BY <1>1, <1>q, <1>d, <1>t DEF Family, NewLock
    <3> QED BY <2>1, <3>1, <3>2, QueuesOfNextState
  <2> QED BY <1>1, <2>1, <2>2 DEF sched
<1>2. ASSUME NEW c \in Id, CvarTable!New(c), cvars' = [cvars EXCEPT ![c] = <<>>],
             UNCHANGED <<sched, locks>>
      PROVE  SepInv'
  <2> DEFINE Q == [Queues EXCEPT ![cvarq(c)] = <<>>]
  <2>1. Q \in Family /\ Separate(running, Q)
    BY <1>q, Clear
  <2>2. Queues' = Q
    <3>1. main_queue' = Q[main] /\ \A l \in Id : locks'[l].queue = Q[lockq(l)]
      BY <1>2, <1>q, <1>d DEF Family, sched
    <3>2. \A b \in Id : cvars'[b] = Q[cvarq(b)]
      BY <1>2, <1>q, <1>d, <1>t DEF Family
    <3> QED BY <2>1, <3>1, <3>2, QueuesOfNextState
  <2> QED BY <1>2, <2>1, <2>2 DEF sched
<1>3. ASSUME NEW l \in Id, Acquire(l) PROVE SepInv'
  <2>r. running \in Proc /\ CanAcquire(l, running)
    BY <1>3 DEF Acquire, Trap, UserRuns
  <2>a. /\ locks'[l].queue = IF ~(locks[l].val > 0) THEN Append(locks[l].queue, running)
                             ELSE locks[l].queue
        /\ \A m \in Id : m # l => locks'[m] = locks[m]
        /\ cvars' = cvars
    BY <1>3, <1>t, <2>r, AcquiredQueue DEF Acquire
  <2>1. CASE locks[l].val > 0 /\ UNCHANGED sched
    BY <1>s, <2>a, <2>1 DEF sched
  <2>2. CASE ~(locks[l].val > 0) /\ SwitchToNext(main_queue)
    <3> DEFINE Q == [Queues EXCEPT ![lockq(l)] = Append(@, running)]
               R == [Q EXCEPT ![main] = main_queue']
    <3>1. Separate(Idle, Queues) /\ Idle # running
      BY <1>q, <2>r, LeaveProcessor, IdleAssumption
    <3>2. Q \in Family /\ Separate(Idle, Q)
      BY <1>q, <2>r, <3>1, Put
    <3>3. Q[main] = main_queue
      BY <1>q, <1>d DEF Family
    <3>4. R \in Family /\ Separate(running', R)
      BY <2>2, <3>2, <3>3, Dispatch
    <3>5. Queues' = R
      <4>1. main_queue' = R[main] /\ \A c \in Id : cvars'[c] = R[cvarq(c)]
        BY <2>a, <1>q, <1>d DEF Family
      <4>2. \A m \in Id : locks'[m].queue = R[lockq(m)]
        BY <2>a, <2>2, <1>q, <1>d DEF Family
      <4> QED BY <3>4, <4>1, <4>2, QueuesOfNextState
    <3> QED BY <3>4, <3>5
  <2> QED BY <1>3, <1>t, <2>1, <2>2 DEF Acquire, Lock
<1>h. ASSUME NEW l \in Id, NEW u, locks' = [locks EXCEPT ![l] = Released(l, running, u)]
      PROVE  \A m \in Id : locks'[m].queue = HandedQueues(l)[lockq(m)]
  <2>1. locks'[l].queue = IF locks[l].queue = <<>> THEN locks[l].queue
                          ELSE Tail(locks[l].queue)
    BY <1>h, <1>t, ReleasedQueue
  <2>2. \A m \in Id : m # l => locks'[m] = locks[m]
    BY <1>h, <1>t
  <2> QED BY <2>1, <2>2, HandOver
<1>4. ASSUME NEW l \in Id, Release(l) PROVE SepInv'
  <2>1. /\ HandedQueues(l) \in Family /\ Separate(running, HandedQueues(l))
        /\ HandedQueues(l)[main] = Handed(l)
        /\ \A c \in Id : HandedQueues(l)[cvarq(c)] = cvars[c]
    BY HandOver
  <2>2. \A m \in Id : locks'[m].queue = HandedQueues(l)[lockq(m)]
    BY <1>4, <1>h DEF Release
  <2>3. Queues' = HandedQueues(l)
    BY <1>4, <2>1, <2>2, QueuesOfNextState DEF Release
  <2> QED BY <1>4, <2>1, <2>3 DEF Release
<1>5. ASSUME NEW c \in Id, NEW l \in Id, CvarWait(c, l) PROVE SepInv'
  <2> DEFINE P == HandedQueues(l)
             Q == [P EXCEPT ![cvarq(c)] = Append(@, running)]
             R == [Q EXCEPT ![main] = main_queue']
  <2>1. /\ P \in Family /\ Separate(running, P)
        /\ P[main] = Handed(l)
        /\ \A b \in Id : P[cvarq(b)] = cvars[b]
        /\ \A m \in Id : locks'[m].queue = P[lockq(m)]
    BY <1>5, <1>h, HandOver DEF CvarWait
  <2> HIDE DEF P
  <2>2. running \in Proc /\ Idle # running
    BY <1>5, IdleAssumption DEF CvarWait, Trap, UserRuns
  <2>3. Separate(Idle, P)
    BY <2>1, LeaveProcessor
  <2>4. Q \in Family /\ Separate(Idle, Q)
    BY <1>q, <2>1, <2>2, <2>3, Put
  <2>5. SwitchToNext(Q[main])
    <3>1. Q[main] = Handed(l)
      BY <1>q, <1>d, <2>1 DEF Family
    <3> QED BY <1>5, <3>1 DEF CvarWait
  <2>6. R \in Family /\ Separate(running', R)
    BY <2>4, <2>5, Dispatch
  <2>7. Queues' = R
    <3>1. main_queue' = R[main]
      BY <1>q, <2>4 DEF Family
    <3>2. \A b \in Id : cvars'[b] = R[cvarq(b)]
      BY <1>5, <1>q, <1>d, <1>t, <2>1, <2>4 DEF Family, CvarWait
    <3>3. \A m \in Id : locks'[m].queue = R[lockq(m)]
      BY <1>q, <1>d, <2>1, <2>4 DEF Family
    <3> QED BY <2>6, <3>1, <3>2, <3>3, QueuesOfNextState
  <2> QED BY <2>6, <2>7
<1>6. ASSUME NEW c \in Id, WakeOne(c) PROVE SepInv'
  <2> DEFINE p == Head(cvars[c])
             l == cvar_lock_id[p]
             T == [Queues EXCEPT ![cvarq(c)] = Tail(@)]
  <2>0. cvars[c] # <<>> /\ running' = running /\ cvars' = [cvars EXCEPT ![c] = Tail(@)]
    BY <1>6 DEF WakeOne
  <2>1. /\ T \in Family /\ p \in Proc /\ p # running
        /\ Separate(running, T) /\ Separate(p, T)
    BY <1>q, <2>0, Take
  <2>2. l \in Id
    BY <2>1 DEF TypeOK
  <2>3. /\ T[main] = main_queue
        /\ \A m \in Id : T[lockq(m)] = locks[m].queue
        /\ \A b \in Id : T[cvarq(b)] = cvars'[b]
    BY <1>q, <1>d, <1>t, <2>0 DEF Family
  <2>4. locks' = [locks EXCEPT ![l] = Acquired(l, p, TRUE)]
    BY <1>6 DEF WakeOne
  <2>5. main_queue' = IF CanAcquire(l, p) /\ locks[l].val > 0
                      THEN schedule_process(main_queue, p) ELSE main_queue
    BY <1>6 DEF WakeOne
  <2>6. /\ Acquired(l, p, TRUE).queue = IF CanAcquire(l, p) /\ ~(locks[l].val > 0)
                                       THEN Append(locks[l].queue, p) ELSE locks[l].queue
        /\ \A m \in Id : m # l => locks'[m] = locks[m]
        /\ locks'[l] = Acquired(l, p, TRUE)
    BY <1>t, <2>2, <2>4, AcquiredQueue
  <2> HIDE DEF T, p, l
  <2>7. CASE CanAcquire(l, p) /\ locks[l].val > 0
    <3> DEFINE R == [T EXCEPT ![main] = Append(@, p)]
    <3>1. R \in Family /\ Separate(running, R)
      BY <1>q, <2>1, Put
    <3>2. main_queue' = R[main]
      BY <1>q, <2>1, <2>3, <2>5, <2>7, IdleAssumption DEF Family, schedule_process
    <3>3. \A m \in Id : locks'[m].queue = R[lockq(m)]
      BY <1>q, <1>d, <2>1, <2>3, <2>6, <2>7 DEF Family
    <3>4. \A b \in Id : cvars'[b] = R[cvarq(b)]
      BY <1>q, <1>d, <2>1, <2>3 DEF Family
    <3>5. Queues' = R
      BY <3>1, <3>2, <3>3, <3>4, QueuesOfNextState
    <3> QED BY <2>0, <3>1, <3>5
  <2>8. CASE CanAcquire(l, p) /\ ~(locks[l].val > 0)
    <3> DEFINE R == [T EXCEPT ![lockq(l)] = Append(@, p)]
    <3>1. R \in Family /\ Separate(running, R)
      BY <1>q, <2>1, <2>2, Put
    <3>2. main_queue' = R[main]
      BY <1>q, <1>d, <2>1, <2>2, <2>3, <2>5, <2>8 DEF Family
    <3>3. \A m \in Id : locks'[m].queue = R[lockq(m)]
      BY <1>q, <1>d, <2>1, <2>2, <2>3, <2>6, <2>8 DEF Family
    <3>4. \A b \in Id : cvars'[b] = R[cvarq(b)]
      BY <1>q, <1>d, <2>1, <2>2, <2>3 DEF Family
    <3>5. Queues' = R
      BY <3>1, <3>2, <3>3, <3>4, QueuesOfNextState
    <3> QED BY <2>0, <3>1, <3>5
  <2>9. CASE ~CanAcquire(l, p)
    <3>1. Queues' = T
      <4>1. main_queue' = T[main]
        BY <2>3, <2>5, <2>9
      <4>2. \A m \in Id : locks'[m].queue = T[lockq(m)]
        BY <2>3, <2>6, <2>9
      <4> QED BY <2>1, <2>3, <4>1, <4>2, QueuesOfNextState
    <3> QED BY <2>0, <2>1, <3>1
  <2> QED BY <2>7, <2>8, <2>9
<1>7. ASSUME UNCHANGED <<locks, cvars>>, SwitchToNext(main_queue) PROVE SepInv'
  <2> DEFINE R == [Queues EXCEPT ![main] = main_queue']
  <2>1. R \in Family /\ Separate(running', R)
    BY <1>7, <1>q, LeaveProcessor, Dispatch
  <2>2. Queues' = R
    <3>1. main_queue' = R[main]
      BY <1>q DEF Family
    <3>2. /\ \A m \in Id : locks'[m].queue = R[lockq(m)]
          /\ \A b \in Id : cvars'[b] = R[cvarq(b)]
      BY <1>7, <1>q, <1>d DEF Family
    <3> QED BY <2>1, <3>1, <3>2, QueuesOfNextState
  <2> QED BY <2>1, <2>2
<1>8. ASSUME trap_clock_handler PROVE SepInv'
  <2>0. UNCHANGED <<locks, cvars>> /\ SwitchToNext(schedule_process(main_queue, running))
    BY <1>8 DEF trap_clock_handler, Preempt
  <2>1. CASE running = Idle
    BY <1>7, <2>0, <2>1 DEF schedule_process
  <2>2. CASE running \in Proc
    <3> DEFINE Q == [Queues EXCEPT ![main] = Append(@, running)]
               R == [Q EXCEPT ![main] = main_queue']
    <3>1. Separate(Idle, Queues) /\ Idle # running
      BY <1>q, <2>2, LeaveProcessor, IdleAssumption
    <3>2. Q \in Family /\ Separate(Idle, Q)
      BY <1>q, <2>2, <3>1, Put
    <3>3. SwitchToNext(Q[main])
      <4>1. Q[main] = schedule_process(main_queue, running)
        BY <1>q, <3>1 DEF Family, schedule_process
      <4> QED BY <2>0, <4>1
    <3>4. R \in Family /\ Separate(running', R)
      BY <3>2, <3>3, Dispatch
    <3>5. Queues' = R
      <4>1. main_queue' = R[main]
        BY <1>q, <3>2 DEF Family
      <4>2. /\ \A m \in Id : locks'[m].queue = R[lockq(m)]
            /\ \A b \in Id : cvars'[b] = R[cvarq(b)]
        BY <2>0, <1>q, <1>d, <3>2 DEF Family
      <4> QED BY <3>4, <4>1, <4>2, QueuesOfNextState
    <3> QED BY <3>4, <3>5
  <2> QED BY <2>1, <2>2 DEF TypeOK
<1>9. CASE Next
  <2>1. ASSUME NEW cap \in {1} \union Capacity, LockInit(cap) PROVE SepInv'
    BY <1>1, <2>1 DEF LockInit
  <2>2. ASSUME NEW l \in Id, delete_lock(l) PROVE SepInv'
    BY <1>1, <2>2 DEF delete_lock
  <2>3. CASE CvarInit
    BY <1>2, <2>3 DEF CvarInit
  <2>4. ASSUME NEW c \in Id, CvarSignal(c) \/ CvarBroadcast(c) \/ BroadcastStep(c)
        PROVE  SepInv'
    BY <1>6, <2>4 DEF CvarSignal, CvarBroadcast, BroadcastStep
  <2>5. ASSUME NEW c \in Id, LockInitFails \/ delete_cvar(c) PROVE SepInv'
    BY <1>s, <2>5 DEF LockInitFails, delete_cvar, sched
  <2>6. CASE KernelExit
    BY <1>7, <2>6 DEF KernelExit
  <2>7. CASE LockInitFails
    BY <1>s, <2>7 DEF LockInitFails, sched
  <2> QED BY <1>3, <1>4, <1>5, <1>8, <1>9, <2>1, <2>2, <2>3, <2>4, <2>5, <2>6, <2>7 DEF Next
<1>10. CASE UNCHANGED vars
  BY <1>s, <1>10 DEF vars, sched
<1> QED BY <1>9, <1>10
-----------------------------------------------------------------------------
(* Permits *)

\* The permits of one lock add up, nobody queues beside a free permit, and
\* nobody queues for what it holds.
LockOK(k) ==
  /\ k.val >= 0
  /\ k.val + Cardinality(k.pids) = k.capacity
  /\ k.queue # <<>> => k.val = 0
  /\ k.pids \intersect Range(k.queue) = {}

PermitInv == \A l \in Id : LockOK(locks[l])

\* A new lock has all its permits.
LEMMA NewLockOK ==
  ASSUME NEW cap \in Nat
  PROVE  LockOK(NewLock(cap))
BY FS_EmptySet DEF LockOK, NewLock, Range

\* acquire keeps the permits in order, whatever it returns.
LEMMA AcquiredOK ==
  ASSUME locks \in [Id -> Lock], NEW l \in Id, NEW p \in Proc, NEW u, LockOK(locks[l])
  PROVE  LockOK(Acquired(l, p, u))
<1> DEFINE k == locks[l]
           a == Acquired(l, p, u)
<1>t. k \in Lock
  OBVIOUS
<1>f. IsFiniteSet(k.pids) /\ Cardinality(k.pids) \in Nat
  BY <1>t, SyncAssumption, FS_Subset, FS_CardinalityType DEF Lock
<1>1. CASE ~CanAcquire(l, p)
  BY <1>1 DEF Acquired
<1>2. CASE CanAcquire(l, p) /\ k.val > 0
  <2>1. /\ a.val = k.val - 1 /\ a.pids = k.pids \union {p}
        /\ a.queue = k.queue /\ a.capacity = k.capacity
    BY <1>t, <1>2 DEF Acquired, Lock
  <2>2. k.queue = <<>> /\ p \notin k.pids
    BY <1>2 DEF LockOK, CanAcquire
  <2>3. Cardinality(a.pids) = Cardinality(k.pids) + 1
    BY <1>f, <2>1, <2>2, FS_AddElement
  <2>4. Range(a.queue) = {}
    BY <2>1, <2>2 DEF Range
  <2>5. k.val \in Int /\ k.capacity \in Nat
    BY <1>t DEF Lock
  <2>6. a.val >= 0 /\ a.val + Cardinality(a.pids) = a.capacity
    BY <1>2, <1>f, <2>1, <2>3, <2>5 DEF LockOK
  <2> HIDE DEF a, k
  <2>9. LockOK(a)
    BY <2>1, <2>2, <2>4, <2>6 DEF LockOK
  <2> QED BY <2>9 DEF a
<1>3. CASE CanAcquire(l, p) /\ ~(k.val > 0)
  <2>1. /\ a.val = k.val /\ a.pids = k.pids
        /\ a.queue = Append(k.queue, p) /\ a.capacity = k.capacity
    BY <1>t, <1>3 DEF Acquired, Lock
  <2>2. k.queue \in Seq(Proc) /\ k.val \in Int
    BY <1>t DEF Lock
  <2>3. Range(a.queue) = Range(k.queue) \union {p}
    BY <2>1, <2>2, AppendFacts
  <2>4. p \notin k.pids /\ k.val = 0
    BY <1>3, <2>2 DEF LockOK, CanAcquire
  <2>5. LockOK(k)
    OBVIOUS
  <2> HIDE DEF a, k
  <2>9. LockOK(a)
    BY <2>1, <2>3, <2>4, <2>5 DEF LockOK
  <2> QED BY <2>9 DEF a
<1> QED BY <1>1, <1>2, <1>3

\* Here the queue must not have a process twice.
LEMMA ReleasedOK ==
  ASSUME locks \in [Id -> Lock], NEW l \in Id, NEW p \in locks[l].pids, NEW u,
         LockOK(locks[l]), IsInjective(locks[l].queue)
  PROVE  LockOK(Released(l, p, u))
<1> DEFINE k == locks[l]
           a == Released(l, p, u)
<1>t. k \in Lock /\ k.val \in Int /\ k.capacity \in Nat /\ k.queue \in Seq(Proc)
  BY DEF Lock
<1>f. /\ IsFiniteSet(k.pids) /\ Cardinality(k.pids) \in Nat
      /\ IsFiniteSet(k.pids \ {p}) /\ Cardinality(k.pids \ {p}) = Cardinality(k.pids) - 1
  <2>1. IsFiniteSet(k.pids)
    BY <1>t, SyncAssumption, FS_Subset DEF Lock
  <2>2. Cardinality(k.pids) \in Nat
    BY <2>1, FS_CardinalityType
  <2> QED BY <2>1, <2>2, FS_RemoveElement
<1>k. LockOK(k) /\ IsInjective(k.queue) /\ p \in k.pids
  OBVIOUS
<1>1. CASE k.queue = <<>>
  <2>1. /\ a.val = k.val + 1 /\ a.pids = k.pids \ {p}
        /\ a.queue = k.queue /\ a.capacity = k.capacity
    BY <1>t, <1>1 DEF Released, Lock
  <2> HIDE DEF a, k
  <2>2. a.val >= 0 /\ a.val + Cardinality(a.pids) = a.capacity
    BY <1>f, <1>k, <1>t, <2>1 DEF LockOK
  <2>9. LockOK(a)
    BY <1>k, <1>1, <2>1, <2>2 DEF LockOK
  <2> QED BY <2>9 DEF a
<1>2. CASE k.queue # <<>>
  <2> DEFINE h == Head(k.queue)
  <2>1. /\ a.val = k.val /\ a.pids = (k.pids \ {p}) \union {h}
        /\ a.queue = Tail(k.queue) /\ a.capacity = k.capacity
    BY <1>t, <1>2 DEF Released, Lock
  <2>2. h \in Range(k.queue) /\ h \notin Range(a.queue) /\ Range(a.queue) \subseteq Range(k.queue)
    BY <1>k, <1>t, <1>2, <2>1, TailFacts
  <2> HIDE DEF a, k, h
  <2>3. h \notin k.pids
    BY <1>k, <2>2 DEF LockOK
  <2>4. Cardinality(a.pids) = Cardinality(k.pids)
    <3>1. Cardinality(a.pids) = Cardinality(k.pids \ {p}) + 1
      BY <1>f, <2>1, <2>3, FS_AddElement
    <3> QED BY <1>f, <3>1
  <2>5. k.val = 0
    BY <1>k, <1>2 DEF LockOK
  <2>9. LockOK(a)
    BY <1>k, <2>1, <2>2, <2>4, <2>5 DEF LockOK
  <2> QED BY <2>9 DEF a
<1> QED BY <1>1, <1>2

\* At first no lock exists and no permit is out.
LEMMA InitPermits == Init => PermitInv
BY NewLockOK DEF Init, init_sync, PermitInv

\* Every step keeps the permits of every lock in order.
LEMMA NextPermits == TypeOK /\ SepInv /\ PermitInv /\ [Next]_vars => PermitInv'
<1> SUFFICES ASSUME TypeOK, SepInv, PermitInv, [Next]_vars PROVE PermitInv'
  OBVIOUS
<1>t. locks \in [Id -> Lock] /\ \A l \in Id : LockOK(locks[l])
  BY DEF TypeOK, PermitInv
<1>i. \A l \in Id : IsInjective(locks[l].queue)
  BY QueuesOfState DEF SepInv, Separate
<1>s. UNCHANGED locks => PermitInv'
  BY DEF PermitInv
<1>e. ASSUME NEW l \in Id, NEW k, locks' = [locks EXCEPT ![l] = k], LockOK(k)
      PROVE  PermitInv'
  BY <1>e, <1>t DEF PermitInv
<1>1. ASSUME NEW cap \in {1} \union Capacity, LockInit(cap) PROVE PermitInv'
  <2>1. LockOK(NewLock(cap))
    BY NewLockOK, SyncAssumption
  <2> QED BY <1>1, <1>e, <2>1 DEF LockInit
<1>2. ASSUME NEW l \in Id, delete_lock(l) PROVE PermitInv'
  <2>1. LockOK(NewLock(0))
    BY NewLockOK
  <2> QED BY <1>2, <1>e, <2>1 DEF delete_lock
<1>3. ASSUME NEW l \in Id, Acquire(l) PROVE PermitInv'
  <2>1. LockOK(Acquired(l, running, FALSE))
    BY <1>3, <1>t, AcquiredOK DEF Acquire, Trap, UserRuns
  <2> QED BY <1>3, <1>e, <2>1 DEF Acquire
<1>4. ASSUME NEW l \in Id, Release(l) PROVE PermitInv'
  <2>1. LockOK(Released(l, running, FALSE))
    BY <1>4, <1>t, <1>i, ReleasedOK DEF Release, CanRelease
  <2> QED BY <1>4, <1>e, <2>1 DEF Release
<1>5. ASSUME NEW c \in Id, NEW l \in Id, CvarWait(c, l) PROVE PermitInv'
  <2>1. LockOK(Released(l, running, TRUE))
    BY <1>5, <1>t, <1>i, ReleasedOK DEF CvarWait, CanRelease
  <2> QED BY <1>5, <1>e, <2>1 DEF CvarWait
<1>6. ASSUME NEW c \in Id, WakeOne(c) PROVE PermitInv'
  <2> DEFINE p == Head(cvars[c])
             l == cvar_lock_id[p]
  <2>1. p \in Proc /\ l \in Id
    BY <1>6 DEF WakeOne, TypeOK
  <2>2. LockOK(Acquired(l, p, TRUE))
    BY <1>t, <2>1, AcquiredOK
  <2>3. locks' = [locks EXCEPT ![l] = Acquired(l, p, TRUE)]
    BY <1>6 DEF WakeOne
  <2> QED BY <1>e, <2>1, <2>2, <2>3
<1>7. CASE UNCHANGED vars
  BY <1>7, <1>s DEF vars
<1>8. CASE Next
  <2>1. ASSUME NEW c \in Id, CvarSignal(c) \/ CvarBroadcast(c) \/ BroadcastStep(c)
        PROVE  PermitInv'
    BY <1>6, <2>1 DEF CvarSignal, CvarBroadcast, BroadcastStep
  <2>2. ASSUME NEW c \in Id, delete_cvar(c) PROVE PermitInv'
    BY <1>s, <2>2 DEF delete_cvar
  <2>3. CASE LockInitFails \/ CvarInit \/ KernelExit \/ trap_clock_handler
    BY <1>s, <2>3 DEF LockInitFails, CvarInit, KernelExit, trap_clock_handler
  <2> QED BY <1>1, <1>2, <1>3, <1>4, <1>5, <1>8, <2>1, <2>2, <2>3 DEF Next
<1> QED BY <1>7, <1>8

\* The inductive invariant: see the head of the module for why it has SepInv.
IInv == TypeOK /\ SepInv /\ PermitInv

\* The inductive invariant holds in every state.
LEMMA SyncInvariant == Spec => []IInv
<1>1. Init => IInv
  BY InitType, InitSeparate, InitPermits DEF IInv
<1>2. IInv /\ [Next]_vars => IInv'
  BY NextType, NextSeparate, NextPermits DEF IInv
<1> QED BY <1>1, <1>2, PTL DEF Spec

\* Permits are neither lost nor made by acquire, release, CvarWait, signal,
\* broadcast, exit or preemption in any order.
THEOREM PermitsAddUp == Spec => []PermitAccounting
<1>1. IInv => PermitAccounting
  <2> SUFFICES ASSUME IInv, NEW l \in lock_in_use PROVE LockOK(locks[l])
    BY DEF PermitAccounting, LockOK
  <2>1. l \in Id
    BY DEF IInv, TypeOK, LockTable!TableTypeOK, LockTable!Entry, Id
  <2> QED BY <2>1 DEF IInv, PermitInv
<1> QED BY <1>1, SyncInvariant, PTL

\* While processes queue for a lock, only the first of them can get it.
THEOREM NobodyOvertakes == Spec => NoBarging
<1>1. ASSUME IInv, [Next]_vars, NEW l \in lock_in_use, locks[l].queue # <<>>
      PROVE  locks'[l].pids \ locks[l].pids \subseteq {Head(locks[l].queue)}
  <2>t. locks \in [Id -> Lock] /\ l \in Id /\ \A m \in Id : LockOK(locks[m])
    BY <1>1 DEF IInv, TypeOK, PermitInv, LockTable!TableTypeOK, LockTable!Entry, Id
  <2>v. locks[l].val = 0
    BY <1>1, <2>t DEF LockOK
  <2>s. UNCHANGED locks => locks'[l].pids \ locks[l].pids \subseteq {Head(locks[l].queue)}
    OBVIOUS
  <2>n. ASSUME NEW m \in Id, NEW k, locks' = [locks EXCEPT ![m] = k],
               m = l => k.pids \ locks[l].pids \subseteq {Head(locks[l].queue)}
        PROVE  locks'[l].pids \ locks[l].pids \subseteq {Head(locks[l].queue)}
    BY <2>n, <2>t
  <2>a. ASSUME NEW p, NEW u
        PROVE  Acquired(l, p, u).pids = locks[l].pids
    <3>1. locks[l] \in Lock
      BY <2>t
    <3> QED BY <2>v, <3>1 DEF Acquired, Lock
  <2>r. ASSUME NEW p, NEW u
        PROVE  Released(l, p, u).pids \ locks[l].pids \subseteq {Head(locks[l].queue)}
    <3>1. locks[l] \in Lock
      BY <2>t
    <3>2. Released(l, p, u).pids = (locks[l].pids \ {p}) \union {Head(locks[l].queue)}
      BY <1>1, <3>1 DEF Released, Lock
    <3> QED BY <3>2
  <2> DEFINE Goal == locks'[l].pids \ locks[l].pids \subseteq {Head(locks[l].queue)}
  <2>1. ASSUME NEW cap \in {1} \union Capacity, LockInit(cap) PROVE Goal
    BY <2>1, <2>n DEF LockInit, NewLock
  <2>2. ASSUME NEW m \in Id, delete_lock(m) PROVE Goal
    BY <2>2, <2>n DEF delete_lock, NewLock
  <2>3. ASSUME NEW m \in Id, Acquire(m) PROVE Goal
    BY <2>3, <2>n, <2>a DEF Acquire
  <2>4. ASSUME NEW m \in Id, Release(m) PROVE Goal
    BY <2>4, <2>n, <2>r DEF Release
  <2>5. ASSUME NEW c \in Id, NEW m \in Id, CvarWait(c, m) PROVE Goal
    BY <2>5, <2>n, <2>r DEF CvarWait
  <2>6. ASSUME NEW c \in Id, WakeOne(c) PROVE Goal
    <3> DEFINE p == Head(cvars[c])
               m == cvar_lock_id[p]
    <3>1. m \in Id
      BY <1>1, <2>6 DEF WakeOne, IInv, TypeOK
    <3>2. locks' = [locks EXCEPT ![m] = Acquired(m, p, TRUE)]
      BY <2>6 DEF WakeOne
    <3> QED BY <2>n, <2>a, <3>1, <3>2
  <2>7. ASSUME NEW c \in Id, CvarSignal(c) \/ CvarBroadcast(c) \/ BroadcastStep(c) PROVE Goal
    BY <2>6, <2>7 DEF CvarSignal, CvarBroadcast, BroadcastStep
  <2>8. ASSUME NEW c \in Id, delete_cvar(c) PROVE Goal
    BY <2>s, <2>8 DEF delete_cvar
  <2>9. CASE LockInitFails \/ CvarInit \/ KernelExit \/ trap_clock_handler
    BY <2>s, <2>9 DEF LockInitFails, CvarInit, KernelExit, trap_clock_handler
  <2>10. CASE UNCHANGED vars
    BY <2>s, <2>10 DEF vars
  <2> QED
    BY <1>1, <2>1, <2>2, <2>3, <2>4, <2>5, <2>7, <2>8, <2>9, <2>10 DEF Next
<1> DEFINE A == \A l \in lock_in_use :
                  locks[l].queue # <<>> =>
                    locks'[l].pids \ locks[l].pids \subseteq {Head(locks[l].queue)}
<1>2. IInv /\ [Next]_vars => [A]_vars
  BY <1>1
<1> HIDE DEF A
<1>3. Spec => [][A]_vars
  BY <1>2, SyncInvariant, PTL DEF Spec
<1> QED BY <1>3 DEF NoBarging, A
-----------------------------------------------------------------------------
(* The tables *)

\* A table of a entries, u of them in use, with its open index o where the
\* next object may go.
Ordered(u, a, o) ==
  /\ a \in 1..MAX_ARR_SIZE
  /\ u \subseteq 0..(a - 1)
  /\ o \in 0..a
  /\ o \notin u
  /\ \A j \in 0..(o - 1) : j \in u

\* Growing copies as many entries as lie below the open index, which are all
\* there are: a table only grows when its open index has reached its end.
LEMMA GrowthCopiesAll ==
  ASSUME NEW u, NEW a, NEW o, Ordered(u, a, o), NEW v,
         v = IF o >= a THEN u \intersect 0..(o - 1) ELSE u
  PROVE  v = u
<1>1. CASE o >= a
  <2>1. \A j \in u : j \in 0..(o - 1)
    BY <1>1, SyncAssumption DEF Ordered
  <2> QED BY <1>1, <2>1
<1> QED BY <1>1

\* A new object goes to an unused entry, and the scan finds the next one.
LEMMA CreationOrdered ==
  ASSUME NEW u, NEW a, NEW o, Ordered(u, a, o),
         NEW g, g = IF o >= a THEN 2 * a ELSE a, g <= MAX_ARR_SIZE,
         NEW v, v = u \union {o},
         NEW k, k \in o..g, k = g \/ k \notin v, \A j \in o..(k - 1) : j \in v
  PROVE  Ordered(v, g, k)
<1> USE SyncAssumption DEF Ordered
<1>1. g \in 1..MAX_ARR_SIZE /\ a <= g /\ o < g
  OBVIOUS
<1>2. v \subseteq 0..(g - 1)
  BY <1>1
<1>3. k \notin v /\ k \in 0..g
  BY <1>1, <1>2
<1>4. \A j \in 0..(k - 1) : j \in v
  OBVIOUS
<1> QED BY <1>1, <1>2, <1>3, <1>4

\* A reclaimed object leaves its entry to the next one, whether or not the
\* table is halved; halving loses no object.
LEMMA DeletionOrdered ==
  ASSUME NEW u, NEW a, NEW o, Ordered(u, a, o), NEW d \in u,
         NEW k, k = IF d < o THEN d ELSE o
  PROVE  /\ Ordered(u \ {d}, a, k)
         /\ (\A j \in (a \div 2)..(a - 1) : j \notin u \ {d}) /\ k < a \div 2 =>
              /\ (u \ {d}) \intersect 0..(a \div 2 - 1) = u \ {d}
              /\ Ordered(u \ {d}, a \div 2, k)
<1> USE SyncAssumption DEF Ordered
<1>1. Ordered(u \ {d}, a, k)
  OBVIOUS
<1>2. ASSUME \A j \in (a \div 2)..(a - 1) : j \notin u \ {d}, k < a \div 2
      PROVE  /\ (u \ {d}) \intersect 0..(a \div 2 - 1) = u \ {d}
             /\ Ordered(u \ {d}, a \div 2, k)
  <2>1. PICK h \in 0..a : h = a \div 2
    OBVIOUS
  <2>2. \A j \in u \ {d} : j \in 0..(h - 1)
    BY <1>2, <2>1
  <2>3. (u \ {d}) \intersect 0..(h - 1) = u \ {d}
    BY <2>2
  <2>4. Ordered(u \ {d}, h, k)
    BY <1>1, <1>2, <2>1, <2>2
  <2> QED BY <2>1, <2>3, <2>4
<1> QED BY <1>1, <1>2

LockTableOK == Ordered(lock_in_use, lock_arr_size, open_lock_idx)
CvarTableOK == Ordered(cvar_in_use, cvar_arr_size, open_cvar_idx)

\* This is the invariant of ObjectTable, for each of the two tables.
LEMMA OrderedMeans ==
  /\ LockTableOK <=> LockTable!TableTypeOK /\ LockTable!OpenIsLowestUnused
  /\ CvarTableOK <=> CvarTable!TableTypeOK /\ CvarTable!OpenIsLowestUnused
<1> USE SyncAssumption
<1>1. LockTableOK <=> LockTable!TableTypeOK /\ LockTable!OpenIsLowestUnused
  BY DEF LockTableOK, Ordered, LockTable!TableTypeOK, LockTable!OpenIsLowestUnused, LockTable!Entry
<1>2. CvarTableOK <=> CvarTable!TableTypeOK /\ CvarTable!OpenIsLowestUnused
  BY DEF CvarTableOK, Ordered, CvarTable!TableTypeOK, CvarTable!OpenIsLowestUnused, CvarTable!Entry
<1> QED BY <1>1, <1>2

\* What the operations of ObjectTable do to the table of locks.
LEMMA LockTableSteps ==
  ASSUME LockTableOK
  PROVE  /\ \A l : LockTable!New(l) =>
              /\ LockTableOK'
              /\ l \notin lock_in_use /\ lock_in_use' = lock_in_use \union {l}
         /\ \A l : LockTable!Delete(l) =>
              /\ LockTableOK'
              /\ l \in lock_in_use /\ lock_in_use' = lock_in_use \ {l}
         /\ LockTable!NewFails => LockTableOK' /\ lock_in_use' = lock_in_use
         /\ UNCHANGED lock_table => LockTableOK'
<1>o. Ordered(lock_in_use, lock_arr_size, open_lock_idx)
  BY DEF LockTableOK
<1>g. LockTable!AfterGrowth = lock_in_use
  BY <1>o, GrowthCopiesAll DEF LockTable!AfterGrowth, LockTable!Full
<1>1. ASSUME NEW l, LockTable!New(l)
      PROVE  /\ LockTableOK'
             /\ l \notin lock_in_use /\ lock_in_use' = lock_in_use \union {l}
  <2>1. /\ l = open_lock_idx /\ lock_in_use' = lock_in_use \union {open_lock_idx}
        /\ lock_arr_size' = LockTable!GrownSize /\ LockTable!GrownSize <= MAX_ARR_SIZE
    BY <1>1, <1>g DEF LockTable!New
  <2>2. LockTable!GrownSize = IF open_lock_idx >= lock_arr_size
                              THEN 2 * lock_arr_size ELSE lock_arr_size
    BY DEF LockTable!GrownSize, LockTable!Full
  <2>3. LockTable!ScanEndsAt(open_lock_idx', open_lock_idx, lock_in_use', lock_arr_size')
    BY <1>1, <2>1 DEF LockTable!New
  <2>4. Ordered(lock_in_use', lock_arr_size', open_lock_idx')
    BY <1>o, <2>1, <2>2, <2>3, CreationOrdered DEF LockTable!ScanEndsAt
  <2>5. l \notin lock_in_use
    BY <1>o, <2>1 DEF Ordered
  <2> QED BY <2>1, <2>4, <2>5 DEF LockTableOK
<1>2. ASSUME NEW l, LockTable!Delete(l)
      PROVE  /\ LockTableOK'
             /\ l \in lock_in_use /\ lock_in_use' = lock_in_use \ {l}
  <2>1. l \in lock_in_use /\ open_lock_idx' = IF l < open_lock_idx THEN l ELSE open_lock_idx
    BY <1>2 DEF LockTable!Delete, LockTable!DeleteInPlace, LockTable!DeleteAndShrink
  <2>2. CASE LockTable!DeleteInPlace(l)
    <3>1. lock_in_use' = lock_in_use \ {l} /\ lock_arr_size' = lock_arr_size
      BY <2>2 DEF LockTable!DeleteInPlace
    <3> QED BY <1>o, <2>1, <3>1, DeletionOrdered DEF LockTableOK
  <2>3. CASE LockTable!DeleteAndShrink(l)
    <3>1. /\ lock_in_use' = (lock_in_use \ {l}) \intersect 0..(lock_arr_size \div 2 - 1)
          /\ \A j \in (lock_arr_size \div 2)..(lock_arr_size - 1) : j \notin lock_in_use \ {l}
          /\ open_lock_idx' < lock_arr_size \div 2
          /\ lock_arr_size' = lock_arr_size \div 2
      BY <2>3 DEF LockTable!DeleteAndShrink
    <3>2. /\ (lock_in_use \ {l}) \intersect 0..(lock_arr_size \div 2 - 1) = lock_in_use \ {l}
          /\ Ordered(lock_in_use \ {l}, lock_arr_size \div 2, open_lock_idx')
      BY <1>o, <2>1, <3>1, DeletionOrdered
    <3> QED BY <2>1, <3>1, <3>2 DEF LockTableOK
  <2> QED BY <1>2, <2>2, <2>3 DEF LockTable!Delete
<1>3. ASSUME LockTable!NewFails PROVE LockTableOK' /\ lock_in_use' = lock_in_use
  <2>1. /\ lock_in_use' = lock_in_use /\ open_lock_idx' = open_lock_idx
        /\ lock_arr_size' = 2 * lock_arr_size /\ 2 * lock_arr_size <= MAX_ARR_SIZE
    BY <1>3, <1>g DEF LockTable!NewFails, LockTable!GrownSize
  <2> QED BY <1>o, <2>1, SyncAssumption DEF LockTableOK, Ordered
<1>4. UNCHANGED lock_table => LockTableOK'
  BY <1>o DEF lock_table, LockTableOK
<1> QED BY <1>1, <1>2, <1>3, <1>4

\* The same for the table of condition variables.
LEMMA CvarTableSteps ==
  ASSUME CvarTableOK
  PROVE  /\ \A c : CvarTable!New(c) =>
              /\ CvarTableOK'
              /\ c \notin cvar_in_use /\ cvar_in_use' = cvar_in_use \union {c}
         /\ \A c : CvarTable!Delete(c) =>
              /\ CvarTableOK'
              /\ c \in cvar_in_use /\ cvar_in_use' = cvar_in_use \ {c}
         /\ UNCHANGED cvar_table => CvarTableOK'
<1>o. Ordered(cvar_in_use, cvar_arr_size, open_cvar_idx)
  BY DEF CvarTableOK
<1>g. CvarTable!AfterGrowth = cvar_in_use
  BY <1>o, GrowthCopiesAll DEF CvarTable!AfterGrowth, CvarTable!Full
<1>1. ASSUME NEW c, CvarTable!New(c)
      PROVE  /\ CvarTableOK'
             /\ c \notin cvar_in_use /\ cvar_in_use' = cvar_in_use \union {c}
  <2>1. /\ c = open_cvar_idx /\ cvar_in_use' = cvar_in_use \union {open_cvar_idx}
        /\ cvar_arr_size' = CvarTable!GrownSize /\ CvarTable!GrownSize <= MAX_ARR_SIZE
    BY <1>1, <1>g DEF CvarTable!New
  <2>2. CvarTable!GrownSize = IF open_cvar_idx >= cvar_arr_size
                              THEN 2 * cvar_arr_size ELSE cvar_arr_size
    BY DEF CvarTable!GrownSize, CvarTable!Full
  <2>3. CvarTable!ScanEndsAt(open_cvar_idx', open_cvar_idx, cvar_in_use', cvar_arr_size')
    BY <1>1, <2>1 DEF CvarTable!New
  <2>4. Ordered(cvar_in_use', cvar_arr_size', open_cvar_idx')
    BY <1>o, <2>1, <2>2, <2>3, CreationOrdered DEF CvarTable!ScanEndsAt
  <2>5. c \notin cvar_in_use
    BY <1>o, <2>1 DEF Ordered
  <2> QED BY <2>1, <2>4, <2>5 DEF CvarTableOK
<1>2. ASSUME NEW c, CvarTable!Delete(c)
      PROVE  /\ CvarTableOK'
             /\ c \in cvar_in_use /\ cvar_in_use' = cvar_in_use \ {c}
  <2>1. c \in cvar_in_use /\ open_cvar_idx' = IF c < open_cvar_idx THEN c ELSE open_cvar_idx
    BY <1>2 DEF CvarTable!Delete, CvarTable!DeleteInPlace, CvarTable!DeleteAndShrink
  <2>2. CASE CvarTable!DeleteInPlace(c)
    <3>1. cvar_in_use' = cvar_in_use \ {c} /\ cvar_arr_size' = cvar_arr_size
      BY <2>2 DEF CvarTable!DeleteInPlace
    <3> QED BY <1>o, <2>1, <3>1, DeletionOrdered DEF CvarTableOK
  <2>3. CASE CvarTable!DeleteAndShrink(c)
    <3>1. /\ cvar_in_use' = (cvar_in_use \ {c}) \intersect 0..(cvar_arr_size \div 2 - 1)
          /\ \A j \in (cvar_arr_size \div 2)..(cvar_arr_size - 1) : j \notin cvar_in_use \ {c}
          /\ open_cvar_idx' < cvar_arr_size \div 2
          /\ cvar_arr_size' = cvar_arr_size \div 2
      BY <2>3 DEF CvarTable!DeleteAndShrink
    <3>2. /\ (cvar_in_use \ {c}) \intersect 0..(cvar_arr_size \div 2 - 1) = cvar_in_use \ {c}
          /\ Ordered(cvar_in_use \ {c}, cvar_arr_size \div 2, open_cvar_idx')
      BY <1>o, <2>1, <3>1, DeletionOrdered
    <3> QED BY <2>1, <3>1, <3>2 DEF CvarTableOK
  <2> QED BY <1>2, <2>2, <2>3 DEF CvarTable!Delete
<1>4. UNCHANGED cvar_table => CvarTableOK'
  BY <1>o DEF cvar_table, CvarTableOK
<1> QED BY <1>1, <1>2, <1>4

\* Both tables are in order.
TablesOK == LockTableOK /\ CvarTableOK

\* At first both tables are empty.
LEMMA InitTables == Init => TablesOK
BY SyncAssumption DEF Init, init_sync, TablesOK, LockTable!TableInit, CvarTable!TableInit,
   LockTableOK, CvarTableOK, Ordered

\* Every step keeps both tables in order.
LEMMA NextTables == TablesOK /\ [Next]_vars => TablesOK'
<1> SUFFICES ASSUME TablesOK, [Next]_vars PROVE TablesOK'
  OBVIOUS
<1>t. LockTableOK /\ CvarTableOK
  BY DEF TablesOK
<1>s. UNCHANGED <<lock_table, cvar_table>> => TablesOK'
  BY <1>t, LockTableSteps, CvarTableSteps DEF TablesOK
<1>1. ASSUME UNCHANGED cvar_table,
             \/ \E l \in Id : LockTable!New(l) \/ LockTable!Delete(l)
             \/ LockTable!NewFails
      PROVE  TablesOK'
  BY <1>1, <1>t, LockTableSteps, CvarTableSteps DEF TablesOK
<1>2. ASSUME UNCHANGED lock_table,
             \E c \in Id : CvarTable!New(c) \/ CvarTable!Delete(c)
      PROVE  TablesOK'
  BY <1>2, <1>t, LockTableSteps, CvarTableSteps DEF TablesOK
<1>3. CASE Next
  <2>1. ASSUME NEW cap \in {1} \union Capacity, LockInit(cap) PROVE TablesOK'
    BY <1>1, <2>1 DEF LockInit
  <2>2. CASE LockInitFails
    BY <1>1, <2>2 DEF LockInitFails
  <2>3. CASE CvarInit
    BY <1>2, <2>3 DEF CvarInit
  <2>4. ASSUME NEW l \in Id, delete_lock(l) PROVE TablesOK'
    BY <1>1, <2>4 DEF delete_lock
  <2>5. ASSUME NEW c \in Id, delete_cvar(c) PROVE TablesOK'
    BY <1>2, <2>5 DEF delete_cvar
  <2>6. ASSUME NEW l \in Id, Acquire(l) \/ Release(l) PROVE TablesOK'
    BY <1>s, <2>6 DEF Acquire, Release
  <2>7. ASSUME NEW c \in Id, NEW l \in Id, CvarWait(c, l) PROVE TablesOK'
    BY <1>s, <2>7 DEF CvarWait
  <2>8. ASSUME NEW c \in Id, CvarSignal(c) \/ CvarBroadcast(c) \/ BroadcastStep(c)
        PROVE  TablesOK'
    BY <1>s, <2>8 DEF CvarSignal, CvarBroadcast, BroadcastStep, WakeOne
  <2>9. CASE KernelExit \/ trap_clock_handler
    BY <1>s, <2>9 DEF KernelExit, trap_clock_handler
  <2> QED BY <1>3, <2>1, <2>2, <2>3, <2>4, <2>5, <2>6, <2>7, <2>8, <2>9 DEF Next
<1>4. CASE UNCHANGED vars
  BY <1>s, <1>4 DEF vars
<1> QED BY <1>3, <1>4

\* Both tables stay in order whatever the kernel does: no new lock or
\* condition variable is put over one that is in use.
THEOREM TablesStayOrdered ==
  Spec => [](LockTable!OpenIsLowestUnused /\ CvarTable!OpenIsLowestUnused)
<1>1. TablesOK => LockTable!OpenIsLowestUnused /\ CvarTable!OpenIsLowestUnused
  BY OrderedMeans DEF TablesOK
<1> QED BY <1>1, InitTables, NextTables, PTL DEF Spec
-----------------------------------------------------------------------------
(* Who needs a lock *)

\* The processes asleep on a condition variable, and those on a lock's queue.
Asleep == {p \in Proc : \E c \in Id : p \in Range(cvars[c])}
Blocked == {p \in Proc : \E l \in Id : p \in Range(locks[l].queue)}

\* A lock's holders and its queue, which acquire and release change.
Users(k) == Cardinality(k.pids) + Len(k.queue)

\* needed_by is exact, also for entries that are not in use.
CountInv ==
  \A l \in Id : locks[l].needed_by = Users(locks[l]) + Cardinality(CvarWaiters(l))

\* An entry that is not in use has nobody.
Blank(k) == k.pids = {} /\ k.queue = <<>> /\ k.needed_by = 0
UnusedInv ==
  /\ \A l \in Id \ lock_in_use : Blank(locks[l])
  /\ \A c \in Id \ cvar_in_use : cvars[c] = <<>>

\* Nobody sleeps on a condition variable with the lock it will need.
SleepInv == \A p \in Asleep : p \notin locks[cvar_lock_id[p]].pids

\* What the separate queues mean for the variables.
LEMMA SeparateFacts ==
  ASSUME TypeOK, SepInv
  PROVE  /\ \A l \in Id : /\ IsInjective(locks[l].queue)
                          /\ running \notin Range(locks[l].queue)
                          /\ Range(locks[l].queue) \intersect Range(main_queue) = {}
         /\ \A c \in Id : /\ IsInjective(cvars[c])
                          /\ running \notin Range(cvars[c])
                          /\ Range(cvars[c]) \intersect Range(main_queue) = {}
         /\ IsInjective(main_queue) /\ running \notin Range(main_queue)
         /\ \A c, l \in Id : Range(cvars[c]) \intersect Range(locks[l].queue) = {}
         /\ \A c, d \in Id : c # d => Range(cvars[c]) \intersect Range(cvars[d]) = {}
         /\ \A l, m \in Id :
              l # m => Range(locks[l].queue) \intersect Range(locks[m].queue) = {}
<1>q. /\ main \in QueueName /\ Queues[main] = main_queue
      /\ \A l \in Id : lockq(l) \in QueueName /\ Queues[lockq(l)] = locks[l].queue
      /\ \A c \in Id : cvarq(c) \in QueueName /\ Queues[cvarq(c)] = cvars[c]
  BY QueuesOfState
<1>d. /\ \A l \in Id : lockq(l) # main
      /\ \A c \in Id : cvarq(c) # main
      /\ \A c, l \in Id : cvarq(c) # lockq(l)
      /\ \A l, m \in Id : l # m => lockq(l) # lockq(m) /\ cvarq(l) # cvarq(m)
  BY DEF main, lockq, cvarq
<1>s. /\ \A k \in QueueName : IsInjective(Queues[k]) /\ running \notin Range(Queues[k])
      /\ \A k, j \in QueueName : k # j => Range(Queues[k]) \intersect Range(Queues[j]) = {}
  BY DEF SepInv, Separate
<1>1. ASSUME NEW l \in Id
      PROVE  /\ IsInjective(locks[l].queue) /\ running \notin Range(locks[l].queue)
             /\ Range(locks[l].queue) \intersect Range(main_queue) = {}
  BY <1>q, <1>d, <1>s
<1>2. ASSUME NEW c \in Id
      PROVE  /\ IsInjective(cvars[c]) /\ running \notin Range(cvars[c])
             /\ Range(cvars[c]) \intersect Range(main_queue) = {}
  BY <1>q, <1>d, <1>s
<1>3. IsInjective(main_queue) /\ running \notin Range(main_queue)
  BY <1>q, <1>s
<1>4. ASSUME NEW c \in Id, NEW l \in Id
      PROVE  Range(cvars[c]) \intersect Range(locks[l].queue) = {}
  BY <1>q, <1>d, <1>s
<1>5. ASSUME NEW c \in Id, NEW d \in Id, c # d
      PROVE  Range(cvars[c]) \intersect Range(cvars[d]) = {}
  <2>1. cvarq(c) # cvarq(d)
    BY <1>d, <1>5
  <2> QED BY <1>q, <1>s, <2>1
<1>6. ASSUME NEW l \in Id, NEW m \in Id, l # m
      PROVE  Range(locks[l].queue) \intersect Range(locks[m].queue) = {}
  <2>1. lockq(l) # lockq(m)
    BY <1>d, <1>6
  <2> QED BY <1>q, <1>s, <2>1
<1> QED BY <1>1, <1>2, <1>3, <1>4, <1>5, <1>6

\* The sleepers that need a lock are finitely many.
LEMMA WaitersFinite ==
  ASSUME NEW l
  PROVE  IsFiniteSet(CvarWaiters(l)) /\ Cardinality(CvarWaiters(l)) \in Nat
<1>1. CvarWaiters(l) \subseteq Proc
  BY DEF CvarWaiters
<1> QED BY <1>1, SyncAssumption, FS_Subset, FS_CardinalityType

\* The users of a lock are a natural number.
LEMMA UsersType ==
  ASSUME NEW k \in Lock
  PROVE  /\ IsFiniteSet(k.pids) /\ Cardinality(k.pids) \in Nat
         /\ Len(k.queue) \in Nat /\ Users(k) \in Nat
<1>1. k.pids \subseteq Proc /\ k.queue \in Seq(Proc)
  BY DEF Lock
<1>2. IsFiniteSet(k.pids) /\ Cardinality(k.pids) \in Nat
  BY <1>1, SyncAssumption, FS_Subset, FS_CardinalityType
<1>3. Len(k.queue) \in Nat
  BY <1>1
<1> QED BY <1>2, <1>3 DEF Users

\* A successful or blocking acquire adds one user.
LEMMA AcquiredUsers ==
  ASSUME locks \in [Id -> Lock], NEW l \in Id, NEW p \in Proc, NEW u \in BOOLEAN,
         CanAcquire(l, p)
  PROVE  /\ Users(Acquired(l, p, u)) = Users(locks[l]) + 1
         /\ Acquired(l, p, u).needed_by = Needed(l, 1, u)
         /\ Acquired(l, p, u).pids = IF locks[l].val > 0 THEN locks[l].pids \union {p}
                                     ELSE locks[l].pids
<1> DEFINE k == locks[l]
           a == Acquired(l, p, u)
<1>t. k \in Lock /\ k.queue \in Seq(Proc)
  BY DEF Lock
<1>u. /\ IsFiniteSet(k.pids) /\ Cardinality(k.pids) \in Nat
      /\ Len(k.queue) \in Nat
  BY <1>t, UsersType
<1>1. CASE k.val > 0
  <2>1. a.pids = k.pids \union {p} /\ a.queue = k.queue /\ a.needed_by = Needed(l, 1, u)
    BY <1>t, <1>1 DEF Acquired, Lock
  <2>2. Cardinality(k.pids \union {p}) = Cardinality(k.pids) + 1
    BY <1>u, FS_AddElement DEF CanAcquire
  <2> QED BY <1>1, <1>u, <2>1, <2>2 DEF Users
<1>2. CASE ~(k.val > 0)
  <2>1. a.pids = k.pids /\ a.queue = Append(k.queue, p) /\ a.needed_by = Needed(l, 1, u)
    BY <1>t, <1>2 DEF Acquired, Lock
  <2>2. Len(Append(k.queue, p)) = Len(k.queue) + 1
    BY <1>t
  <2> QED BY <1>2, <1>u, <2>1, <2>2 DEF Users
<1> QED BY <1>1, <1>2

\* release takes one user off the lock, whether or not it hands the lock over.
LEMMA ReleasedUsers ==
  ASSUME locks \in [Id -> Lock], NEW l \in Id, NEW p \in locks[l].pids, NEW u \in BOOLEAN,
         LockOK(locks[l])
  PROVE  /\ Users(Released(l, p, u)) = Users(locks[l]) - 1
         /\ Released(l, p, u).needed_by = Needed(l, -1, u)
         /\ Released(l, p, u).pids =
              IF locks[l].queue = <<>> THEN locks[l].pids \ {p}
              ELSE (locks[l].pids \ {p}) \union {Head(locks[l].queue)}
<1> DEFINE k == locks[l]
           a == Released(l, p, u)
<1>t. k \in Lock /\ k.queue \in Seq(Proc)
  BY DEF Lock
<1>u. /\ IsFiniteSet(k.pids) /\ Cardinality(k.pids) \in Nat
      /\ Len(k.queue) \in Nat
  BY <1>t, UsersType
<1>f. IsFiniteSet(k.pids \ {p}) /\ Cardinality(k.pids \ {p}) = Cardinality(k.pids) - 1
  BY <1>u, FS_RemoveElement
<1>1. CASE k.queue = <<>>
  <2>1. a.pids = k.pids \ {p} /\ a.queue = k.queue /\ a.needed_by = Needed(l, -1, u)
    BY <1>t, <1>1 DEF Released, Lock
  <2> QED BY <1>1, <1>u, <1>f, <2>1 DEF Users
<1>2. CASE k.queue # <<>>
  <2> DEFINE h == Head(k.queue)
  <2>1. /\ a.pids = (k.pids \ {p}) \union {h} /\ a.queue = Tail(k.queue)
        /\ a.needed_by = Needed(l, -1, u)
    BY <1>t, <1>2 DEF Released, Lock
  <2>2. Len(Tail(k.queue)) = Len(k.queue) - 1
    BY <1>t, <1>2
  <2>3. h \notin k.pids
    <3>1. h \in Range(k.queue)
      BY <1>t, <1>2, TailFacts
    <3> QED BY <3>1 DEF LockOK
  <2>4. Cardinality((k.pids \ {p}) \union {h}) = Cardinality(k.pids)
    <3>1. Cardinality((k.pids \ {p}) \union {h}) = Cardinality(k.pids \ {p}) + 1
      BY <1>f, <2>3, FS_AddElement
    <3> QED BY <1>f, <1>u, <3>1
  <2> QED BY <1>2, <1>u, <2>1, <2>2, <2>4 DEF Users
<1> QED BY <1>1, <1>2

\* A process that goes to sleep needs its lock, and nobody else's changes.
LEMMA GoesToSleep ==
  ASSUME TypeOK, SepInv, NEW c \in Id, NEW l \in Id, running \in Proc,
         cvars' = [cvars EXCEPT ![c] = Append(@, running)],
         cvar_lock_id' = [cvar_lock_id EXCEPT ![running] = l]
  PROVE  /\ running \notin Asleep /\ Asleep' = Asleep \union {running}
         /\ running \notin CvarWaiters(l)
         /\ CvarWaiters(l)' = CvarWaiters(l) \union {running}
         /\ \A m \in Id \ {l} : CvarWaiters(m)' = CvarWaiters(m)
<1>t. cvars \in [Id -> Seq(Proc)] /\ cvar_lock_id \in [Proc -> Id]
  BY DEF TypeOK
<1>1. \A d \in Id : running \notin Range(cvars[d])
  BY SeparateFacts
<1>2. /\ Range(cvars'[c]) = Range(cvars[c]) \union {running}
      /\ \A d \in Id : d # c => cvars'[d] = cvars[d]
  BY <1>t, AppendFacts
<1>3. running \notin Asleep /\ running \notin CvarWaiters(l)
  BY <1>1 DEF Asleep, CvarWaiters
<1>4. ASSUME NEW p \in Proc
      PROVE  (\E d \in Id : p \in Range(cvars'[d]))
               <=> (p = running \/ \E d \in Id : p \in Range(cvars[d]))
  BY <1>2
<1>5. Asleep' = Asleep \union {running}
  BY <1>4 DEF Asleep
<1>6. \A p \in Proc : p # running => cvar_lock_id'[p] = cvar_lock_id[p]
  BY <1>t
<1>7. cvar_lock_id'[running] = l
  BY <1>t
<1>8. \A m : CvarWaiters(m)' =
                {p \in Proc : cvar_lock_id'[p] = m /\ \E d \in Id : p \in Range(cvars'[d])}
  BY DEF CvarWaiters
<1>9. CvarWaiters(l)' = CvarWaiters(l) \union {running}
  BY <1>4, <1>6, <1>7, <1>8 DEF CvarWaiters
<1>10. ASSUME NEW m \in Id \ {l} PROVE CvarWaiters(m)' = CvarWaiters(m)
  BY <1>1, <1>4, <1>6, <1>7, <1>8 DEF CvarWaiters
<1> QED BY <1>3, <1>5, <1>9, <1>10

\* The process that is woken no longer counts as asleep.
LEMMA WakesUp ==
  ASSUME TypeOK, SepInv, NEW c \in Id, cvars[c] # <<>>,
         cvars' = [cvars EXCEPT ![c] = Tail(@)], cvar_lock_id' = cvar_lock_id,
         NEW p, p = Head(cvars[c]), NEW l, l = cvar_lock_id[p]
  PROVE  /\ p \in Proc /\ l \in Id
         /\ p \in Asleep /\ Asleep' = Asleep \ {p}
         /\ p \in CvarWaiters(l) /\ CvarWaiters(l)' = CvarWaiters(l) \ {p}
         /\ \A m \in Id \ {l} : CvarWaiters(m)' = CvarWaiters(m)
<1>t. cvars \in [Id -> Seq(Proc)] /\ cvar_lock_id \in [Proc -> Id]
  BY DEF TypeOK
<1>1. /\ p \in Proc /\ p \in Range(cvars[c])
      /\ p \notin Range(cvars'[c])
      /\ \A x : x # p => (x \in Range(cvars'[c]) <=> x \in Range(cvars[c]))
      /\ \A d \in Id : d # c => cvars'[d] = cvars[d]
  <2>1. cvars[c] \in Seq(Proc) /\ cvars'[c] = Tail(cvars[c])
    BY <1>t
  <2>2. IsInjective(cvars[c])
    BY SeparateFacts
  <2>3. /\ p \in Proc /\ p \in Range(cvars[c]) /\ p \notin Range(Tail(cvars[c]))
        /\ Range(Tail(cvars[c])) \subseteq Range(cvars[c])
        /\ Range(cvars[c]) \subseteq Range(Tail(cvars[c])) \union {p}
    BY <2>1, <2>2, TailFacts
  <2>4. \A d \in Id : d # c => cvars'[d] = cvars[d]
    BY <1>t
  <2> QED BY <2>1, <2>3, <2>4
<1>2. l \in Id
  BY <1>t, <1>1
<1>3. \A d \in Id : d # c => p \notin Range(cvars[d])
  BY <1>1, SeparateFacts
<1>4. ASSUME NEW x \in Proc
      PROVE  (\E d \in Id : x \in Range(cvars'[d]))
               <=> (x # p /\ \E d \in Id : x \in Range(cvars[d]))
  <2>1. CASE x = p
    BY <1>1, <1>3, <2>1
  <2>2. CASE x # p
    BY <1>1, <2>2
  <2> QED BY <2>1, <2>2
<1>5. p \in Asleep /\ Asleep' = Asleep \ {p}
  BY <1>1, <1>4 DEF Asleep
<1>6. \A m : CvarWaiters(m)' =
                {x \in Proc : cvar_lock_id[x] = m /\ \E d \in Id : x \in Range(cvars'[d])}
  BY DEF CvarWaiters
<1>7. \A m : CvarWaiters(m)' = CvarWaiters(m) \ {p}
  BY <1>4, <1>6 DEF CvarWaiters
<1>8. p \in CvarWaiters(l)
  BY <1>1 DEF CvarWaiters
<1>9. ASSUME NEW m \in Id \ {l} PROVE p \notin CvarWaiters(m)
  BY DEF CvarWaiters
<1>10. ASSUME NEW m \in Id \ {l} PROVE CvarWaiters(m)' = CvarWaiters(m)
  BY <1>7, <1>9
<1> QED BY <1>1, <1>2, <1>5, <1>7, <1>8, <1>10

\* A process asleep on a condition variable can always get its lock back, or
\* queue for it: delete_lock has refused to reclaim it.
LEMMA SleeperCanAcquire ==
  ASSUME TypeOK, UnusedInv, CountInv, SleepInv, NEW p \in Asleep,
         NEW l, l = cvar_lock_id[p]
  PROVE  l \in Id /\ CanAcquire(l, p)
<1>1. p \in Proc /\ l \in Id /\ locks[l] \in Lock
  BY DEF TypeOK, Asleep
<1>2. p \in CvarWaiters(l)
  BY DEF Asleep, CvarWaiters
<1>3. Cardinality(CvarWaiters(l)) \in Nat \ {0}
  BY <1>2, WaitersFinite, FS_EmptySet
<1>4. Users(locks[l]) \in Nat
  BY <1>1, UsersType
<1>5. locks[l].needed_by = Users(locks[l]) + Cardinality(CvarWaiters(l))
  BY <1>1 DEF CountInv
<1>6. locks[l].needed_by # 0
  BY <1>3, <1>4, <1>5
<1>7. l \in lock_in_use
  BY <1>1, <1>6 DEF UnusedInv, Blank
<1>8. p \notin locks[l].pids
  BY DEF SleepInv
<1> QED BY <1>1, <1>7, <1>8 DEF CanAcquire

\* Two states of a lock with the same users.
SameUse(k, j) == j.pids = k.pids /\ j.queue = k.queue /\ j.needed_by = k.needed_by

\* A lock that nobody needs, as delete_lock requires it, has nobody.
LEMMA UnneededIsBlank ==
  ASSUME TypeOK, CountInv, NEW l \in Id, locks[l].needed_by <= 0
  PROVE  Blank(locks[l])
<1>1. locks[l] \in Lock /\ locks[l].queue \in Seq(Proc)
  BY DEF TypeOK, Lock
<1>2. /\ IsFiniteSet(locks[l].pids) /\ Cardinality(locks[l].pids) \in Nat
      /\ Len(locks[l].queue) \in Nat
  BY <1>1, UsersType
<1>3. Cardinality(CvarWaiters(l)) \in Nat
  BY WaitersFinite
<1>4. locks[l].needed_by =
        Cardinality(locks[l].pids) + Len(locks[l].queue) + Cardinality(CvarWaiters(l))
  BY DEF CountInv, Users
<1>5. Cardinality(locks[l].pids) = 0 /\ Len(locks[l].queue) = 0 /\ locks[l].needed_by = 0
  BY <1>2, <1>3, <1>4
<1>6. locks[l].pids = {}
  BY <1>2, <1>5, FS_EmptySet
<1>7. locks[l].queue = <<>>
  BY <1>1, <1>5
<1> QED BY <1>5, <1>6, <1>7 DEF Blank

\* An object is created on an unused entry, and reclaimed when nobody needs
\* it: neither changes a queue, a holder or a count.
LEMMA CreationIsQuiet ==
  ASSUME TypeOK, TablesOK, UnusedInv, CountInv
  PROVE  /\ \A cap \in {1} \union Capacity : LockInit(cap) =>
              (\A l \in Id : SameUse(locks[l], locks'[l])) /\ UnusedInv'
         /\ CvarInit => cvars' = cvars /\ UnusedInv'
         /\ \A m \in Id : delete_lock(m) =>
              (\A l \in Id : SameUse(locks[l], locks'[l])) /\ UnusedInv'
         /\ \A c \in Id : delete_cvar(c) => UnusedInv'
         /\ LockInitFails => UnusedInv'
<1>t. /\ locks \in [Id -> Lock] /\ cvars \in [Id -> Seq(Proc)]
      /\ LockTableOK /\ CvarTableOK
  BY DEF TypeOK, TablesOK
<1>b. \A cap : Blank(NewLock(cap))
  BY DEF Blank, NewLock
<1>n. ASSUME NEW m \in Id, NEW k, Blank(locks[m]), Blank(k), locks' = [locks EXCEPT ![m] = k]
      PROVE  \A l \in Id : SameUse(locks[l], locks'[l])
  BY <1>n, <1>t DEF SameUse, Blank
<1>u. ASSUME \A l \in Id : SameUse(locks[l], locks'[l]),
             \A l \in Id : l \notin lock_in_use' => Blank(locks[l]),
             UNCHANGED <<cvars, cvar_table>>
      PROVE  UnusedInv'
  BY <1>u DEF UnusedInv, SameUse, Blank, cvar_table
<1>1. ASSUME NEW cap \in {1} \union Capacity, LockInit(cap)
      PROVE  (\A l \in Id : SameUse(locks[l], locks'[l])) /\ UnusedInv'
  <2>1. PICK m \in Id : LockTable!New(m) /\ locks' = [locks EXCEPT ![m] = NewLock(cap)]
    BY <1>1 DEF LockInit
  <2>2. m \notin lock_in_use /\ lock_in_use' = lock_in_use \union {m}
    BY <1>t, <2>1, LockTableSteps
  <2>3. \A l \in Id : SameUse(locks[l], locks'[l])
    BY <1>b, <1>n, <2>1, <2>2 DEF UnusedInv
  <2>4. \A l \in Id : l \notin lock_in_use' => Blank(locks[l])
    BY <2>2 DEF UnusedInv
  <2> QED BY <1>1, <1>u, <2>3, <2>4 DEF LockInit
<1>2. ASSUME CvarInit PROVE cvars' = cvars /\ UnusedInv'
  <2>1. PICK c \in Id : CvarTable!New(c) /\ cvars' = [cvars EXCEPT ![c] = <<>>]
    BY <1>2 DEF CvarInit
  <2>2. c \notin cvar_in_use /\ cvar_in_use' = cvar_in_use \union {c}
    BY <1>t, <2>1, CvarTableSteps
  <2>3. cvars[c] = <<>>
    BY <2>2 DEF UnusedInv
  <2>4. cvars' = cvars
    BY <1>t, <2>1, <2>3
  <2> QED BY <1>2, <2>2, <2>4 DEF UnusedInv, CvarInit, lock_table
<1>3. ASSUME NEW m \in Id, delete_lock(m)
      PROVE  (\A l \in Id : SameUse(locks[l], locks'[l])) /\ UnusedInv'
  <2>1. LockTable!Delete(m) /\ locks' = [locks EXCEPT ![m] = NewLock(0)]
    BY <1>3 DEF delete_lock
  <2>2. lock_in_use' = lock_in_use \ {m}
    BY <1>t, <2>1, LockTableSteps
  <2>3. Blank(locks[m])
    BY <1>3, UnneededIsBlank DEF delete_lock
  <2>4. \A l \in Id : SameUse(locks[l], locks'[l])
    BY <1>b, <1>n, <2>1, <2>3
  <2>5. \A l \in Id : l \notin lock_in_use' => Blank(locks[l])
    BY <2>2, <2>3 DEF UnusedInv
  <2> QED BY <1>3, <1>u, <2>4, <2>5 DEF delete_lock
<1>4. ASSUME NEW c \in Id, delete_cvar(c) PROVE UnusedInv'
  <2>1. cvar_in_use' = cvar_in_use \ {c} /\ cvars[c] = <<>>
    BY <1>4, <1>t, CvarTableSteps DEF delete_cvar
  <2> QED BY <1>4, <2>1 DEF UnusedInv, delete_cvar, lock_table
<1>5. ASSUME LockInitFails PROVE UnusedInv'
  <2>1. lock_in_use' = lock_in_use
    BY <1>5, <1>t, LockTableSteps DEF LockInitFails
  <2> QED BY <1>5, <2>1 DEF UnusedInv, LockInitFails, cvar_table
<1> QED BY <1>1, <1>2, <1>3, <1>4, <1>5

NeedInv == TablesOK /\ UnusedInv /\ CountInv /\ SleepInv

\* At first nobody needs anything.
LEMMA InitNeeds == Init => NeedInv
<1> SUFFICES ASSUME Init PROVE NeedInv
  OBVIOUS
<1>1. \A l \in Id : locks[l] = NewLock(0)
  BY DEF Init, init_sync
<1>2. \A c \in Id : cvars[c] = <<>> /\ Range(cvars[c]) = {}
  BY DEF Init, init_sync, Range
<1>3. UnusedInv
  BY <1>1, <1>2 DEF UnusedInv, Blank, NewLock
<1>4. Asleep = {} /\ \A l \in Id : CvarWaiters(l) = {}
  BY <1>2 DEF Asleep, CvarWaiters
<1>5. ASSUME NEW l \in Id
      PROVE  locks[l].needed_by = Users(locks[l]) + Cardinality(CvarWaiters(l))
  <2>1. locks[l].needed_by = 0 /\ locks[l].pids = {} /\ Len(locks[l].queue) = 0
    BY <1>1 DEF NewLock
  <2>2. Cardinality(locks[l].pids) = 0 /\ Cardinality(CvarWaiters(l)) = 0
    BY <1>4, <2>1, FS_EmptySet
  <2> QED BY <2>1, <2>2 DEF Users
<1> QED BY <1>3, <1>4, <1>5, InitTables DEF NeedInv, CountInv, SleepInv

\* A step that changes one lock and nobody's sleep.
LEMMA OneLockChanges ==
  ASSUME TypeOK, CountInv, SleepInv, NEW l \in Id, NEW k,
         locks' = [locks EXCEPT ![l] = k], UNCHANGED <<cvars, cvar_lock_id>>,
         k.needed_by = Users(k) + Cardinality(CvarWaiters(l)),
         \A p \in Asleep : p \in k.pids => p \in locks[l].pids
  PROVE  CountInv' /\ SleepInv'
<1>1. \A m \in Id : CvarWaiters(m)' = CvarWaiters(m)
  BY DEF CvarWaiters
<1>2. Asleep' = Asleep
  BY DEF Asleep
<1>3. locks'[l] = k /\ \A m \in Id : m # l => locks'[m] = locks[m]
  BY DEF TypeOK
<1>4. CountInv'
  BY <1>1, <1>3 DEF CountInv
<1>5. SleepInv'
  <2>1. ASSUME NEW p \in Asleep PROVE p \notin locks'[cvar_lock_id[p]].pids
    <3>1. cvar_lock_id[p] \in Id
      BY DEF TypeOK, Asleep
    <3> QED BY <1>3, <3>1 DEF SleepInv
  <2> QED BY <1>2, <2>1 DEF SleepInv
<1> QED BY <1>4, <1>5

\* CvarWait: the sleeper goes on needing the lock that it gives up.
LEMMA WaitKeepsNeeds ==
  ASSUME IInv, CountInv, SleepInv, NEW c \in Id, NEW l \in Id, CvarWait(c, l)
  PROVE  CountInv' /\ SleepInv'
<1>t. /\ TypeOK /\ SepInv /\ locks \in [Id -> Lock] /\ LockOK(locks[l])
      /\ cvar_lock_id \in [Proc -> Id]
  BY DEF IInv, TypeOK, PermitInv
<1> DEFINE k == Released(l, running, TRUE)
<1>1. /\ running \in Proc /\ running \in locks[l].pids
      /\ locks' = [locks EXCEPT ![l] = k]
      /\ cvars' = [cvars EXCEPT ![c] = Append(@, running)]
      /\ cvar_lock_id' = [cvar_lock_id EXCEPT ![running] = l]
  BY DEF CvarWait, Trap, UserRuns, CanRelease
<1>2. /\ running \notin Asleep /\ Asleep' = Asleep \union {running}
      /\ running \notin CvarWaiters(l)
      /\ CvarWaiters(l)' = CvarWaiters(l) \union {running}
      /\ \A m \in Id \ {l} : CvarWaiters(m)' = CvarWaiters(m)
  BY <1>t, <1>1, GoesToSleep
<1>3. /\ Users(k) = Users(locks[l]) - 1
      /\ k.needed_by = Needed(l, -1, TRUE)
      /\ k.pids = IF locks[l].queue = <<>> THEN locks[l].pids \ {running}
                  ELSE (locks[l].pids \ {running}) \union {Head(locks[l].queue)}
  BY <1>t, <1>1, ReleasedUsers
<1>4. k.needed_by = locks[l].needed_by
  BY <1>3 DEF Needed
<1>5. locks'[l] = k /\ \A m \in Id : m # l => locks'[m] = locks[m]
  BY <1>t, <1>1
<1>6. Cardinality(CvarWaiters(l)') = Cardinality(CvarWaiters(l)) + 1
  BY <1>2, WaitersFinite, FS_AddElement
<1>7. CountInv'
  <2>1. locks'[l].needed_by = Users(locks'[l]) + Cardinality(CvarWaiters(l)')
    <3>1. locks[l].needed_by = Users(locks[l]) + Cardinality(CvarWaiters(l))
      BY DEF CountInv
    <3>2. Users(locks[l]) \in Nat /\ Cardinality(CvarWaiters(l)) \in Nat
      BY <1>t, UsersType, WaitersFinite
    <3> HIDE DEF k
    <3> QED BY <1>3, <1>4, <1>5, <1>6, <3>1, <3>2
  <2>2. ASSUME NEW m \in Id, m # l
        PROVE  locks'[m].needed_by = Users(locks'[m]) + Cardinality(CvarWaiters(m)')
    BY <1>2, <1>5, <2>2 DEF CountInv
  <2> QED BY <2>1, <2>2 DEF CountInv
<1>8. \A p \in Asleep \union {running} : locks[l].queue # <<>> => p # Head(locks[l].queue)
  <2>1. locks[l].queue # <<>> => Head(locks[l].queue) \in Range(locks[l].queue)
    BY <1>t, TailFacts DEF Lock
  <2> QED BY <1>t, <2>1, SeparateFacts DEF Asleep
<1>9. SleepInv'
  <2>1. ASSUME NEW p \in Asleep PROVE p \notin locks'[cvar_lock_id'[p]].pids
    <3>1. p \in Proc /\ p # running
      BY <1>2 DEF Asleep
    <3>2. cvar_lock_id'[p] = cvar_lock_id[p] /\ cvar_lock_id[p] \in Id
      BY <1>t, <1>1, <3>1
    <3>3. p \notin locks[cvar_lock_id[p]].pids
      BY DEF SleepInv
    <3> HIDE DEF k
    <3>4. CASE cvar_lock_id[p] = l
      <4>1. p \notin k.pids
        BY <1>3, <1>8, <3>1, <3>3, <3>4
      <4> QED BY <1>5, <3>2, <3>4, <4>1
    <3>5. CASE cvar_lock_id[p] # l
      BY <1>5, <3>2, <3>3, <3>5
    <3> QED BY <3>4, <3>5
  <2>2. running \notin locks'[cvar_lock_id'[running]].pids
    <3>1. cvar_lock_id'[running] = l
      BY <1>t, <1>1
    <3> HIDE DEF k
    <3>2. running \notin k.pids
      BY <1>3, <1>8
    <3> QED BY <1>5, <3>1, <3>2
  <2> QED BY <1>2, <2>1, <2>2 DEF SleepInv
<1> QED BY <1>7, <1>9

\* A woken process that gets its lock, or queues for it, needs it as before.
LEMMA WakeKeepsNeeds ==
  ASSUME IInv, UnusedInv, CountInv, SleepInv, NEW c \in Id, WakeOne(c)
  PROVE  CountInv' /\ SleepInv'
<1>t. TypeOK /\ SepInv /\ locks \in [Id -> Lock] /\ cvar_lock_id \in [Proc -> Id]
  BY DEF IInv, TypeOK
<1>0. PICK p, l : p = Head(cvars[c]) /\ l = cvar_lock_id[p]
  OBVIOUS
<1>1. /\ cvars[c] # <<>> /\ cvars' = [cvars EXCEPT ![c] = Tail(@)]
      /\ locks' = [locks EXCEPT ![l] = Acquired(l, p, TRUE)]
      /\ cvar_lock_id' = cvar_lock_id
  BY <1>0 DEF WakeOne
<1>2. /\ p \in Proc /\ l \in Id
      /\ p \in Asleep /\ Asleep' = Asleep \ {p}
      /\ p \in CvarWaiters(l) /\ CvarWaiters(l)' = CvarWaiters(l) \ {p}
      /\ \A m \in Id \ {l} : CvarWaiters(m)' = CvarWaiters(m)
  BY <1>0, <1>1, <1>t, WakesUp
<1>3. CanAcquire(l, p)
  BY <1>0, <1>2, <1>t, SleeperCanAcquire
<1> DEFINE k == Acquired(l, p, TRUE)
<1>4. /\ Users(k) = Users(locks[l]) + 1
      /\ k.needed_by = Needed(l, 1, TRUE)
      /\ k.pids = IF locks[l].val > 0 THEN locks[l].pids \union {p} ELSE locks[l].pids
  BY <1>2, <1>3, <1>t, AcquiredUsers
<1>5. k.needed_by = locks[l].needed_by
  BY <1>4 DEF Needed
<1>6. locks'[l] = k /\ \A m \in Id : m # l => locks'[m] = locks[m]
  BY <1>1, <1>2, <1>t
<1>7. Cardinality(CvarWaiters(l)') = Cardinality(CvarWaiters(l)) - 1
  BY <1>2, WaitersFinite, FS_RemoveElement
<1>8. CountInv'
  <2>1. locks'[l].needed_by = Users(locks'[l]) + Cardinality(CvarWaiters(l)')
    <3>1. locks[l].needed_by = Users(locks[l]) + Cardinality(CvarWaiters(l))
      BY <1>2 DEF CountInv
    <3>2. Users(locks[l]) \in Nat /\ Cardinality(CvarWaiters(l)) \in Nat
      BY <1>2, <1>t, UsersType, WaitersFinite
    <3> HIDE DEF k
    <3> QED BY <1>4, <1>5, <1>6, <1>7, <3>1, <3>2
  <2>2. ASSUME NEW m \in Id, m # l
        PROVE  locks'[m].needed_by = Users(locks'[m]) + Cardinality(CvarWaiters(m)')
    BY <1>2, <1>6, <2>2 DEF CountInv
  <2> QED BY <2>1, <2>2 DEF CountInv
<1>9. SleepInv'
  <2>1. ASSUME NEW x \in Asleep, x # p PROVE x \notin locks'[cvar_lock_id[x]].pids
    <3>1. cvar_lock_id[x] \in Id
      BY <1>t DEF Asleep
    <3>2. x \notin locks[cvar_lock_id[x]].pids
      BY DEF SleepInv
    <3> HIDE DEF k
    <3>3. x \in k.pids => x \in locks[l].pids
      BY <1>4, <2>1
    <3> QED BY <1>6, <3>1, <3>2, <3>3
  <2> QED BY <1>1, <1>2, <2>1 DEF SleepInv
<1> QED BY <1>8, <1>9

\* Every step keeps the counts exact.
LEMMA NextNeeds == IInv /\ NeedInv /\ [Next]_vars => NeedInv'
<1> SUFFICES ASSUME IInv, NeedInv, [Next]_vars PROVE NeedInv'
  OBVIOUS
<1>t. /\ TypeOK /\ SepInv /\ TablesOK /\ UnusedInv /\ CountInv /\ SleepInv
      /\ locks \in [Id -> Lock] /\ \A l \in Id : LockOK(locks[l])
      /\ lock_in_use \subseteq Id
  BY DEF IInv, NeedInv, TypeOK, PermitInv, LockTable!TableTypeOK, LockTable!Entry, Id
<1>b. TablesOK'
  BY <1>t, NextTables
<1>q. ASSUME \A l \in Id : SameUse(locks[l], locks'[l]), UNCHANGED <<cvars, cvar_lock_id>>
      PROVE  CountInv' /\ SleepInv'
  <2>1. \A m \in Id : CvarWaiters(m)' = CvarWaiters(m)
    BY <1>q DEF CvarWaiters
  <2>2. Asleep' = Asleep
    BY <1>q DEF Asleep
  <2>3. \A l \in Id : Users(locks'[l]) = Users(locks[l])
    BY <1>q DEF Users, SameUse
  <2>4. CountInv'
    BY <1>q, <1>t, <2>1, <2>3 DEF CountInv, SameUse
  <2>5. \A p \in Asleep : cvar_lock_id[p] \in Id
    BY <1>t DEF TypeOK, Asleep
  <2>6. SleepInv'
    BY <1>q, <1>t, <2>2, <2>5 DEF SleepInv, SameUse
  <2> QED BY <2>4, <2>6
<1>s. UNCHANGED locks => \A l \in Id : SameUse(locks[l], locks'[l])
  BY DEF SameUse
<1>u. ASSUME NEW l \in lock_in_use, NEW k, locks' = [locks EXCEPT ![l] = k],
             UNCHANGED <<lock_table, cvars, cvar_table>>
      PROVE  UnusedInv'
  BY <1>u, <1>t DEF UnusedInv, lock_table, cvar_table
<1>v. ASSUME UNCHANGED <<locks, lock_table, cvars, cvar_table>> PROVE UnusedInv'
  BY <1>v, <1>t DEF UnusedInv, lock_table, cvar_table
<1>w. ASSUME NEW l \in lock_in_use, NEW k, locks' = [locks EXCEPT ![l] = k],
             NEW c \in cvar_in_use, NEW q, cvars' = [cvars EXCEPT ![c] = q],
             UNCHANGED <<lock_table, cvar_table>>
      PROVE  UnusedInv'
  BY <1>w, <1>t DEF UnusedInv, lock_table, cvar_table, TypeOK
<1>1. ASSUME NEW cap \in {1} \union Capacity, LockInit(cap) PROVE NeedInv'
  BY <1>1, <1>t, <1>b, <1>q, CreationIsQuiet DEF LockInit, NeedInv
<1>2. CASE LockInitFails
  BY <1>2, <1>t, <1>b, <1>q, <1>s, CreationIsQuiet DEF LockInitFails, NeedInv
<1>3. CASE CvarInit
  BY <1>3, <1>t, <1>b, <1>q, <1>s, CreationIsQuiet DEF CvarInit, NeedInv
<1>4. ASSUME NEW l \in Id, delete_lock(l) PROVE NeedInv'
  BY <1>4, <1>t, <1>b, <1>q, CreationIsQuiet DEF delete_lock, NeedInv
<1>5. ASSUME NEW c \in Id, delete_cvar(c) PROVE NeedInv'
  BY <1>5, <1>t, <1>b, <1>q, <1>s, CreationIsQuiet DEF delete_cvar, NeedInv
<1>6. ASSUME NEW l \in Id, Acquire(l) PROVE NeedInv'
  <2> DEFINE k == Acquired(l, running, FALSE)
  <2>1. /\ running \in Proc /\ CanAcquire(l, running) /\ l \in lock_in_use
        /\ locks' = [locks EXCEPT ![l] = k] /\ UNCHANGED <<cvars, cvar_lock_id>>
        /\ UNCHANGED <<lock_table, cvar_table>>
    BY <1>6 DEF Acquire, Trap, UserRuns, CanAcquire
  <2>2. /\ Users(k) = Users(locks[l]) + 1
        /\ k.needed_by = Needed(l, 1, FALSE)
        /\ k.pids = IF locks[l].val > 0 THEN locks[l].pids \union {running}
                    ELSE locks[l].pids
    BY <1>t, <2>1, AcquiredUsers
  <2>3. k.needed_by = locks[l].needed_by + 1
    BY <2>2 DEF Needed
  <2>4. UnusedInv'
    BY <1>u, <2>1
  <2> HIDE DEF k
  <2>5. k.needed_by = Users(k) + Cardinality(CvarWaiters(l))
    <3>1. locks[l].needed_by = Users(locks[l]) + Cardinality(CvarWaiters(l))
      BY <1>t DEF CountInv
    <3>2. Users(locks[l]) \in Nat /\ Cardinality(CvarWaiters(l)) \in Nat
      BY <1>t, UsersType, WaitersFinite
    <3>3. Users(k) = Users(locks[l]) + 1
      BY <2>2
    <3> QED BY <2>3, <3>1, <3>2, <3>3
  <2>6. running \notin Asleep
    BY <1>t, SeparateFacts DEF Asleep
  <2>7. \A p \in Asleep : p \in k.pids => p \in locks[l].pids
    BY <2>2, <2>6
  <2>8. CountInv' /\ SleepInv'
    BY <1>t, <2>1, <2>5, <2>7, OneLockChanges
  <2> QED BY <1>b, <2>4, <2>8 DEF NeedInv
<1>7. ASSUME NEW l \in Id, Release(l) PROVE NeedInv'
  <2> DEFINE k == Released(l, running, FALSE)
  <2>1. /\ running \in locks[l].pids /\ l \in lock_in_use
        /\ locks' = [locks EXCEPT ![l] = k] /\ UNCHANGED <<cvars, cvar_lock_id>>
        /\ UNCHANGED <<lock_table, cvar_table>>
    BY <1>7 DEF Release, CanRelease
  <2>2. /\ Users(k) = Users(locks[l]) - 1
        /\ k.needed_by = Needed(l, -1, FALSE)
        /\ k.pids = IF locks[l].queue = <<>> THEN locks[l].pids \ {running}
                    ELSE (locks[l].pids \ {running}) \union {Head(locks[l].queue)}
    BY <1>t, <2>1, ReleasedUsers
  <2>3. k.needed_by = locks[l].needed_by + (-1)
    BY <2>2 DEF Needed
  <2>4. UnusedInv'
    BY <1>u, <2>1
  <2> HIDE DEF k
  <2>5. k.needed_by = Users(k) + Cardinality(CvarWaiters(l))
    <3>1. locks[l].needed_by = Users(locks[l]) + Cardinality(CvarWaiters(l))
      BY <1>t DEF CountInv
    <3>2. Users(locks[l]) \in Nat /\ Cardinality(CvarWaiters(l)) \in Nat
      BY <1>t, UsersType, WaitersFinite
    <3>3. Users(k) = Users(locks[l]) - 1
      BY <2>2
    <3> QED BY <2>3, <3>1, <3>2, <3>3
  <2>6. locks[l].queue # <<>> => Head(locks[l].queue) \notin Asleep
    <3>1. locks[l].queue # <<>> => Head(locks[l].queue) \in Range(locks[l].queue)
      BY <1>t, TailFacts DEF Lock
    <3> QED BY <1>t, <3>1, SeparateFacts DEF Asleep
  <2>7. \A p \in Asleep : p \in k.pids => p \in locks[l].pids
    BY <2>2, <2>6
  <2>8. CountInv' /\ SleepInv'
    BY <1>t, <2>1, <2>5, <2>7, OneLockChanges
  <2> QED BY <1>b, <2>4, <2>8 DEF NeedInv
<1>8. ASSUME NEW c \in Id, NEW l \in Id, CvarWait(c, l) PROVE NeedInv'
  <2>1. UnusedInv'
    BY <1>8, <1>w DEF CvarWait, CanRelease
  <2> QED BY <1>8, <1>b, <1>t, <2>1, WaitKeepsNeeds DEF NeedInv
<1>9. ASSUME NEW c \in Id, WakeOne(c) PROVE NeedInv'
  <2>0. PICK p, l : p = Head(cvars[c]) /\ l = cvar_lock_id[p]
    OBVIOUS
  <2>1. /\ cvars[c] # <<>> /\ cvars' = [cvars EXCEPT ![c] = Tail(@)]
        /\ locks' = [locks EXCEPT ![l] = Acquired(l, p, TRUE)]
        /\ UNCHANGED <<lock_table, cvar_table, cvar_lock_id>>
    BY <1>9, <2>0 DEF WakeOne
  <2>2. p \in Asleep
    BY <1>t, <2>0, <2>1, WakesUp
  <2>3. l \in lock_in_use
    BY <1>t, <2>0, <2>2, SleeperCanAcquire DEF CanAcquire
  <2>4. c \in cvar_in_use
    BY <1>t, <2>1 DEF UnusedInv
  <2>5. UnusedInv'
    BY <1>w, <2>1, <2>3, <2>4
  <2> QED BY <1>9, <1>b, <1>t, <2>5, WakeKeepsNeeds DEF NeedInv
<1>10. ASSUME NEW c \in Id, CvarSignal(c) \/ CvarBroadcast(c) \/ BroadcastStep(c)
       PROVE  NeedInv'
  BY <1>9, <1>10 DEF CvarSignal, CvarBroadcast, BroadcastStep
<1>11. CASE KernelExit \/ trap_clock_handler
  BY <1>11, <1>b, <1>q, <1>s, <1>v DEF KernelExit, trap_clock_handler, NeedInv
<1>12. CASE UNCHANGED vars
  BY <1>12, <1>b, <1>q, <1>s, <1>v DEF vars, NeedInv
<1> QED
  BY <1>1, <1>2, <1>3, <1>4, <1>5, <1>6, <1>7, <1>8, <1>10, <1>11, <1>12 DEF Next
-----------------------------------------------------------------------------
(* Nobody is lost *)

\* A process has a place exactly as long as it has not exited.
Active == {running} \union Range(main_queue) \union Blocked \union Asleep
AliveInv == \A p \in Proc : p \in Active <=> p \notin exited

\* A context switch loses nobody that was on the main queue.
LEMMA SwitchKeeps ==
  ASSUME NEW q \in Seq(Proc), SwitchToNext(q)
  PROVE  \A p \in Proc : (p = running' \/ p \in Range(main_queue')) <=> p \in Range(q)
<1>1. CASE q = <<>>
  <2>1. running' = Idle /\ main_queue' = q
    BY <1>1 DEF SwitchToNext
  <2> QED BY <2>1, IdleAssumption
<1>2. CASE q # <<>>
  <2>1. running' = Head(q) /\ main_queue' = Tail(q)
    BY <1>2 DEF SwitchToNext
  <2>2. /\ Head(q) \in Range(q) /\ Range(Tail(q)) \subseteq Range(q)
        /\ Range(q) \subseteq Range(Tail(q)) \union {Head(q)}
    BY <1>2, TailFacts
  <2> QED BY <2>1, <2>2
<1> QED BY <1>1, <1>2

\* Who a queue has after schedule_process.
LEMMA ScheduleRange ==
  ASSUME NEW q \in Seq(Proc), NEW p \in Proc \union {Idle}
  PROVE  \A x \in Proc : x \in Range(schedule_process(q, p)) <=> x \in Range(q) \/ x = p
<1>1. CASE p = Idle
  BY <1>1, IdleAssumption DEF schedule_process
<1>2. CASE p \in Proc
  <2>1. schedule_process(q, p) = Append(q, p)
    BY <1>2, IdleAssumption DEF schedule_process
  <2>2. Range(Append(q, p)) = Range(q) \union {p}
    BY <1>2, AppendFacts
  <2> QED BY <2>1, <2>2
<1> QED BY <1>1, <1>2

\* Who is on the main queue, and who on a lock's queue, after release.
LEMMA ReleaseMoves ==
  ASSUME TypeOK, NEW l \in Id, NEW p, NEW u,
         locks' = [locks EXCEPT ![l] = Released(l, p, u)]
  PROVE  /\ Handed(l) \in Seq(Proc)
         /\ \A x \in Proc : x \in Range(Handed(l)) \/ x \in Blocked'
                              <=> x \in Range(main_queue) \/ x \in Blocked
<1>t. /\ locks \in [Id -> Lock] /\ main_queue \in Seq(Proc)
      /\ \A m \in Id : locks[m].queue \in Seq(Proc)
  BY DEF TypeOK, Lock
<1>1. /\ locks'[l].queue = IF locks[l].queue = <<>> THEN locks[l].queue
                           ELSE Tail(locks[l].queue)
      /\ \A m \in Id : m # l => locks'[m] = locks[m]
  BY <1>t, ReleasedQueue
<1>2. CASE locks[l].queue = <<>>
  <2>1. \A m \in Id : locks'[m].queue = locks[m].queue
    BY <1>1, <1>2
  <2>2. Blocked' = Blocked
    BY <2>1 DEF Blocked
  <2> QED BY <1>t, <1>2, <2>2 DEF Handed
<1>3. CASE locks[l].queue # <<>>
  <2> DEFINE h == Head(locks[l].queue)
  <2>1. /\ h \in Proc /\ h \in Range(locks[l].queue)
        /\ Range(locks'[l].queue) \subseteq Range(locks[l].queue)
        /\ Range(locks[l].queue) \subseteq Range(locks'[l].queue) \union {h}
    BY <1>1, <1>3, <1>t, TailFacts
  <2>2. Handed(l) = schedule_process(main_queue, h)
    BY <1>3 DEF Handed
  <2> HIDE DEF h
  <2>3. /\ Handed(l) \in Seq(Proc)
        /\ \A x \in Proc : x \in Range(Handed(l)) <=> x \in Range(main_queue) \/ x = h
    <3>1. schedule_process(main_queue, h) \in Seq(Proc)
      BY <1>t, <2>1, ScheduleType
    <3>2. \A x \in Proc : x \in Range(schedule_process(main_queue, h))
                            <=> x \in Range(main_queue) \/ x = h
      BY <1>t, <2>1, ScheduleRange
    <3> QED BY <2>2, <3>1, <3>2
  <2>4. ASSUME NEW x \in Proc PROVE x \in Blocked' \/ x = h <=> x \in Blocked
    BY <1>1, <2>1 DEF Blocked
  <2> QED BY <2>3, <2>4
<1> QED BY <1>2, <1>3

\* Who is on a lock's queue after an acquire that does not fail.
LEMMA AcquireMoves ==
  ASSUME TypeOK, NEW l \in Id, NEW p \in Proc, NEW u, CanAcquire(l, p),
         locks' = [locks EXCEPT ![l] = Acquired(l, p, u)]
  PROVE  Blocked' = IF locks[l].val > 0 THEN Blocked ELSE Blocked \union {p}
<1>t. /\ locks \in [Id -> Lock]
      /\ \A m \in Id : locks[m].queue \in Seq(Proc)
  BY DEF TypeOK, Lock
<1>1. /\ locks'[l].queue = IF ~(locks[l].val > 0) THEN Append(locks[l].queue, p)
                           ELSE locks[l].queue
      /\ \A m \in Id : m # l => locks'[m] = locks[m]
  BY <1>t, AcquiredQueue
<1>2. CASE locks[l].val > 0
  <2>1. \A m \in Id : locks'[m].queue = locks[m].queue
    BY <1>1, <1>2
  <2> QED BY <1>2, <2>1 DEF Blocked
<1>3. CASE ~(locks[l].val > 0)
  <2>1. Range(locks'[l].queue) = Range(locks[l].queue) \union {p}
    BY <1>1, <1>3, <1>t, AppendFacts
  <2>2. Blocked' = Blocked \union {p}
    BY <1>1, <2>1 DEF Blocked
  <2> QED BY <1>3, <2>2
<1> QED BY <1>2, <1>3

\* At first everybody runs or is on the main queue.
LEMMA InitAlive == Init => AliveInv
BY DEF Init, AliveInv, Active

\* A signal or a round of a broadcast loses nobody.
LEMMA WakeKeepsAlive ==
  ASSUME IInv, NeedInv, NEW c \in Id, WakeOne(c)
  PROVE  \A x \in Proc : x \in Active' <=> x \in Active
<1>t. /\ TypeOK /\ SepInv /\ UnusedInv /\ CountInv /\ SleepInv
      /\ main_queue \in Seq(Proc)
  BY DEF IInv, NeedInv, TypeOK
<1>0. PICK p, l : p = Head(cvars[c]) /\ l = cvar_lock_id[p]
  OBVIOUS
<1>1. /\ cvars[c] # <<>> /\ cvars' = [cvars EXCEPT ![c] = Tail(@)]
      /\ locks' = [locks EXCEPT ![l] = Acquired(l, p, TRUE)]
      /\ cvar_lock_id' = cvar_lock_id /\ running' = running
      /\ main_queue' = IF CanAcquire(l, p) /\ locks[l].val > 0
                       THEN schedule_process(main_queue, p) ELSE main_queue
  BY <1>0 DEF WakeOne
<1>2. p \in Proc /\ l \in Id /\ p \in Asleep /\ Asleep' = Asleep \ {p}
  BY <1>0, <1>1, <1>t, WakesUp
<1>3. CanAcquire(l, p)
  BY <1>0, <1>2, <1>t, SleeperCanAcquire
<1>4. Blocked' = IF locks[l].val > 0 THEN Blocked ELSE Blocked \union {p}
  BY <1>1, <1>2, <1>3, <1>t, AcquireMoves
<1>5. CASE locks[l].val > 0
  <2>1. \A x \in Proc : x \in Range(main_queue') <=> x \in Range(main_queue) \/ x = p
    BY <1>1, <1>2, <1>3, <1>5, <1>t, ScheduleRange
  <2> QED BY <1>1, <1>2, <1>4, <1>5, <2>1 DEF Active
<1>6. CASE ~(locks[l].val > 0)
  BY <1>1, <1>2, <1>4, <1>6 DEF Active
<1> QED BY <1>5, <1>6

\* No step loses a process, and none brings back one that has exited.
LEMMA NextAlive == IInv /\ NeedInv /\ AliveInv /\ [Next]_vars => AliveInv'
<1> SUFFICES ASSUME IInv, NeedInv, AliveInv, [Next]_vars PROVE AliveInv'
  OBVIOUS
<1>t. /\ TypeOK /\ SepInv /\ TablesOK /\ UnusedInv /\ CountInv
      /\ main_queue \in Seq(Proc) /\ running \in Proc \union {Idle}
  BY DEF IInv, NeedInv, TypeOK
<1>s. ASSUME exited' = exited, \A x \in Proc : x \in Active' <=> x \in Active
      PROVE  AliveInv'
  BY <1>s DEF AliveInv
<1>q. ASSUME \A l \in Id : SameUse(locks[l], locks'[l]), UNCHANGED cvars
      PROVE  Blocked' = Blocked /\ Asleep' = Asleep
  BY <1>q DEF Blocked, Asleep, SameUse
<1>r. ASSUME UNCHANGED <<locks, cvars>> PROVE Blocked' = Blocked /\ Asleep' = Asleep
  BY <1>r DEF Blocked, Asleep
<1>c. ASSUME Blocked' = Blocked, Asleep' = Asleep, UNCHANGED <<sched, exited>>
      PROVE  AliveInv'
  <2>1. Active' = Active
    BY <1>c DEF Active, sched
  <2> QED BY <1>c, <1>s, <2>1
<1>1. ASSUME NEW cap \in {1} \union Capacity, LockInit(cap) PROVE AliveInv'
  BY <1>1, <1>t, <1>c, <1>q, CreationIsQuiet DEF LockInit
<1>2. CASE LockInitFails
  BY <1>2, <1>c, <1>r DEF LockInitFails
<1>3. CASE CvarInit
  BY <1>3, <1>t, <1>c, <1>r, CreationIsQuiet DEF CvarInit
<1>4. ASSUME NEW l \in Id, delete_lock(l) PROVE AliveInv'
  BY <1>4, <1>t, <1>c, <1>q, CreationIsQuiet DEF delete_lock
<1>5. ASSUME NEW c \in Id, delete_cvar(c) PROVE AliveInv'
  BY <1>5, <1>c, <1>r DEF delete_cvar
<1>6. ASSUME NEW l \in Id, Acquire(l) PROVE AliveInv'
  <2>1. /\ running \in Proc /\ CanAcquire(l, running)
        /\ locks' = [locks EXCEPT ![l] = Acquired(l, running, FALSE)]
        /\ cvars' = cvars /\ exited' = exited
    BY <1>6 DEF Acquire, Trap, UserRuns
  <2>2. Blocked' = IF locks[l].val > 0 THEN Blocked ELSE Blocked \union {running}
    BY <1>t, <2>1, AcquireMoves
  <2>3. Asleep' = Asleep
    BY <2>1 DEF Asleep
  <2>4. CASE locks[l].val > 0 /\ UNCHANGED sched
    BY <1>c, <2>1, <2>2, <2>3, <2>4
  <2>5. CASE ~(locks[l].val > 0) /\ SwitchToNext(main_queue)
    <3>1. \A p \in Proc : (p = running' \/ p \in Range(main_queue'))
                            <=> p \in Range(main_queue)
      BY <1>t, <2>5, SwitchKeeps
    <3>2. \A x \in Proc : x \in Active' <=> x \in Active
      BY <2>2, <2>3, <2>5, <3>1 DEF Active
    <3> QED BY <1>s, <2>1, <3>2
  <2> QED BY <1>6, <1>t, <2>4, <2>5 DEF Acquire, TypeOK, Lock
<1>7. ASSUME NEW l \in Id, Release(l) PROVE AliveInv'
  <2>1. /\ locks' = [locks EXCEPT ![l] = Released(l, running, FALSE)]
        /\ main_queue' = Handed(l)
        /\ cvars' = cvars /\ exited' = exited /\ running' = running
    BY <1>7 DEF Release
  <2>2. \A x \in Proc : x \in Range(main_queue') \/ x \in Blocked'
                          <=> x \in Range(main_queue) \/ x \in Blocked
    BY <1>t, <2>1, ReleaseMoves
  <2>3. Asleep' = Asleep
    BY <2>1 DEF Asleep
  <2>4. \A x \in Proc : x \in Active' <=> x \in Active
    BY <2>1, <2>2, <2>3 DEF Active
  <2> QED BY <1>s, <2>1, <2>4
<1>8. ASSUME NEW c \in Id, NEW l \in Id, CvarWait(c, l) PROVE AliveInv'
  <2>1. /\ locks' = [locks EXCEPT ![l] = Released(l, running, TRUE)]
        /\ SwitchToNext(Handed(l)) /\ exited' = exited /\ running \in Proc
        /\ cvars' = [cvars EXCEPT ![c] = Append(@, running)]
        /\ cvar_lock_id' = [cvar_lock_id EXCEPT ![running] = l]
    BY <1>8 DEF CvarWait, Trap, UserRuns
  <2>2. /\ Handed(l) \in Seq(Proc)
        /\ \A x \in Proc : x \in Range(Handed(l)) \/ x \in Blocked'
                             <=> x \in Range(main_queue) \/ x \in Blocked
    BY <1>t, <2>1, ReleaseMoves
  <2>3. Asleep' = Asleep \union {running}
    BY <1>t, <2>1, GoesToSleep
  <2>4. \A p \in Proc : (p = running' \/ p \in Range(main_queue'))
                          <=> p \in Range(Handed(l))
    BY <2>1, <2>2, SwitchKeeps
  <2>5. \A x \in Proc : x \in Active' <=> x \in Active
    BY <2>2, <2>3, <2>4 DEF Active
  <2> QED BY <1>s, <2>1, <2>5
<1>9. ASSUME NEW c \in Id, CvarSignal(c) \/ CvarBroadcast(c) \/ BroadcastStep(c)
      PROVE  AliveInv'
  <2>1. WakeOne(c) /\ exited' = exited
    BY <1>9 DEF CvarSignal, CvarBroadcast, BroadcastStep, WakeOne
  <2> QED BY <1>s, <2>1, WakeKeepsAlive
<1>10. CASE KernelExit
  <2>1. /\ running \in Proc /\ exited' = exited \union {running}
        /\ SwitchToNext(main_queue) /\ UNCHANGED <<locks, cvars>>
    BY <1>10 DEF KernelExit, Trap, UserRuns
  <2>2. \A p \in Proc : (p = running' \/ p \in Range(main_queue'))
                          <=> p \in Range(main_queue)
    BY <1>t, <2>1, SwitchKeeps
  <2>3. Blocked' = Blocked /\ Asleep' = Asleep
    BY <1>r, <2>1
  <2>4. running \notin Range(main_queue) /\ running \notin Blocked /\ running \notin Asleep
    BY <1>t, SeparateFacts DEF Blocked, Asleep
  <2>5. \A x \in Proc : x \in Active' <=> x \in Active /\ x # running
    BY <2>2, <2>3, <2>4 DEF Active
  <2> QED BY <2>1, <2>5 DEF AliveInv
<1>11. CASE trap_clock_handler
  <2> DEFINE q == schedule_process(main_queue, running)
  <2>1. SwitchToNext(q) /\ UNCHANGED <<locks, cvars>> /\ exited' = exited
    BY <1>11 DEF trap_clock_handler, Preempt
  <2>2. /\ q \in Seq(Proc)
        /\ \A x \in Proc : x \in Range(q) <=> x \in Range(main_queue) \/ x = running
    BY <1>t, ScheduleType, ScheduleRange
  <2> HIDE DEF q
  <2>3. \A p \in Proc : (p = running' \/ p \in Range(main_queue')) <=> p \in Range(q)
    BY <2>1, <2>2, SwitchKeeps
  <2>4. \A x \in Proc : x \in Active' <=> x \in Active
    BY <1>r, <2>1, <2>2, <2>3 DEF Active
  <2> QED BY <1>s, <2>1, <2>4
<1>12. CASE UNCHANGED vars
  BY <1>12, <1>c, <1>r DEF vars
<1> QED
  BY <1>1, <1>2, <1>3, <1>4, <1>5, <1>6, <1>7, <1>8, <1>9, <1>10, <1>11, <1>12 DEF Next

\* Permits, counts and places together: the invariant of the theorems below.
FullInv == IInv /\ NeedInv /\ AliveInv

\* It holds in every state.
LEMMA SyncFullInvariant == Spec => []FullInv
<1>1. Init => NeedInv /\ AliveInv
  BY InitNeeds, InitAlive
<1>2. IInv /\ (NeedInv /\ AliveInv) /\ [Next]_vars => (NeedInv /\ AliveInv)'
  BY NextNeeds, NextAlive
<1> QED BY <1>1, <1>2, SyncInvariant, PTL DEF Spec, FullInv

\* needed_by is exact through every hand-over, wait and wake-up: a lock that
\* somebody will need is never reclaimed under it, and one that nobody needs
\* can always be reclaimed.
THEOREM CountsAreExact == Spec => []NeededByExact
<1>1. FullInv => NeededByExact
  <2> SUFFICES ASSUME FullInv, NEW l \in lock_in_use
               PROVE  locks[l].needed_by = Cardinality(locks[l].pids)
                        + Len(locks[l].queue) + Cardinality(CvarWaiters(l))
    BY DEF NeededByExact
  <2>1. l \in Id
    BY DEF FullInv, IInv, TypeOK, LockTable!TableTypeOK, LockTable!Entry, Id
  <2> QED BY <2>1 DEF FullInv, NeedInv, CountInv, Users
<1> QED BY <1>1, SyncFullInvariant, PTL

\* Every process is running, has exited or is on one queue, once: no pcb is
\* ever linked twice, and no signal, broadcast or release loses one.
THEOREM EverybodyPlacedOnce == Spec => []PlacedOnce
<1>1. FullInv => PlacedOnce
  <2> SUFFICES ASSUME FullInv PROVE PlacedOnce
    OBVIOUS
  <2>t. TypeOK /\ SepInv /\ AliveInv
    BY DEF FullInv, IInv
  <2>s. /\ \A l \in Id : /\ IsInjective(locks[l].queue)
                         /\ running \notin Range(locks[l].queue)
                         /\ Range(locks[l].queue) \intersect Range(main_queue) = {}
        /\ \A c \in Id : /\ IsInjective(cvars[c])
                         /\ running \notin Range(cvars[c])
                         /\ Range(cvars[c]) \intersect Range(main_queue) = {}
        /\ IsInjective(main_queue) /\ running \notin Range(main_queue)
        /\ \A c, l \in Id : Range(cvars[c]) \intersect Range(locks[l].queue) = {}
        /\ \A c, d \in Id : c # d => Range(cvars[c]) \intersect Range(cvars[d]) = {}
        /\ \A l, m \in Id :
             l # m => Range(locks[l].queue) \intersect Range(locks[m].queue) = {}
    BY <2>t, SeparateFacts
  <2>a. /\ At(<<"running", 0>>) = {running} /\ At(<<"main", 0>>) = Range(main_queue)
        /\ At(<<"exited", 0>>) = exited
        /\ \A i \in Id : At(<<"lock", i>>) = Range(locks[i].queue)
        /\ \A i \in Id : At(<<"cvar", i>>) = Range(cvars[i])
    BY DEF At
  <2>p. \A k : k \in Place <=> \/ k \in {<<"running", 0>>, <<"main", 0>>, <<"exited", 0>>}
                               \/ \E i \in Id : k = <<"lock", i>> \/ k = <<"cvar", i>>
    BY DEF Place
  <2>1. ASSUME NEW p \in Proc PROVE \E k \in Place : p \in At(k)
    <3>1. p \in Active \/ p \in exited
      BY <2>t DEF AliveInv
    <3>2. CASE p \in exited
      BY <2>a, <2>p, <3>2
    <3>3. CASE p = running \/ p \in Range(main_queue)
      BY <2>a, <2>p, <3>3
    <3>4. CASE p \in Blocked
      BY <2>a, <2>p, <3>4 DEF Blocked
    <3>5. CASE p \in Asleep
      BY <2>a, <2>p, <3>5 DEF Asleep
    <3> QED BY <3>1, <3>2, <3>3, <3>4, <3>5 DEF Active
  <2>2. ASSUME NEW p \in Proc, NEW k \in Place, NEW j \in Place, p \in At(k), p \in At(j)
        PROVE  k = j
    <3>x. ASSUME p \in exited
          PROVE  /\ p # running /\ p \notin Range(main_queue)
                 /\ \A i \in Id : p \notin Range(locks[i].queue) /\ p \notin Range(cvars[i])
      <4>1. p \notin Active
        BY <2>t, <3>x DEF AliveInv
      <4> QED BY <4>1 DEF Active, Blocked, Asleep
    <3>1. CASE k = <<"running", 0>>
      BY <2>2, <2>a, <2>p, <2>s, <3>1, <3>x
    <3>2. CASE k = <<"main", 0>>
      BY <2>2, <2>a, <2>p, <2>s, <3>2, <3>x
    <3>3. CASE k = <<"exited", 0>>
      BY <2>2, <2>a, <2>p, <2>s, <3>3, <3>x
    <3>4. ASSUME NEW i \in Id, k = <<"lock", i>> PROVE k = j
      BY <2>2, <2>a, <2>p, <2>s, <3>4, <3>x
    <3>5. ASSUME NEW i \in Id, k = <<"cvar", i>> PROVE k = j
      BY <2>2, <2>a, <2>p, <2>s, <3>5, <3>x
    <3> QED BY <2>p, <3>1, <3>2, <3>3, <3>4, <3>5
  <2>3. ASSUME NEW p \in Proc PROVE Cardinality({k \in Place : p \in At(k)}) = 1
    <3>1. PICK k \in Place : p \in At(k)
      BY <2>1
    <3>2. {j \in Place : p \in At(j)} = {k}
      BY <2>2, <3>1
    <3> QED BY <3>2, FS_Singleton
  <2> QED BY <2>3, <2>s DEF PlacedOnce
<1> QED BY <1>1, SyncFullInvariant, PTL

\* What WakesWithLock says of one process and one entry of each table.
LeavesLock(p, i) ==
  (p \in Range(locks[i].queue) /\ p \notin Range(locks'[i].queue))
    => p \in locks'[i].pids /\ p \in Range(main_queue') \union {running'}
LeavesCvar(p, i) ==
  (p \in Range(cvars[i]) /\ p \notin Range(cvars'[i]))
    => LET l == cvar_lock_id[p]
       IN  \/ p \in locks'[l].pids /\ p \in Range(main_queue')
           \/ p \in Range(locks'[l].queue)

\* release makes the process that leaves the queue a holder.
LEMMA ReleaseWakes ==
  ASSUME IInv, NEW l \in Id, NEW p \in locks[l].pids, NEW u \in BOOLEAN,
         locks' = [locks EXCEPT ![l] = Released(l, p, u)],
         NEW x \in Proc, NEW i \in Id,
         x \in Range(locks[i].queue), x \notin Range(locks'[i].queue)
  PROVE  x \in locks'[i].pids /\ x \in Range(Handed(l))
<1>t. /\ locks \in [Id -> Lock] /\ LockOK(locks[l]) /\ main_queue \in Seq(Proc)
      /\ locks[l].queue \in Seq(Proc)
  BY DEF IInv, TypeOK, PermitInv, Lock
<1>1. /\ locks'[l].queue = IF locks[l].queue = <<>> THEN locks[l].queue
                           ELSE Tail(locks[l].queue)
      /\ locks'[l] = Released(l, p, u)
      /\ \A m \in Id : m # l => locks'[m] = locks[m]
  BY <1>t, ReleasedQueue
<1>2. i = l /\ locks[l].queue # <<>>
  BY <1>1
<1>3. x = Head(locks[l].queue)
  BY <1>1, <1>2, <1>t, TailFacts
<1>4. x \in locks'[l].pids
  <2>1. Released(l, p, u).pids = IF locks[l].queue = <<>> THEN locks[l].pids \ {p}
                                 ELSE (locks[l].pids \ {p}) \union {Head(locks[l].queue)}
    BY <1>t, ReleasedUsers
  <2> QED BY <1>1, <1>2, <1>3, <2>1
<1>5. Handed(l) = schedule_process(main_queue, x)
  BY <1>2, <1>3 DEF Handed
<1> QED BY <1>2, <1>4, <1>5, <1>t, ScheduleRange

\* No step takes a process off a queue without its lock.
LEMMA StepWakes ==
  ASSUME FullInv, [Next]_vars, NEW p \in Proc, NEW i \in Id
  PROVE  LeavesLock(p, i) /\ LeavesCvar(p, i)
<1>t. /\ IInv /\ NeedInv /\ TypeOK /\ SepInv /\ TablesOK /\ UnusedInv /\ CountInv
      /\ SleepInv /\ locks \in [Id -> Lock] /\ cvars \in [Id -> Seq(Proc)]
      /\ main_queue \in Seq(Proc)
  BY DEF FullInv, IInv, NeedInv, TypeOK
<1>q. ASSUME \A l \in Id : SameUse(locks[l], locks'[l]), cvars' = cvars
      PROVE  LeavesLock(p, i) /\ LeavesCvar(p, i)
  BY <1>q DEF SameUse, LeavesLock, LeavesCvar
<1>s. ASSUME UNCHANGED <<locks, cvars>>
      PROVE  LeavesLock(p, i) /\ LeavesCvar(p, i)
  BY <1>s DEF LeavesLock, LeavesCvar
<1>1. ASSUME NEW cap \in {1} \union Capacity, LockInit(cap)
      PROVE  LeavesLock(p, i) /\ LeavesCvar(p, i)
  BY <1>1, <1>q, <1>t, CreationIsQuiet DEF LockInit
<1>2. ASSUME NEW l \in Id, delete_lock(l)
      PROVE  LeavesLock(p, i) /\ LeavesCvar(p, i)
  BY <1>2, <1>q, <1>t, CreationIsQuiet DEF delete_lock
<1>3. CASE CvarInit
  BY <1>3, <1>s, <1>t, CreationIsQuiet DEF CvarInit
<1>4. ASSUME NEW l \in Id, Acquire(l)
      PROVE  LeavesLock(p, i) /\ LeavesCvar(p, i)
  <2>1. /\ running \in Proc /\ CanAcquire(l, running) /\ cvars' = cvars
        /\ locks' = [locks EXCEPT ![l] = Acquired(l, running, FALSE)]
    BY <1>4 DEF Acquire, Trap, UserRuns
  <2>2. /\ locks'[l].queue = IF ~(locks[l].val > 0) THEN Append(locks[l].queue, running)
                             ELSE locks[l].queue
        /\ \A m \in Id : m # l => locks'[m] = locks[m]
    BY <1>t, <2>1, AcquiredQueue
  <2>3. locks[l].queue \in Seq(Proc)
    BY <1>t DEF Lock
  <2>4. Range(locks[i].queue) \subseteq Range(locks'[i].queue)
    <3>1. Range(Append(locks[l].queue, running)) = Range(locks[l].queue) \union {running}
      BY <2>1, <2>3, AppendFacts
    <3> QED BY <2>2, <3>1
  <2> QED BY <2>1, <2>4 DEF LeavesLock, LeavesCvar
<1>5. ASSUME NEW l \in Id, Release(l)
      PROVE  LeavesLock(p, i) /\ LeavesCvar(p, i)
  <2>1. /\ locks' = [locks EXCEPT ![l] = Released(l, running, FALSE)]
        /\ running \in locks[l].pids /\ main_queue' = Handed(l) /\ cvars' = cvars
    BY <1>5 DEF Release, CanRelease
  <2>2. LeavesLock(p, i)
    BY <1>t, <2>1, ReleaseWakes DEF LeavesLock
  <2> QED BY <2>1, <2>2 DEF LeavesCvar
<1>6. ASSUME NEW c \in Id, NEW l \in Id, CvarWait(c, l)
      PROVE  LeavesLock(p, i) /\ LeavesCvar(p, i)
  <2>1. /\ locks' = [locks EXCEPT ![l] = Released(l, running, TRUE)]
        /\ running \in locks[l].pids /\ running \in Proc /\ SwitchToNext(Handed(l))
        /\ cvars' = [cvars EXCEPT ![c] = Append(@, running)]
    BY <1>6 DEF CvarWait, CanRelease, Trap, UserRuns
  <2>2. Handed(l) \in Seq(Proc)
    BY <1>t, HandedType
  <2>3. (p = running' \/ p \in Range(main_queue')) <=> p \in Range(Handed(l))
    BY <2>1, <2>2, SwitchKeeps
  <2>4. LeavesLock(p, i)
    BY <1>t, <2>1, <2>3, ReleaseWakes DEF LeavesLock
  <2>5. Range(cvars[i]) \subseteq Range(cvars'[i])
    BY <1>t, <2>1, AppendFacts
  <2> QED BY <2>4, <2>5 DEF LeavesCvar
<1>7. ASSUME NEW c \in Id, WakeOne(c)
      PROVE  LeavesLock(p, i) /\ LeavesCvar(p, i)
  <2>0. PICK h, l : h = Head(cvars[c]) /\ l = cvar_lock_id[h]
    OBVIOUS
  <2>1. /\ cvars[c] # <<>> /\ cvars' = [cvars EXCEPT ![c] = Tail(@)]
        /\ locks' = [locks EXCEPT ![l] = Acquired(l, h, TRUE)]
        /\ cvar_lock_id' = cvar_lock_id
        /\ main_queue' = IF CanAcquire(l, h) /\ locks[l].val > 0
                         THEN schedule_process(main_queue, h) ELSE main_queue
    BY <1>7, <2>0 DEF WakeOne
  <2>2. h \in Proc /\ l \in Id /\ h \in Asleep
    BY <1>t, <2>0, <2>1, WakesUp
  <2>3. CanAcquire(l, h)
    BY <1>t, <2>0, <2>2, SleeperCanAcquire
  <2>4. /\ locks'[l] = Acquired(l, h, TRUE)
        /\ locks'[l].queue = IF ~(locks[l].val > 0) THEN Append(locks[l].queue, h)
                             ELSE locks[l].queue
        /\ \A m \in Id : m # l => locks'[m] = locks[m]
        /\ locks[l].queue \in Seq(Proc)
    BY <1>t, <2>1, <2>2, <2>3, AcquiredQueue DEF Lock
  <2>a. Range(Append(locks[l].queue, h)) = Range(locks[l].queue) \union {h}
    BY <2>2, <2>4, AppendFacts
  <2>5. Range(locks[i].queue) \subseteq Range(locks'[i].queue)
    BY <2>4, <2>a
  <2>6. \/ h \in locks'[l].pids /\ h \in Range(main_queue')
        \/ h \in Range(locks'[l].queue)
    <3>1. CASE locks[l].val > 0
      <4>1. h \in locks'[l].pids
        BY <1>t, <2>2, <2>3, <2>4, <3>1, AcquiredUsers
      <4>2. h \in Range(main_queue')
        BY <1>t, <2>1, <2>2, <2>3, <3>1, ScheduleRange
      <4> QED BY <4>1, <4>2
    <3>2. CASE ~(locks[l].val > 0)
      BY <2>4, <2>a, <3>2
    <3> QED BY <3>1, <3>2
  <2>7. p \in Range(cvars[i]) /\ p \notin Range(cvars'[i]) => p = h
    BY <1>t, <2>0, <2>1, TailFacts
  <2> QED BY <2>0, <2>5, <2>6, <2>7 DEF LeavesLock, LeavesCvar
<1>8. ASSUME NEW c \in Id, CvarSignal(c) \/ CvarBroadcast(c) \/ BroadcastStep(c)
      PROVE  LeavesLock(p, i) /\ LeavesCvar(p, i)
  BY <1>7, <1>8 DEF CvarSignal, CvarBroadcast, BroadcastStep
<1>9. ASSUME NEW c \in Id, delete_cvar(c)
      PROVE  LeavesLock(p, i) /\ LeavesCvar(p, i)
  BY <1>s, <1>9 DEF delete_cvar
<1>10. CASE LockInitFails \/ KernelExit \/ trap_clock_handler
  BY <1>s, <1>10 DEF LockInitFails, KernelExit, trap_clock_handler
<1>11. CASE UNCHANGED vars
  BY <1>s, <1>11 DEF vars
<1> QED
  BY <1>1, <1>2, <1>3, <1>4, <1>5, <1>6, <1>8, <1>9, <1>10, <1>11 DEF Next

\* Acquire and CvarWait return only to a holder of the lock: whoever leaves a
\* lock's queue holds the lock and will run, and whoever leaves a condition
\* variable's queue holds its lock or queues for it.
THEOREM NobodyWakesWithoutLock == Spec => WakesWithLock
<1> DEFINE A == \A p \in Proc, i \in Id :
       /\ (p \in Range(locks[i].queue) /\ p \notin Range(locks'[i].queue))
            => p \in locks'[i].pids /\ p \in Range(main_queue') \union {running'}
       /\ (p \in Range(cvars[i]) /\ p \notin Range(cvars'[i]))
            => LET l == cvar_lock_id[p]
               IN  \/ p \in locks'[l].pids /\ p \in Range(main_queue')
                  \/ p \in Range(locks'[l].queue)
<1>2. FullInv /\ [Next]_vars => [A]_vars
  <2>1. ASSUME FullInv, [Next]_vars PROVE A
    BY <2>1, StepWakes, Zenon DEF LeavesLock, LeavesCvar
  <2> QED BY <2>1
<1> HIDE DEF A
<1>3. Spec => [][A]_vars
  BY <1>2, SyncFullInvariant, PTL DEF Spec
<1> QED BY <1>3 DEF WakesWithLock, A
-----------------------------------------------------------------------------
(* The clients *)

\* main creates the mutex and the condition variable before it forks: the
\* clients start in a state of the kernel's invariant.
LEMMA ClientStarts == ClientInit => FullInv
<1> SUFFICES ASSUME ClientInit PROVE FullInv
  OBVIOUS
<1>0. mutex \in Id /\ cvar \in Id /\ mutex = 0 /\ cvar = 0
  BY SyncAssumption DEF Id, mutex, cvar
<1>n. NewLock(0) \in Lock /\ NewLock(1) \in Lock
  BY NewLockType
<1>l. \A l \in Id : locks[l] = NewLock(0) \/ locks[l] = NewLock(1)
  BY DEF ClientInit
<1>1. locks \in [Id -> Lock] /\ cvars \in [Id -> Seq(Proc)]
  BY <1>n DEF ClientInit
<1>2. main_queue \in Seq(Proc)
  BY StartQueue DEF ClientInit
<1>3. TablesOK
  BY <1>0, SyncAssumption DEF ClientInit, TablesOK, LockTableOK, CvarTableOK, Ordered
<1>4. LockTable!TableTypeOK /\ CvarTable!TableTypeOK
  BY <1>3, OrderedMeans DEF TablesOK
<1>5. TypeOK
  BY <1>0, <1>1, <1>2, <1>4 DEF ClientInit, TypeOK
<1>6. \A l \in Id : Blank(locks[l])
  BY <1>l DEF Blank, NewLock
<1>7. \A c \in Id : cvars[c] = <<>> /\ Range(cvars[c]) = {}
  BY DEF ClientInit, Range
<1>8. SepInv
  BY <1>6, <1>7, StartSeparate DEF ClientInit, Blank
<1>9. PermitInv
  BY <1>l, NewLockOK DEF PermitInv
<1>10. Asleep = {} /\ \A l \in Id : CvarWaiters(l) = {}
  BY <1>7 DEF Asleep, CvarWaiters
<1>11. CountInv
  <2> SUFFICES ASSUME NEW l \in Id
               PROVE  locks[l].needed_by = Users(locks[l]) + Cardinality(CvarWaiters(l))
    BY DEF CountInv
  <2>1. locks[l].needed_by = 0 /\ locks[l].pids = {} /\ Len(locks[l].queue) = 0
    BY <1>6 DEF Blank
  <2>2. Cardinality(locks[l].pids) = 0 /\ Cardinality(CvarWaiters(l)) = 0
    BY <1>10, <2>1, FS_EmptySet
  <2> QED BY <2>1, <2>2 DEF Users
<1>12. UnusedInv /\ SleepInv
  BY <1>6, <1>7, <1>10 DEF UnusedInv, SleepInv
<1>13. AliveInv
  BY DEF ClientInit, AliveInv, Active
<1> QED
  BY <1>3, <1>5, <1>8, <1>9, <1>11, <1>12, <1>13 DEF FullInv, IInv, NeedInv

\* Every step of a client is a step of the kernel.
LEMMA ClientStepsAreKernelSteps ==
  ASSUME ClientNext
  PROVE  [Next]_vars
<1>0. mutex \in Id /\ cvar \in Id
  BY SyncAssumption DEF Id, mutex, cvar
<1>1. CASE ClockTick
  BY <1>1 DEF ClockTick, Next
<1>2. ASSUME NEW p \in Proc, UserStep(p) PROVE [Next]_vars
  <2>1. \/ Acquire(mutex) \/ Release(mutex) \/ CvarWait(cvar, mutex) \/ CvarSignal(cvar)
        \/ UNCHANGED vars
    BY <1>2 DEF UserStep, BouncerStep, SonarGalStep
  <2> QED BY <1>0, <2>1 DEF Next
<1> QED BY <1>1, <1>2 DEF ClientNext

\* The kernel's invariant holds while the clients run.
LEMMA ClientInvariant == ClientSpec => []FullInv
<1>1. FullInv /\ [Next]_vars => FullInv'
  BY NextType, NextSeparate, NextPermits, NextNeeds, NextAlive DEF FullInv, IInv
<1>2. FullInv /\ [ClientNext]_<<vars, pc>> => FullInv'
  BY <1>1, ClientStepsAreKernelSteps
<1> QED BY <1>2, ClientStarts, PTL DEF ClientSpec

\* A client past its Acquire holds the mutex, queues for it, or sleeps.
Involved == locks[mutex].pids \union Range(locks[mutex].queue) \union Asleep
HoldInv ==
  /\ pc \in [Proc -> {"acquire", "wait", "signal", "release"}]
  /\ locks[mutex].capacity = 1
  /\ \A p \in Proc : cvar_lock_id[p] = mutex
  /\ \A p \in Proc : pc[p] # "acquire" => p \in Involved

\* Nobody but the running process stops being involved with the mutex.
LEMMA OthersStayInvolved ==
  ASSUME FullInv, HoldInv, [Next]_vars, NEW r,
         locks[mutex].pids \ {r} \subseteq locks'[mutex].pids,
         NEW q \in Proc \ {r}, q \in Involved
  PROVE  q \in Involved'
<1>0. mutex \in Id
  BY SyncAssumption DEF Id, mutex
<1>1. CASE q \in locks[mutex].pids
  BY <1>1 DEF Involved
<1>2. CASE q \in Range(locks[mutex].queue)
  BY <1>0, <1>2, StepWakes DEF LeavesLock, Involved
<1>3. CASE q \in Asleep
  <2>1. PICK c \in Id : q \in Range(cvars[c])
    BY <1>3 DEF Asleep
  <2>2. cvar_lock_id[q] = mutex
    BY DEF HoldInv
  <2>3. CASE q \in Range(cvars'[c])
    BY <2>1, <2>3 DEF Involved, Asleep
  <2>4. CASE q \notin Range(cvars'[c])
    BY <2>1, <2>2, <2>4, StepWakes DEF LeavesCvar, Involved
  <2> QED BY <2>3, <2>4
<1> QED BY <1>1, <1>2, <1>3 DEF Involved

\* Every step keeps the clients past their Acquire involved.
LEMMA ClientKeepsHold == FullInv /\ HoldInv /\ [ClientNext]_<<vars, pc>> => HoldInv'
<1> SUFFICES ASSUME FullInv, HoldInv, [ClientNext]_<<vars, pc>> PROVE HoldInv'
  OBVIOUS
<1>0. mutex \in Id /\ cvar \in Id
  BY SyncAssumption DEF Id, mutex, cvar
<1>t. /\ IInv /\ NeedInv /\ TypeOK /\ SepInv /\ UnusedInv /\ CountInv /\ SleepInv
      /\ locks \in [Id -> Lock] /\ locks[mutex] \in Lock /\ LockOK(locks[mutex])
      /\ cvar_lock_id \in [Proc -> Id]
  BY <1>0 DEF FullInv, IInv, NeedInv, TypeOK, PermitInv
<1>n. [Next]_vars
  BY ClientStepsAreKernelSteps DEF vars
<1> DEFINE Label == {"acquire", "wait", "signal", "release"}
<1>h. /\ pc \in [Proc -> Label] /\ locks[mutex].capacity = 1
      /\ \A p \in Proc : cvar_lock_id[p] = mutex
      /\ \A p \in Proc : pc[p] # "acquire" => p \in Involved
  BY DEF HoldInv
<1>s. ASSUME UNCHANGED <<locks, cvars, cvar_lock_id>>, pc' \in [Proc -> Label],
             \A p \in Proc : pc'[p] # "acquire" => pc[p] # "acquire"
      PROVE  HoldInv'
  <2>1. Involved' = Involved
    BY <1>s DEF Involved, Asleep
  <2> QED BY <1>s, <1>h, <2>1 DEF HoldInv
<1>g. ASSUME NEW label \in Label, Goto(running, label), running \in Proc,
             locks'[mutex].capacity = 1, \A p \in Proc : cvar_lock_id'[p] = mutex,
             locks[mutex].pids \ {running} \subseteq locks'[mutex].pids,
             label # "acquire" => running \in Involved'
      PROVE  HoldInv'
  <2>1. /\ pc' \in [Proc -> Label] /\ pc'[running] = label
        /\ \A p \in Proc : p # running => pc'[p] = pc[p]
    BY <1>g, <1>h DEF Goto
  <2>2. ASSUME NEW p \in Proc, pc'[p] # "acquire" PROVE p \in Involved'
    <3>1. CASE p = running
      BY <1>g, <2>1, <2>2, <3>1
    <3>2. CASE p # running
      <4>1. p \in Involved
        BY <1>h, <2>1, <2>2, <3>2
      <4> QED BY <1>g, <1>n, <3>2, <4>1, OthersStayInvolved
    <3> QED BY <3>1, <3>2
  <2> QED BY <1>g, <2>1, <2>2 DEF HoldInv
<1>1. CASE ClockTick
  BY <1>1, <1>s, <1>h DEF ClockTick, trap_clock_handler
<1>2. CASE UNCHANGED <<vars, pc>>
  BY <1>2, <1>s, <1>h DEF vars
<1>3. ASSUME Acquire(mutex), NEW label \in Label, Goto(running, label) PROVE HoldInv'
  <2>1. /\ running \in Proc /\ CanAcquire(mutex, running) /\ cvar_lock_id' = cvar_lock_id
        /\ locks' = [locks EXCEPT ![mutex] = Acquired(mutex, running, FALSE)]
    BY <1>3 DEF Acquire, Trap, UserRuns
  <2>2. locks'[mutex] = Acquired(mutex, running, FALSE)
    BY <1>0, <1>t, <2>1
  <2>3. Acquired(mutex, running, FALSE).capacity = locks[mutex].capacity
    BY <1>t DEF Acquired, Lock
  <2>4. Acquired(mutex, running, FALSE).pids = IF locks[mutex].val > 0
                                               THEN locks[mutex].pids \union {running}
                                               ELSE locks[mutex].pids
    BY <1>0, <1>t, <2>1, AcquiredUsers
  <2>5. ~(locks[mutex].val > 0) => running \in Range(locks'[mutex].queue)
    <3>1. Acquired(mutex, running, FALSE).queue =
            IF CanAcquire(mutex, running) /\ ~(locks[mutex].val > 0)
            THEN Append(locks[mutex].queue, running) ELSE locks[mutex].queue
      BY <1>0, <1>t, AcquiredQueue
    <3>2. locks[mutex].queue \in Seq(Proc)
      BY <1>t DEF Lock
    <3>3. Range(Append(locks[mutex].queue, running)) = Range(locks[mutex].queue) \union {running}
      BY <2>1, <3>2, AppendFacts
    <3> QED BY <2>1, <2>2, <3>1, <3>3
  <2>6. running \in Involved'
    BY <2>2, <2>4, <2>5 DEF Involved
  <2> QED BY <1>3, <1>g, <1>h, <2>1, <2>2, <2>3, <2>4, <2>6
<1>r. ASSUME NEW u \in BOOLEAN, running \in locks[mutex].pids,
             locks' = [locks EXCEPT ![mutex] = Released(mutex, running, u)]
      PROVE  /\ locks'[mutex].capacity = 1
             /\ locks[mutex].pids \ {running} \subseteq locks'[mutex].pids
  <2>1. locks'[mutex] = Released(mutex, running, u)
    BY <1>0, <1>r, <1>t
  <2>2. Released(mutex, running, u).capacity = locks[mutex].capacity
    BY <1>t DEF Released, Lock
  <2>3. Released(mutex, running, u).pids =
          IF locks[mutex].queue = <<>> THEN locks[mutex].pids \ {running}
          ELSE (locks[mutex].pids \ {running}) \union {Head(locks[mutex].queue)}
    BY <1>0, <1>r, <1>t, ReleasedUsers
  <2> QED BY <1>h, <2>1, <2>2, <2>3
<1>4. ASSUME Release(mutex), Goto(running, "acquire") PROVE HoldInv'
  <2>1. /\ running \in Proc /\ running \in locks[mutex].pids /\ cvar_lock_id' = cvar_lock_id
        /\ locks' = [locks EXCEPT ![mutex] = Released(mutex, running, FALSE)]
    BY <1>4 DEF Release, Trap, UserRuns, CanRelease
  <2>2. /\ locks'[mutex].capacity = 1
        /\ locks[mutex].pids \ {running} \subseteq locks'[mutex].pids
    BY <1>r, <2>1
  <2> QED BY <1>4, <1>g, <1>h, <2>1, <2>2
<1>5. ASSUME CvarWait(cvar, mutex), Goto(running, "release") PROVE HoldInv'
  <2>1. /\ running \in Proc /\ running \in locks[mutex].pids
        /\ cvar_lock_id' = [cvar_lock_id EXCEPT ![running] = mutex]
        /\ cvars' = [cvars EXCEPT ![cvar] = Append(@, running)]
        /\ locks' = [locks EXCEPT ![mutex] = Released(mutex, running, TRUE)]
    BY <1>5 DEF CvarWait, Trap, UserRuns, CanRelease
  <2>2. /\ locks'[mutex].capacity = 1
        /\ locks[mutex].pids \ {running} \subseteq locks'[mutex].pids
    BY <1>r, <2>1
  <2>3. running \in Involved'
    BY <1>0, <1>t, <2>1, GoesToSleep DEF Involved
  <2>4. \A p \in Proc : cvar_lock_id'[p] = mutex
    BY <1>h, <1>t, <2>1
  <2> QED BY <1>5, <1>g, <2>1, <2>2, <2>3, <2>4
<1>6. ASSUME CvarSignal(cvar), Goto(running, "release"), pc[running] = "signal" PROVE HoldInv'
  <2>0. PICK p, l : p = Head(cvars[cvar]) /\ l = cvar_lock_id[p]
    OBVIOUS
  <2>1. /\ running \in Proc /\ cvars[cvar] # <<>> /\ cvar_lock_id' = cvar_lock_id
        /\ cvars' = [cvars EXCEPT ![cvar] = Tail(@)]
        /\ locks' = [locks EXCEPT ![l] = Acquired(l, p, TRUE)]
    BY <1>6, <2>0 DEF CvarSignal, WakeOne, Trap, UserRuns
  <2>2. p \in Proc /\ p \in Asleep
    BY <1>0, <1>t, <2>0, <2>1, WakesUp
  <2>3. l = mutex
    BY <1>h, <2>0, <2>2
  <2>4. CanAcquire(mutex, p)
    BY <1>t, <2>0, <2>2, <2>3, SleeperCanAcquire
  <2>5. locks'[mutex] = Acquired(mutex, p, TRUE)
    BY <1>0, <1>t, <2>1, <2>3
  <2>6. Acquired(mutex, p, TRUE).capacity = locks[mutex].capacity
    BY <1>t DEF Acquired, Lock
  <2>7. Acquired(mutex, p, TRUE).pids = IF locks[mutex].val > 0
                                        THEN locks[mutex].pids \union {p}
                                        ELSE locks[mutex].pids
    BY <1>0, <1>t, <2>2, <2>4, AcquiredUsers
  <2>8. running \in locks[mutex].pids
    <3>1. running \in Involved
      BY <1>6, <1>h, <2>1
    <3>2. running \notin Range(locks[mutex].queue) /\ running \notin Asleep
      BY <1>0, <1>t, SeparateFacts DEF Asleep
    <3> QED BY <3>1, <3>2 DEF Involved
  <2>9. locks[mutex].pids \subseteq locks'[mutex].pids /\ locks'[mutex].capacity = 1
    BY <1>h, <2>5, <2>6, <2>7
  <2>10. running \in Involved'
    BY <2>8, <2>9 DEF Involved
  <2> QED BY <1>6, <1>g, <1>h, <2>1, <2>9, <2>10
<1>7. ASSUME Goto(running, "release"), pc[running] = "signal", UNCHANGED vars PROVE HoldInv'
  <2>1. /\ pc' \in [Proc -> Label]
        /\ \A p \in Proc : pc'[p] # "acquire" => pc[p] # "acquire"
    BY <1>7, <1>h DEF Goto
  <2> QED BY <1>7, <1>s, <2>1 DEF vars
<1>8. ASSUME NEW p \in Proc, UserStep(p) PROVE HoldInv'
  BY <1>8, <1>3, <1>4, <1>5, <1>6, <1>7 DEF UserStep, BouncerStep, SonarGalStep
<1> QED BY <1>1, <1>2, <1>8 DEF ClientNext

\* Between Acquire and Release a client runs as the only holder of the mutex,
\* also right after CvarWait returned.
THEOREM ClientsExcludeEachOther == ClientSpec => []RunsHoldingMutex
<1>0. mutex \in Id
  BY SyncAssumption DEF Id, mutex
<1>1. ClientInit => HoldInv
  <2> SUFFICES ASSUME ClientInit PROVE HoldInv
    OBVIOUS
  <2>1. locks[mutex] = NewLock(1)
    BY <1>0 DEF ClientInit
  <2> QED BY <2>1 DEF ClientInit, HoldInv, NewLock, mutex
<1>2. FullInv /\ HoldInv => RunsHoldingMutex
  <2> SUFFICES ASSUME FullInv, HoldInv, running \in Proc, pc[running] # "acquire"
               PROVE  locks[mutex].pids = {running}
    BY DEF RunsHoldingMutex, UserRuns
  <2>t. TypeOK /\ SepInv /\ LockOK(locks[mutex]) /\ locks[mutex] \in Lock
    BY <1>0 DEF FullInv, IInv, PermitInv, TypeOK
  <2>1. running \in Involved
    BY DEF HoldInv
  <2>2. running \notin Range(locks[mutex].queue) /\ running \notin Asleep
    BY <1>0, <2>t, SeparateFacts DEF Asleep
  <2>3. running \in locks[mutex].pids
    BY <2>1, <2>2 DEF Involved
  <2>4. IsFiniteSet(locks[mutex].pids) /\ Cardinality(locks[mutex].pids) \in Nat
    BY <2>t, UsersType
  <2>5. Cardinality(locks[mutex].pids) <= 1
    <3>1. locks[mutex].val \in Int
      BY <2>t DEF Lock
    <3> QED BY <2>t, <2>4, <3>1 DEF LockOK, HoldInv
  <2>6. IsFiniteSet(locks[mutex].pids \ {running})
        /\ Cardinality(locks[mutex].pids \ {running}) = Cardinality(locks[mutex].pids) - 1
    BY <2>3, <2>4, FS_RemoveElement
  <2>7. Cardinality(locks[mutex].pids \ {running}) \in Nat
    BY <2>6, FS_CardinalityType
  <2>8. Cardinality(locks[mutex].pids \ {running}) = 0
    BY <2>4, <2>5, <2>6, <2>7
  <2>9. locks[mutex].pids \ {running} = {}
    BY <2>6, <2>8, FS_EmptySet
  <2> QED BY <2>3, <2>9
<1> QED BY <1>1, <1>2, ClientInvariant, ClientKeepsHold, PTL DEF ClientSpec
=============================================================================
