----------------------------- MODULE SyncClient -----------------------------
(***************************************************************************)
(* The condition-variable clients of user/torture.c on the kernel's own    *)
(* locks and condition variables: Bouncers that wait for a ping and        *)
(* SonarGals that send it, all under one mutex.                            *)
(*                                                                         *)
(* A process is at the next kernel call it will make.  Their printing and  *)
(* delays are left out: they only move the points where calls are made.    *)
(***************************************************************************)
EXTENDS Synchronization

CONSTANTS Bouncer, SonarGal

ASSUME ClientAssumption == Proc = Bouncer \union SonarGal /\ Bouncer \intersect SonarGal = {}

VARIABLE pc

mutex == 0
cvar == 0

\* main has created the condition variable and the mutex, then forked.
ClientInit ==
  /\ locks = [l \in Id |-> IF l = mutex THEN NewLock(1) ELSE NewLock(0)]
  /\ cvars = [c \in Id |-> <<>>]
  /\ lock_in_use = {mutex} /\ lock_arr_size = INITIAL_ARR_SIZE /\ open_lock_idx = 1
  /\ cvar_in_use = {cvar} /\ cvar_arr_size = INITIAL_ARR_SIZE /\ open_cvar_idx = 1
  /\ running \in Proc
  /\ main_queue \in [1..(Cardinality(Proc) - 1) -> Proc]
  /\ Range(main_queue) = Proc \ {running}
  /\ cvar_lock_id = [p \in Proc |-> 0]
  /\ draining = None
  /\ exited = {}
  /\ pc = [p \in Proc |-> "acquire"]

Goto(p, label) == pc' = [pc EXCEPT ![p] = label]

BouncerStep(p) ==
  /\ p \in Bouncer
  /\ \/ pc[p] = "acquire" /\ Acquire(mutex) /\ Goto(p, "wait")
     \/ pc[p] = "wait" /\ CvarWait(cvar, mutex) /\ Goto(p, "release")
     \/ pc[p] = "release" /\ Release(mutex) /\ Goto(p, "acquire")

SonarGalStep(p) ==
  /\ p \in SonarGal
  /\ \/ pc[p] = "acquire" /\ Acquire(mutex) /\ Goto(p, "signal")
     \/ pc[p] = "signal" /\ CvarSignal(cvar) /\ Goto(p, "release")
     \/ pc[p] = "signal" /\ cvars[cvar] = <<>> /\ Goto(p, "release") /\ UNCHANGED vars
     \/ pc[p] = "release" /\ Release(mutex) /\ Goto(p, "acquire")

UserStep(p) == running = p /\ (BouncerStep(p) \/ SonarGalStep(p))
ClockTick == trap_clock_handler /\ UNCHANGED pc

ClientNext == (\E p \in Proc : UserStep(p)) \/ ClockTick

\* The clock keeps ticking, and a process that gets the processor again and
\* again executes its instructions and so reaches its next kernel call.
ClientSpec ==
  /\ ClientInit /\ [][ClientNext]_<<vars, pc>>
  /\ WF_<<vars, pc>>(ClockTick)
  /\ \A p \in Proc : SF_<<vars, pc>>(UserStep(p))
-----------------------------------------------------------------------------
\* A process that runs between its Acquire and its Release, also right after
\* CvarWait returned, is the holder of the mutex: the only one.
RunsHoldingMutex ==
  (UserRuns /\ pc[running] # "acquire") => locks[mutex].pids = {running}

\* Nobody starves: every Bouncer that waits is bounced, and every process that
\* queues for the mutex gets it.  Both queues have to be first in, first out.
NobodyStarves ==
  /\ \A p \in Bouncer : (pc[p] = "release") ~> (pc[p] = "acquire")
  /\ \A p \in Proc : p \in Range(locks[mutex].queue) ~> p \in locks[mutex].pids
=============================================================================
