----------------------------- MODULE SleepQueue -----------------------------
(***************************************************************************)
(* What headers/scheduler.h promises of put_to_sleep and wake_sleepers: a  *)
(* process sleeps for the number of ticks it asked for, and a tick wakes   *)
(* exactly the processes whose time has come, the earliest first.          *)
(* Processes relies on this.                                               *)
(*                                                                         *)
(* The code does not keep the promise to a process whose time an int       *)
(* cannot hold.  It is left out: nothing is said of when that process      *)
(* wakes, and everything still is of the others.                           *)
(***************************************************************************)
EXTENDS Integers

CONSTANTS Proc,   \* the processes
          Delays, \* the numbers of ticks they ask for
          INT_MAX \* the last tick a process can be promised

VARIABLES asleep,  \* the processes that sleep
          due,     \* the tick at which each wakes (0: it does not sleep)
          now,     \* the ticks so far
          waking   \* is the tick being handled?

vars == <<asleep, due, now, waking>>

Init ==
  /\ asleep = {}
  /\ due = [p \in Proc |-> 0]
  /\ now = 0
  /\ waking = FALSE

Sleep(p, t) ==
  /\ ~waking
  /\ p \notin asleep
  /\ asleep' = asleep \union {p}
  /\ due' = [due EXCEPT ![p] = now + t]
  /\ UNCHANGED <<now, waking>>

Tick ==
  /\ ~waking
  /\ now' = now + 1
  /\ waking' = TRUE
  /\ UNCHANGED <<asleep, due>>

Promised(p) == due[p] <= INT_MAX

\* p's time has come, and nobody's came before.
Wake(p) ==
  /\ waking
  /\ p \in asleep
  /\ Promised(p) =>
       /\ due[p] <= now
       /\ \A q \in asleep : Promised(q) => due[p] <= due[q]
  /\ asleep' = asleep \ {p}
  /\ due' = [due EXCEPT ![p] = 0]
  /\ UNCHANGED <<now, waking>>

Done ==
  /\ waking
  /\ \A p \in asleep : Promised(p) => due[p] > now
  /\ waking' = FALSE
  /\ UNCHANGED <<asleep, due, now>>

Next ==
  \/ \E p \in Proc : Wake(p) \/ \E t \in Delays : Sleep(p, t)
  \/ Tick
  \/ Done

Spec == Init /\ [][Next]_vars
=============================================================================
