----------------------------- MODULE FramePool -----------------------------
(***************************************************************************)
(* What the physical frame allocator promises its callers, without saying  *)
(* how it finds a frame: a frame that was handed out is not handed out     *)
(* again before it is given back, and an allocation fails only when every  *)
(* frame is out.  FrameTracking is shown to implement this specification.  *)
(***************************************************************************)
CONSTANTS Frame,    \* the physical frame numbers being managed
          ERROR     \* what a failed allocation returns

VARIABLES owned,    \* frames that are out
          ret       \* what the last allocation returned

vars == <<owned, ret>>

Init == owned = {} /\ ret = ERROR

\* One chosen frame goes out (the kernel's own pages, at boot).
Reserve(f) ==
  /\ f \in Frame \ owned
  /\ owned' = owned \union {f}
  /\ UNCHANGED ret

\* Some frame that is not out goes out.
Allocate ==
  \E f \in Frame \ owned :
    /\ owned' = owned \union {f}
    /\ ret' = f

Exhausted ==
  /\ owned = Frame
  /\ ret' = ERROR
  /\ UNCHANGED owned

GiveBack(f) ==
  /\ f \in owned
  /\ owned' = owned \ {f}
  /\ UNCHANGED ret

Next ==
  \/ \E f \in Frame : Reserve(f) \/ GiveBack(f)
  \/ Allocate
  \/ Exhausted

Spec == Init /\ [][Next]_vars
=============================================================================
