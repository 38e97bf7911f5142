----------------------------- MODULE TtyStream ------------------------------
(***************************************************************************)
(* What TtyWrite promises about one terminal: the writes appear whole, one *)
(* after the other, in the order in which the calls were made, and a call  *)
(* returns once its text has appeared.                                     *)
(***************************************************************************)
EXTENDS Integers, Sequences, SequencesExt

CONSTANTS Proc,      \* the writers
          WriteLen,  \* how much they write, in bytes
          MaxLine    \* how much can appear at once

VARIABLES calls,   \* the writes so far, [proc, len]
          screen,  \* the bytes that have appeared, <<call, offset>>
          inside   \* the processes inside a call

vars == <<calls, screen, inside>>

\* The last byte that has appeared, [call, offset]; before any, the end of a
\* write that was made before the first.
Shown == IF screen = <<>> THEN <<0, 0>> ELSE Last(screen)

\* The write whose text appears next, and how much of it is there already.
InMiddle == Shown[1] > 0 /\ Shown[2] < calls[Shown[1]].len
Turn == IF InMiddle THEN Shown[1] ELSE Shown[1] + 1
Offset == IF InMiddle THEN Shown[2] ELSE 0

Init == calls = <<>> /\ screen = <<>> /\ inside = {}

Write(p, n) ==
  /\ p \notin inside
  /\ calls' = Append(calls, [proc |-> p, len |-> n])
  /\ inside' = inside \union {p}
  /\ UNCHANGED screen

\* What appears at once is the next part of a single write.
Show ==
  /\ Turn \in DOMAIN calls
  /\ \E k \in 1..MaxLine :
       /\ Offset + k <= calls[Turn].len
       /\ screen' = screen \o [i \in 1..k |-> <<Turn, Offset + i>>]
  /\ UNCHANGED <<calls, inside>>

Return(p) ==
  /\ p \in inside
  /\ \A c \in DOMAIN calls : calls[c].proc = p => <<c, calls[c].len>> \in ToSet(screen)
  /\ inside' = inside \ {p}
  /\ UNCHANGED <<calls, screen>>

Next ==
  \/ \E p \in Proc : Return(p) \/ \E n \in WriteLen : Write(p, n)
  \/ Show

Spec == Init /\ [][Next]_vars
=============================================================================
