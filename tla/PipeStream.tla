----------------------------- MODULE PipeStream -----------------------------
(***************************************************************************)
(* What a pipe promises: bytes leave it in the order in which they were    *)
(* written, each of them once, and a read does not return without any.     *)
(***************************************************************************)
EXTENDS Integers, Sequences

CONSTANTS Texts,   \* what is written at a time
          ReadLen  \* how much is asked for at a time

VARIABLES open,    \* does the pipe exist?
          content  \* the bytes in it

vars == <<open, content>>

Init == open = FALSE /\ content = <<>>

Create == ~open /\ open' = TRUE /\ content' = <<>>
Reclaim == open /\ open' = FALSE /\ content' = <<>>

Write(text) == open /\ content' = content \o text /\ UNCHANGED open

\* A read of at most n bytes takes the first ones.
Read(n) ==
  LET k == IF Len(content) < n THEN Len(content) ELSE n
  IN  /\ open /\ k > 0
      /\ content' = SubSeq(content, k + 1, Len(content))
      /\ UNCHANGED open

Next ==
  \/ Create \/ Reclaim
  \/ \E text \in Texts : Write(text)
  \/ \E n \in ReadLen : Read(n)

Spec == Init /\ [][Next]_vars
=============================================================================
