---------------------------- MODULE ProcessesMC ----------------------------
(* Model-checking instance of Processes. *)
EXTENDS Processes

\* The pcb blocks other than init's are interchangeable.
Symmetry == Permutations(Proc \ {Init_pcb})
=============================================================================
