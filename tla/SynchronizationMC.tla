------------------------- MODULE SynchronizationMC -------------------------
(* Model-checking instance of Synchronization. *)
EXTENDS Synchronization, TLC

\* Processes are interchangeable: only their identity is ever compared.
Symmetry == Permutations(Proc)
=============================================================================
