-------------------------- MODULE MCTaskLifecycle --------------------------
(* Instances of TaskLifecycle for TLC; see the .cfg files for the bounds. *)
EXTENDS TaskLifecycle, TLC

\* Workers and request slots are interchangeable: only used for safety.
Symmetry == Permutations(Workers) \cup Permutations(Requests)
=============================================================================
