--------------------------- MODULE MCUpdateQueue ---------------------------
(* Instances of UpdateQueue for TLC; see the .cfg files for the bounds. *)
EXTENDS UpdateQueue, TLC

\* Tasks and writers are interchangeable: only used for safety.
Symmetry == Permutations(Tasks) \cup Permutations(Writers)
=============================================================================
