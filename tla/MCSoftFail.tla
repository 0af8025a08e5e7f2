----------------------------- MODULE MCSoftFail -----------------------------
(* Instances of SoftFail for TLC; see the .cfg files for the bounds. *)
EXTENDS SoftFail, TLC

\* Only used for safety.
Symmetry == Permutations(Workers) \cup Permutations(Requests) \cup Permutations(Tasks)
=============================================================================
