--------------------------- MODULE MCLogUploader ---------------------------
(* Instances of LogUploader for TLC; see the .cfg files for the bounds. *)
EXTENDS LogUploader, TLC

\* Logs and requesters are interchangeable: only used for safety.
Symmetry == Permutations(Logs) \cup Permutations(Requesters)
============================================================================
