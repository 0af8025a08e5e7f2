------------------------- MODULE MCTaskDownloader -------------------------
(* Instances of TaskDownloader for TLC; see the .cfg files for the bounds. *)
EXTENDS TaskDownloader, TLC

\* Tasks and kickers are interchangeable: only used for safety.
Symmetry == Permutations(Tasks) \cup Permutations(Kickers)
===========================================================================
