------------------------- MODULE MCVariableEditor --------------------------
(* Instances of VariableEditor for TLC; see the .cfg files for the bounds. *)
EXTENDS VariableEditor, TLC

Symmetry == Permutations(Platforms) \cup Permutations(Values)
============================================================================
