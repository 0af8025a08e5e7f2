---------------------------- MODULE MCWebSetup -----------------------------
(* Instances of WebSetup for TLC; see the .cfg files for the bounds. *)
EXTENDS WebSetup, TLC
============================================================================
