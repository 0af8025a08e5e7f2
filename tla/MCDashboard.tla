---------------------------- MODULE MCDashboard ----------------------------
(* Instances of Dashboard for TLC; see the .cfg files for the bounds. *)
EXTENDS Dashboard, TLC
===========================================================================
