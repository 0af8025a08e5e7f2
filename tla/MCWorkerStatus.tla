-------------------------- MODULE MCWorkerStatus ---------------------------
(* Instances of WorkerStatus for TLC; see the .cfg files for the bounds. *)
EXTENDS WorkerStatus, TLC
============================================================================
