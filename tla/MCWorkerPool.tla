---------------------------- MODULE MCWorkerPool ----------------------------
(***************************************************************************)
(* Instances of WorkerPool for TLC; the bounds are in the .cfg files.      *)
(***************************************************************************)
EXTENDS PoolInvariant

=============================================================================
