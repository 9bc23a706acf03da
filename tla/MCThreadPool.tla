---------------------------- MODULE MCThreadPool ----------------------------
(* Instances of ThreadPool for TLC.  No symmetry: the run checks liveness. *)
EXTENDS ThreadPool
=============================================================================
