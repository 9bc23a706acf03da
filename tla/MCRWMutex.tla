----------------------------- MODULE MCRWMutex ------------------------------
(* Instances of RWMutex for TLC.  No symmetry: the run checks liveness.    *)
EXTENDS RWMutex
=============================================================================
