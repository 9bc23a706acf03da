-------------------------- MODULE MCFiberScheduler --------------------------
(* Instances of FiberScheduler for TLC.                                    *)
EXTENDS FiberScheduler, TLC

(* Workers are interchangeable, and so are callers: used by runs that      *)
(* check invariants only.                                                  *)
ThreadSymmetry == Permutations(Worker) \cup Permutations(Caller)
=============================================================================
