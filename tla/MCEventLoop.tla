---------------------------- MODULE MCEventLoop ----------------------------
(* Instances of EventLoop for TLC: one fiber of each role, or several      *)
(* readers.                                                                *)
EXTENDS EventLoop, TLC

CONSTANTS a1, r1, r2, w1

Roles == [f \in Fiber |-> CASE f = a1 -> "accept" [] f = w1 -> "write" [] OTHER -> "read"]

(* Readers are interchangeable: used by runs that check invariants only.   *)
ReaderSymmetry == Permutations({r1, r2})
=============================================================================
