----------------------------- MODULE BoundedLog -----------------------------
(***************************************************************************)
(* What RingBuffer promises: a queue of at most N entries that forgets its *)
(* oldest entry when one more is put into it.                              *)
(***************************************************************************)
EXTENDS Naturals, Sequences

CONSTANTS N, Entry

VARIABLE log

Init == log = <<>>

Put(e) == log' = Append(IF Len(log) = N THEN Tail(log) ELSE log, e)

Take == log # <<>> /\ log' = Tail(log)

Next == Take \/ \E e \in Entry : Put(e)

Spec == Init /\ [][Next]_log
=============================================================================
