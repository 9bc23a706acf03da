----------------------------- MODULE RingBuffer -----------------------------
(***************************************************************************)
(* RingBuffer of mjber/logger.h: N slots and two positions; push on a full *)
(* buffer overwrites the oldest entry.  Every operation holds the buffer's *)
(* own mutex from its first to its last line, so it is one step.           *)
(***************************************************************************)
EXTENDS Naturals, Sequences

CONSTANTS N,      \* BUFFER_SIZE
          Entry   \* what is stored: LogEvent

ASSUME RingAssumption == N \in Nat \ {0}

VARIABLES buffer, head, tail, count

ring == <<buffer, head, tail, count>>

(* The constructor; what the slots hold before the first push is never     *)
(* read.                                                                   *)
RingInit == /\ buffer \in [0..N-1 -> Entry]
            /\ head = 0
            /\ tail = 0
            /\ count = 0

Succ(i) == (i + 1) % N

(* Mutants: a full buffer keeps its head, or refuses the new entry.        *)
PushKeepHead(e) == /\ UNCHANGED head
                   /\ count' = IF count = N THEN count ELSE count + 1
                   /\ buffer' = [buffer EXCEPT ![tail] = e]
                   /\ tail' = Succ(tail)
PushRefuse(e) == IF count = N THEN UNCHANGED ring ELSE PushKeepHead(e)

push(e) == /\ IF count = N THEN head' = Succ(head) /\ UNCHANGED count
                           ELSE count' = count + 1 /\ UNCHANGED head
           /\ buffer' = [buffer EXCEPT ![tail] = e]
           /\ tail' = Succ(tail)

(* pop with something to take: the entry it returns is Oldest.  With       *)
(* count = 0 it returns false and changes nothing.                         *)
Oldest == buffer[head]
pop == /\ count > 0
       /\ head' = Succ(head)
       /\ count' = count - 1
       /\ UNCHANGED <<buffer, tail>>

empty == count = 0

(* The entries the buffer holds, oldest first: position i is this slot.    *)
Slot(i) == (head + i - 1) % N
Contents == [i \in 1..count |-> buffer[Slot(i)]]

RingTypeOK == /\ buffer \in [0..N-1 -> Entry]
              /\ head \in 0..N-1
              /\ tail \in 0..N-1
              /\ count \in 0..N

(* tail is where the entry after the newest goes.                          *)
Aligned == tail = (head + count) % N
=============================================================================
