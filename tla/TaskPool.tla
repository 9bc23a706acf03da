------------------------------ MODULE TaskPool ------------------------------
(***************************************************************************)
(* What a thread pool promises to those who hand it work, without locks,   *)
(* condition variables or wake-ups: an accepted task is taken by exactly   *)
(* one worker, in the order of acceptance; a closed pool accepts nothing;  *)
(* a worker retires only once the pool is closed and the queue is empty.   *)
(* ThreadPool.tla (mjber/thread_pool.h) is shown to implement it.          *)
(***************************************************************************)
EXTENDS Naturals, Sequences

CONSTANTS Worker,   \* the pool's threads
          MaxTask   \* bound: number of tasks accepted in one behaviour

VARIABLES queue,    \* accepted tasks not yet taken, oldest first
          running,  \* the task each worker executes, 0 when it has none
          done,     \* the tasks that have been executed
          accepted, \* number of accepted tasks; task n is the n-th accepted
          open,     \* whether the pool accepts tasks
          live      \* the workers that have not retired

vars == <<queue, running, done, accepted, open, live>>

Init == /\ queue = <<>>
        /\ running = [w \in Worker |-> 0]
        /\ done = {}
        /\ accepted = 0
        /\ open = TRUE
        /\ live = Worker

Submit == /\ open
          /\ accepted < MaxTask
          /\ accepted' = accepted + 1
          /\ queue' = Append(queue, accepted + 1)
          /\ UNCHANGED <<running, done, open, live>>

Take(w) == /\ w \in live
           /\ running[w] = 0
           /\ queue # <<>>
           /\ running' = [running EXCEPT ![w] = Head(queue)]
           /\ queue' = Tail(queue)
           /\ UNCHANGED <<done, accepted, open, live>>

Finish(w) == /\ running[w] # 0
             /\ done' = done \cup {running[w]}
             /\ running' = [running EXCEPT ![w] = 0]
             /\ UNCHANGED <<queue, accepted, open, live>>

Close == /\ open
         /\ open' = FALSE
         /\ UNCHANGED <<queue, running, done, accepted, live>>

Retire(w) == /\ ~open
             /\ w \in live
             /\ running[w] = 0
             /\ queue = <<>>
             /\ live' = live \ {w}
             /\ UNCHANGED <<queue, running, done, accepted, open>>

Next == \/ Submit
        \/ Close
        \/ \E w \in Worker : Take(w) \/ Finish(w) \/ Retire(w)

Safety == Init /\ [][Next]_vars

(* Work is never left while a worker is free, a taken task ends, and every *)
(* worker retires once the pool is closed and drained.                     *)
Spec == /\ Safety
        /\ WF_vars(\E w \in Worker : Take(w))
        /\ \A w \in Worker : WF_vars(Finish(w)) /\ WF_vars(Retire(w))
=============================================================================
