----------------------------- MODULE ThreadPool -----------------------------
(***************************************************************************)
(* The thread pool of mjber/thread_pool.h: a queue of tasks under          *)
(* queue_mutex, workers that wait on one condition variable, and a         *)
(* destructor that sets stop, wakes everyone and joins.                    *)
(*                                                                         *)
(* A critical section of queue_mutex touches the pool's state only while   *)
(* the mutex is held, so it is one step.  What the code does after         *)
(* releasing the mutex (notify_one, notify_all, running the task) is a     *)
(* step of its own, so every interleaving with the other threads is kept.  *)
(***************************************************************************)
EXTENDS Naturals, Sequences, FiniteSets

CONSTANTS Worker,   \* the threads the constructor starts
          Client,   \* threads outside the pool that call enqueue
          MaxTask   \* bound: number of tasks accepted in one behaviour

ASSUME PoolAssumption == /\ IsFiniteSet(Worker)
                         /\ IsFiniteSet(Client)
                         /\ Worker \cap Client = {}
                         /\ MaxTask \in Nat

VARIABLES tasks,    \* the queue, oldest task first
          stop,     \* set once by stopWork
          pc,       \* where each thread is
          cur,      \* the task a worker executes, 0 when it has none
          done,     \* history: the tasks that have been executed
          accepted, \* history: number of tasks enqueue has accepted
          refused,  \* history: the threads whose enqueue threw
          dtor      \* progress of the destructor

vars == <<tasks, stop, pc, cur, done, accepted, refused, dtor>>

Thread == Worker \cup Client
Task == 1..MaxTask

(* "check": about to take queue_mutex and evaluate the predicate;          *)
(* "wait": blocked in condition.wait; "run": executing a task; "notify":   *)
(* in enqueue, between releasing queue_mutex and notify_one; "exit": the   *)
(* thread function has returned.  A client is "idle" outside enqueue.      *)
WorkerPC == {"check", "wait", "run", "notify", "exit"}
ClientPC == {"idle", "notify"}

TypeOK == /\ tasks \in Seq(Task)
          /\ stop \in BOOLEAN
          /\ pc \in [Thread -> WorkerPC \cup ClientPC]
          /\ \A w \in Worker : pc[w] \in WorkerPC
          /\ \A c \in Client : pc[c] \in ClientPC
          /\ cur \in [Worker -> 0..MaxTask]
          /\ done \in SUBSET Task
          /\ accepted \in 0..MaxTask
          /\ refused \in SUBSET Thread
          /\ dtor \in {"alive", "stopping", "joining", "joined"}

Waiters == {w \in Worker : pc[w] = "wait"}
Awake == {w \in Worker : pc[w] = "check"}
Notifiers == {t \in Thread : pc[t] = "notify"}

Init == /\ tasks = <<>>
        /\ stop = FALSE
        /\ pc = [t \in Thread |-> IF t \in Worker THEN "check" ELSE "idle"]
        /\ cur = [w \in Worker |-> 0]
        /\ done = {}
        /\ accepted = 0
        /\ refused = {}
        /\ dtor = "alive"

-----------------------------------------------------------------------------
(* enqueue, called by a client or by the task a worker is executing.       *)
MayCall(t) == pc[t] \in {"idle", "run"} /\ dtor # "joined"

(* Mutant: notify only when the queue was empty.                           *)
EnqueueNotifyIfEmpty(t) ==
    /\ MayCall(t)
    /\ ~stop
    /\ accepted < MaxTask
    /\ accepted' = accepted + 1
    /\ tasks' = Append(tasks, accepted + 1)
    /\ pc' = IF tasks = <<>> THEN [pc EXCEPT ![t] = "notify"] ELSE pc
    /\ UNCHANGED <<stop, cur, done, refused, dtor>>

(* Mutant: the stop flag is not tested under the mutex.                    *)
EnqueueWhenStopped(t) ==
    /\ MayCall(t)
    /\ accepted < MaxTask
    /\ accepted' = accepted + 1
    /\ tasks' = Append(tasks, accepted + 1)
    /\ pc' = [pc EXCEPT ![t] = "notify"]
    /\ UNCHANGED <<stop, cur, done, refused, dtor>>

Enqueue(t) ==
    /\ MayCall(t)
    /\ ~stop
    /\ accepted < MaxTask
    /\ accepted' = accepted + 1
    /\ tasks' = Append(tasks, accepted + 1)
    /\ pc' = [pc EXCEPT ![t] = "notify"]
    /\ UNCHANGED <<stop, cur, done, refused, dtor>>

EnqueueThrow(t) ==
    /\ MayCall(t)
    /\ stop
    /\ refused' = refused \cup {t}
    /\ UNCHANGED <<tasks, stop, pc, cur, done, accepted, dtor>>

(* Where a thread continues after enqueue has returned.                    *)
Home(t) == IF t \in Worker THEN "run" ELSE "idle"

NotifyOne(t) ==
    /\ pc[t] = "notify"
    /\ \/ /\ Waiters = {}
          /\ pc' = [pc EXCEPT ![t] = Home(t)]
       \/ \E w \in Waiters : pc' = [pc EXCEPT ![t] = Home(t), ![w] = "check"]
    /\ UNCHANGED <<tasks, stop, cur, done, accepted, refused, dtor>>

-----------------------------------------------------------------------------
(* The worker's loop.                                                      *)

WaitForTask(w) ==
    /\ pc[w] = "check"
    /\ ~stop
    /\ tasks = <<>>
    /\ pc' = [pc EXCEPT ![w] = "wait"]
    /\ UNCHANGED <<tasks, stop, cur, done, accepted, refused, dtor>>

(* condition.wait may return without a notification.                       *)
SpuriousWakeup(w) ==
    /\ pc[w] = "wait"
    /\ pc' = [pc EXCEPT ![w] = "check"]
    /\ UNCHANGED <<tasks, stop, cur, done, accepted, refused, dtor>>

(* Mutant: the task is copied from the front but not popped.               *)
PopTaskForgetPop(w) ==
    /\ pc[w] = "check"
    /\ tasks # <<>>
    /\ cur' = [cur EXCEPT ![w] = Head(tasks)]
    /\ pc' = [pc EXCEPT ![w] = "run"]
    /\ UNCHANGED <<tasks, stop, done, accepted, refused, dtor>>

PopTask(w) ==
    /\ pc[w] = "check"
    /\ tasks # <<>>
    /\ cur' = [cur EXCEPT ![w] = Head(tasks)]
    /\ tasks' = Tail(tasks)
    /\ pc' = [pc EXCEPT ![w] = "run"]
    /\ UNCHANGED <<stop, done, accepted, refused, dtor>>

(* The task returns, or throws into its packaged_task.                     *)
FinishTask(w) ==
    /\ pc[w] = "run"
    /\ done' = done \cup {cur[w]}
    /\ cur' = [cur EXCEPT ![w] = 0]
    /\ pc' = [pc EXCEPT ![w] = "check"]
    /\ UNCHANGED <<tasks, stop, accepted, refused, dtor>>

(* Mutant: a stopped worker returns without looking at the queue.          *)
ExitUndrained(w) ==
    /\ pc[w] = "check"
    /\ stop
    /\ pc' = [pc EXCEPT ![w] = "exit"]
    /\ UNCHANGED <<tasks, stop, cur, done, accepted, refused, dtor>>

ExitLoop(w) ==
    /\ pc[w] = "check"
    /\ stop
    /\ tasks = <<>>
    /\ pc' = [pc EXCEPT ![w] = "exit"]
    /\ UNCHANGED <<tasks, stop, cur, done, accepted, refused, dtor>>

-----------------------------------------------------------------------------
(* The destructor: stopWork, then join.                                    *)

StopWork ==
    /\ dtor = "alive"
    /\ stop' = TRUE
    /\ dtor' = "stopping"
    /\ UNCHANGED <<tasks, pc, cur, done, accepted, refused>>

(* Mutant: stopWork wakes one worker only.                                 *)
NotifyAllWakesOne ==
    /\ dtor = "stopping"
    /\ dtor' = "joining"
    /\ \/ Waiters = {} /\ pc' = pc
       \/ \E w \in Waiters : pc' = [pc EXCEPT ![w] = "check"]
    /\ UNCHANGED <<tasks, stop, cur, done, accepted, refused>>

NotifyAll ==
    /\ dtor = "stopping"
    /\ dtor' = "joining"
    /\ pc' = [t \in Thread |-> IF pc[t] = "wait" THEN "check" ELSE pc[t]]
    /\ UNCHANGED <<tasks, stop, cur, done, accepted, refused>>

JoinWorkers ==
    /\ dtor = "joining"
    /\ \A w \in Worker : pc[w] = "exit"
    /\ dtor' = "joined"
    /\ UNCHANGED <<tasks, stop, pc, cur, done, accepted, refused>>

Terminated == dtor = "joined" /\ UNCHANGED vars

-----------------------------------------------------------------------------
WorkerStep(w) == \/ WaitForTask(w)
                 \/ SpuriousWakeup(w)
                 \/ PopTask(w)
                 \/ FinishTask(w)
                 \/ ExitLoop(w)

Next == \/ \E t \in Thread : Enqueue(t) \/ EnqueueThrow(t) \/ NotifyOne(t)
        \/ \E w \in Worker : WorkerStep(w)
        \/ StopWork
        \/ NotifyAll
        \/ JoinWorkers
        \/ Terminated

Safety == Init /\ [][Next]_vars

(* Threads are scheduled and tasks end; nobody is obliged to call enqueue  *)
(* or the destructor, and nothing relies on spurious wake-ups.             *)
Fairness == /\ \A w \in Worker : /\ WF_vars(PopTask(w))
                                 /\ WF_vars(FinishTask(w))
                                 /\ WF_vars(WaitForTask(w))
                                 /\ WF_vars(ExitLoop(w))
            /\ \A t \in Thread : WF_vars(NotifyOne(t))
            /\ WF_vars(NotifyAll)
            /\ WF_vars(JoinWorkers)

Spec == Safety /\ Fairness

-----------------------------------------------------------------------------
Executing == {cur[w] : w \in Worker} \ {0}
Taken == 1..(accepted - Len(tasks))

(* The queue holds the tasks accepted last, in the order of acceptance.    *)
QueueInOrder ==
    /\ Len(tasks) <= accepted
    /\ \A i \in 1..Len(tasks) : tasks[i] = accepted - Len(tasks) + i

(* A worker has a task exactly while it is executing one, or is inside an  *)
(* enqueue called by the task it executes.                                 *)
BusyWorkers ==
    \A w \in Worker : (cur[w] # 0) <=> (pc[w] \in {"run", "notify"})

(* No task is executed by two workers, or again after it was done.         *)
ExecutedOnce ==
    /\ \A w \in Worker : cur[w] \notin done
    /\ \A v, w \in Worker : v # w /\ cur[v] # 0 => cur[v] # cur[w]

(* Every accepted task is in exactly one place, and the tasks leave the    *)
(* queue in the order enqueue accepted them: those not in the queue are    *)
(* an initial segment, each executing on one worker or done.               *)
Accounted == /\ QueueInOrder
             /\ BusyWorkers
             /\ done \cup Executing = Taken
             /\ ExecutedOnce

(* No task is stranded: while a worker sleeps in condition.wait, each      *)
(* queued task has a worker already on its way to the queue or a           *)
(* notify_one still to come.  This is what rules out a lost wake-up.       *)
NoStrandedTask ==
    Waiters # {} => Len(tasks) <= Cardinality(Awake) + Cardinality(Notifiers)

(* A worker thread returns only when the pool is stopped and the queue is  *)
(* empty, and the queue then stays empty: shutdown loses no task.          *)
DrainedBeforeExit ==
    (\E w \in Worker : pc[w] = "exit") => stop /\ tasks = <<>>

(* When the destructor has joined the workers, every task that enqueue     *)
(* accepted has been executed (for a pool with at least one worker).       *)
AllDoneWhenJoined ==
    dtor = "joined" /\ Worker # {} => done = 1..accepted

(* An accepted task is executed, whatever the destructor does.             *)
EveryTaskRuns == \A n \in Task : (accepted >= n) ~> (n \in done)

(* The destructor returns: no worker sleeps through the stop.              *)
ShutdownCompletes == stop ~> (dtor = "joined")

Promise == INSTANCE TaskPool WITH
    queue <- tasks,
    running <- cur,
    open <- ~stop,
    live <- {w \in Worker : pc[w] # "exit"}

(* The pool implements TaskPool, fairness included.                        *)
ImplementsTaskPool == Promise!Spec
=============================================================================
