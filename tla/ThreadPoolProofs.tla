-------------------------- MODULE ThreadPoolProofs --------------------------
(***************************************************************************)
(* Proofs about ThreadPool (mjber/thread_pool.h), for any finite sets of   *)
(* workers and clients and any number of tasks.                            *)
(***************************************************************************)
EXTENDS ThreadPool, FiniteSetTheorems, TLAPS

(* The sets that the notification argument counts are finite.              *)
LEMMA ThreadSetsFinite ==
    /\ IsFiniteSet(Thread)
    /\ \A S \in SUBSET Thread : IsFiniteSet(S) /\ Cardinality(S) \in Nat
<1>1. IsFiniteSet(Thread)
  BY PoolAssumption, FS_Union DEF Thread
<1> QED
  BY <1>1, FS_Subset, FS_CardinalityType

(* Moving one element out of a finite set and into another.                *)
LEMMA CountAdd ==
    ASSUME NEW S, IsFiniteSet(S), NEW x, x \notin S
    PROVE  Cardinality(S \cup {x}) = Cardinality(S) + 1
BY FS_AddElement

LEMMA CountRemove ==
    ASSUME NEW S, IsFiniteSet(S), NEW x, x \in S
    PROVE  Cardinality(S \ {x}) = Cardinality(S) - 1 /\ Cardinality(S) >= 1
<1>1. Cardinality(S \ {x}) = Cardinality(S) - 1
  BY FS_RemoveElement
<1>2. Cardinality(S \ {x}) \in Nat /\ Cardinality(S) \in Nat
  BY FS_RemoveElement, FS_CardinalityType
<1> QED
  BY <1>1, <1>2

-----------------------------------------------------------------------------
(* TypeOK is not inductive by itself: that a finished task is a task needs *)
(* BusyWorkers.                                                            *)
TypeInv == TypeOK /\ BusyWorkers

LEMMA TypeInit == Init => TypeInv
<1> SUFFICES ASSUME Init PROVE TypeInv
  OBVIOUS
<1> USE PoolAssumption DEF Init, Thread, WorkerPC, ClientPC, Task
<1>1. pc \in [Thread -> WorkerPC \cup ClientPC]
  OBVIOUS
<1>2. \A c \in Client : pc[c] = "idle"
  OBVIOUS
<1>3. \A w \in Worker : pc[w] = "check" /\ cur[w] = 0
  OBVIOUS
<1>4. tasks \in Seq(Task)
  OBVIOUS
<1>5. cur \in [Worker -> 0..MaxTask] /\ accepted \in 0..MaxTask
  OBVIOUS
<1> QED
  BY <1>1, <1>2, <1>3, <1>4, <1>5 DEF TypeInv, TypeOK, BusyWorkers

LEMMA TypeStep == TypeInv /\ [Next]_vars => TypeInv'
<1> SUFFICES ASSUME TypeInv, [Next]_vars
             PROVE  TypeInv'
  OBVIOUS
<1> USE PoolAssumption
    DEF TypeInv, TypeOK, BusyWorkers, Thread, WorkerPC, ClientPC, Task
<1>1. ASSUME NEW t \in Thread, Enqueue(t)
      PROVE  TypeInv'
  <2>1. accepted + 1 \in Task /\ tasks' \in Seq(Task)
    BY <1>1 DEF Enqueue
  <2>2. pc' = [pc EXCEPT ![t] = "notify"] /\ pc[t] \in {"idle", "run"}
    BY <1>1 DEF Enqueue, MayCall
  <2>3. t \in Worker => pc[t] = "run" /\ cur[t] # 0
    BY <2>2
  <2> QED
    BY <1>1, <2>1, <2>2, <2>3 DEF Enqueue
<1>2. ASSUME NEW t \in Thread, EnqueueThrow(t)
      PROVE  TypeInv'
  BY <1>2 DEF EnqueueThrow
<1>3. ASSUME NEW t \in Thread, NotifyOne(t)
      PROVE  TypeInv'
  BY <1>3 DEF NotifyOne, Home, Waiters
<1>4. ASSUME NEW w \in Worker, WaitForTask(w)
      PROVE  TypeInv'
  BY <1>4 DEF WaitForTask
<1>5. ASSUME NEW w \in Worker, SpuriousWakeup(w)
      PROVE  TypeInv'
  BY <1>5 DEF SpuriousWakeup
<1>6. ASSUME NEW w \in Worker, PopTask(w)
      PROVE  TypeInv'
  BY <1>6 DEF PopTask
<1>7. ASSUME NEW w \in Worker, FinishTask(w)
      PROVE  TypeInv'
  <2>1. cur[w] \in Task
    BY <1>7 DEF FinishTask
  <2>2. done' \in SUBSET Task
    BY <1>7, <2>1 DEF FinishTask
  <2> QED
    BY <1>7, <2>2 DEF FinishTask
<1>8. ASSUME NEW w \in Worker, ExitLoop(w)
      PROVE  TypeInv'
  BY <1>8 DEF ExitLoop
<1>9. CASE StopWork
  BY <1>9 DEF StopWork
<1>10. CASE NotifyAll
  BY <1>10 DEF NotifyAll
<1>11. CASE JoinWorkers
  BY <1>11 DEF JoinWorkers
<1>12. CASE UNCHANGED vars
  BY <1>12 DEF vars
<1> QED
  BY <1>1, <1>2, <1>3, <1>4, <1>5, <1>6, <1>7, <1>8, <1>9, <1>10, <1>11, <1>12
  DEF Next, WorkerStep, Terminated

(* Every variable keeps its type: a worker is always at a place of the     *)
(* worker's loop or of enqueue, a client always in or outside enqueue.     *)
THEOREM TypeCorrect == Safety => []TypeOK
<1>1. TypeInv => TypeOK
  BY DEF TypeInv
<1> QED
  BY TypeInit, TypeStep, <1>1, PTL DEF Safety

-----------------------------------------------------------------------------
LEMMA AccountedStep ==
    ASSUME TypeInv, Accounted, [Next]_vars
    PROVE  Accounted'
<1> USE PoolAssumption DEF Thread, Task, TypeInv, TypeOK
<1> USE DEF Accounted, QueueInOrder, BusyWorkers, ExecutedOnce, Executing, Taken
<1>0. BusyWorkers'
  BY TypeStep
<1>1. ASSUME NEW t \in Thread, Enqueue(t)
      PROVE  Accounted'
  <2>1. /\ Len(tasks') = Len(tasks) + 1
        /\ \A i \in 1..Len(tasks) : tasks'[i] = tasks[i]
        /\ tasks'[Len(tasks) + 1] = accepted + 1
        /\ accepted' = accepted + 1
        /\ UNCHANGED <<cur, done>>
    BY <1>1 DEF Enqueue
  <2>2. QueueInOrder'
    <3>1. Len(tasks) \in Nat /\ Len(tasks') <= accepted'
      BY <2>1
    <3>2. ASSUME NEW i \in 1..Len(tasks')
          PROVE  tasks'[i] = accepted' - Len(tasks') + i
      <4>1. i \in 1..Len(tasks) \/ i = Len(tasks) + 1
        BY <2>1, <3>1
      <4>2. accepted' - Len(tasks') = accepted - Len(tasks)
        BY <2>1, <3>1
      <4>3. CASE i \in 1..Len(tasks)
        BY <2>1, <4>2, <4>3
      <4>4. CASE i = Len(tasks) + 1
        <5>1. tasks'[i] = accepted + 1
          BY <2>1, <4>4
        <5>2. accepted' - Len(tasks') + i = accepted + 1
          BY <3>1, <4>2, <4>4
        <5> QED
          BY <5>1, <5>2
      <4> QED
        BY <4>1, <4>3, <4>4
    <3> QED
      BY <3>1, <3>2
  <2> QED
    BY <1>0, <2>1, <2>2
<1>2. ASSUME NEW w \in Worker, PopTask(w)
      PROVE  Accounted'
  <2>1. cur[w] = 0
    BY <1>2 DEF PopTask
  <2>2. /\ Len(tasks') = Len(tasks) - 1
        /\ \A i \in 1..Len(tasks') : tasks'[i] = tasks[i + 1]
        /\ UNCHANGED <<accepted, done>>
        /\ Len(tasks) \in Nat /\ Len(tasks) >= 1
    BY <1>2 DEF PopTask
  <2>3. cur' = [cur EXCEPT ![w] = accepted - Len(tasks) + 1]
    <3>1. Head(tasks) = tasks[1] /\ tasks[1] = accepted - Len(tasks) + 1
      BY <2>2
    <3> QED
      BY <1>2, <3>1 DEF PopTask
  <2>4. QueueInOrder'
    <3>1. ASSUME NEW i \in 1..Len(tasks')
          PROVE  tasks'[i] = accepted' - Len(tasks') + i
      <4>1. i + 1 \in 1..Len(tasks)
        BY <2>2
      <4>2. tasks[i + 1] = accepted - Len(tasks) + (i + 1)
        BY <4>1
      <4> QED
        BY <2>2, <4>2
    <3> QED
      BY <2>2, <3>1
  <2>5. accepted - Len(tasks) + 1 \notin done \cup Executing
    BY <2>2
  <2>6. Executing' = Executing \cup {accepted - Len(tasks) + 1}
    BY <2>1, <2>2, <2>3
  <2>7. Taken' = Taken \cup {accepted - Len(tasks) + 1}
    BY <2>2
  <2>8. ExecutedOnce'
    BY <2>2, <2>3, <2>5
  <2> QED
    BY <1>0, <2>2, <2>4, <2>6, <2>7, <2>8
<1>3. ASSUME NEW w \in Worker, FinishTask(w)
      PROVE  Accounted'
  <2>1. /\ cur[w] # 0
        /\ cur' = [cur EXCEPT ![w] = 0]
        /\ done' = done \cup {cur[w]}
        /\ UNCHANGED <<tasks, accepted>>
    BY <1>3 DEF FinishTask
  <2>2. done' \cup Executing' = done \cup Executing
    BY <2>1
  <2>3. ExecutedOnce'
    BY <2>1
  <2> QED
    BY <1>0, <2>1, <2>2, <2>3
<1>4. CASE UNCHANGED <<tasks, cur, done, accepted>>
  BY <1>0, <1>4
<1> QED
  BY <1>1, <1>2, <1>3, <1>4
  DEF Next, WorkerStep, Terminated, EnqueueThrow, NotifyOne, WaitForTask,
      SpuriousWakeup, ExitLoop, StopWork, NotifyAll, JoinWorkers, vars

(* Every accepted task is queued, executing on one worker or done, and     *)
(* tasks are taken in the order enqueue accepted them.                     *)
THEOREM TasksAccounted == Safety => []Accounted
<1>1. Init => Accounted
  BY DEF Init, Accounted, QueueInOrder, BusyWorkers, ExecutedOnce, Executing, Taken, Thread
<1> QED
  BY TypeInit, TypeStep, AccountedStep, <1>1, PTL DEF Safety

-----------------------------------------------------------------------------
(* Shutdown.  joined is reached only when all workers have returned, and a *)
(* worker that has returned takes no further step.                         *)
JoinedMeansExited ==
    /\ stop <=> dtor # "alive"
    /\ dtor = "joined" => \A w \in Worker : pc[w] = "exit"

LEMMA ShutdownStep ==
    ASSUME TypeInv, DrainedBeforeExit, JoinedMeansExited, [Next]_vars
    PROVE  DrainedBeforeExit' /\ JoinedMeansExited'
<1> USE DEF TypeInv, TypeOK, DrainedBeforeExit, JoinedMeansExited, Thread
<1>1. ASSUME NEW t \in Thread, Enqueue(t)
      PROVE  DrainedBeforeExit' /\ JoinedMeansExited'
  BY <1>1 DEF Enqueue, MayCall
<1>2. ASSUME NEW t \in Thread, NotifyOne(t)
      PROVE  DrainedBeforeExit' /\ JoinedMeansExited'
  BY <1>2 DEF NotifyOne, Home, Waiters
<1>3. ASSUME NEW w \in Worker, WorkerStep(w)
      PROVE  DrainedBeforeExit' /\ JoinedMeansExited'
  BY <1>3 DEF WorkerStep, WaitForTask, SpuriousWakeup, PopTask, FinishTask, ExitLoop
<1>4. CASE StopWork \/ NotifyAll \/ JoinWorkers
  BY <1>4 DEF StopWork, NotifyAll, JoinWorkers
<1>5. ASSUME UNCHANGED <<tasks, stop, pc, dtor>>
      PROVE  DrainedBeforeExit' /\ JoinedMeansExited'
  BY <1>5
<1> QED
  BY <1>1, <1>2, <1>3, <1>4, <1>5 DEF Next, Terminated, EnqueueThrow, vars

LEMMA ShutdownInit == Init => DrainedBeforeExit /\ JoinedMeansExited
BY DEF Init, DrainedBeforeExit, JoinedMeansExited, Thread

(* A worker thread returns only from a stopped pool with an empty queue,   *)
(* and nothing is queued after that.                                       *)
THEOREM PoolDrainedBeforeExit == Safety => []DrainedBeforeExit
BY TypeInit, TypeStep, ShutdownInit, ShutdownStep, PTL DEF Safety

(* When the destructor returns, every accepted task has been executed.     *)
THEOREM DestructorLosesNoTask == Safety => []AllDoneWhenJoined
<1>1. Init => Accounted
  BY DEF Init, Accounted, QueueInOrder, BusyWorkers, ExecutedOnce, Executing, Taken, Thread
<1>2. ASSUME TypeInv, Accounted, DrainedBeforeExit, JoinedMeansExited
      PROVE  AllDoneWhenJoined
  <2> SUFFICES ASSUME dtor = "joined", Worker # {}
               PROVE  done = 1..accepted
    BY DEF AllDoneWhenJoined
  <2>1. \A w \in Worker : pc[w] = "exit" /\ cur[w] = 0
    BY <1>2 DEF JoinedMeansExited, Accounted, BusyWorkers
  <2>2. tasks = <<>>
    BY <1>2, <2>1 DEF DrainedBeforeExit
  <2>3. Executing = {}
    BY <2>1 DEF Executing
  <2>4. Taken = 1..accepted
    BY <1>2, <2>2 DEF Taken, TypeInv, TypeOK
  <2> QED
    BY <1>2, <2>3, <2>4 DEF Accounted
<1> QED
  BY TypeInit, TypeStep, AccountedStep, ShutdownInit, ShutdownStep, <1>1, <1>2, PTL
  DEF Safety

-----------------------------------------------------------------------------
(* The notification argument.  A push adds one pending notify_one; a       *)
(* notify_one adds a worker on its way to the queue, or finds none asleep; *)
(* a worker that takes a task removes one task; and a worker starts to     *)
(* sleep only when the queue is empty.                                     *)
LEMMA NotificationStep ==
    ASSUME TypeInv, NoStrandedTask, [Next]_vars
    PROVE  NoStrandedTask'
<1> USE DEF TypeInv, TypeOK, Thread, Waiters, Awake, Notifiers
<1> SUFFICES ASSUME Waiters' # {}
             PROVE  Len(tasks)' <= Cardinality(Awake)' + Cardinality(Notifiers)'
  BY DEF NoStrandedTask
<1>1. /\ Len(tasks) \in Nat
      /\ Awake \in SUBSET Thread /\ IsFiniteSet(Awake) /\ Cardinality(Awake) \in Nat
      /\ Notifiers \in SUBSET Thread /\ IsFiniteSet(Notifiers) /\ Cardinality(Notifiers) \in Nat
  BY ThreadSetsFinite
<1>10. ASSUME Waiters # {}
       PROVE  Len(tasks) <= Cardinality(Awake) + Cardinality(Notifiers)
  BY <1>10 DEF NoStrandedTask
<1>2. ASSUME NEW t \in Thread, Enqueue(t)
      PROVE  Len(tasks)' <= Cardinality(Awake)' + Cardinality(Notifiers)'
  <2>1. Awake' = Awake /\ Waiters' = Waiters
    BY <1>2 DEF Enqueue, MayCall
  <2>2. Notifiers' = Notifiers \cup {t} /\ t \notin Notifiers
    BY <1>2 DEF Enqueue, MayCall
  <2>3. Cardinality(Notifiers)' = Cardinality(Notifiers) + 1
    BY <1>1, <2>2, CountAdd
  <2>4. Len(tasks)' = Len(tasks) + 1
    BY <1>2 DEF Enqueue
  <2>5. Cardinality(Awake)' = Cardinality(Awake)
    BY <2>1
  <2>6. Len(tasks) <= Cardinality(Awake) + Cardinality(Notifiers)
    BY <1>10, <2>1
  <2> HIDE DEF Waiters, Awake, Notifiers
  <2> QED
    BY <1>1, <2>3, <2>4, <2>5, <2>6
<1>3. ASSUME NEW t \in Thread, NotifyOne(t)
      PROVE  Len(tasks)' <= Cardinality(Awake)' + Cardinality(Notifiers)'
  <2>1. PICK w \in Waiters : pc' = [pc EXCEPT ![t] = Home(t), ![w] = "check"]
    BY <1>3 DEF NotifyOne, Home
  <2>2. Awake' = Awake \cup {w} /\ w \notin Awake
    BY <1>3, <2>1 DEF NotifyOne, Home
  <2>3. Notifiers' = Notifiers \ {t} /\ t \in Notifiers
    BY <1>3, <2>1 DEF NotifyOne, Home
  <2>4. Cardinality(Awake)' = Cardinality(Awake) + 1
    BY <1>1, <2>2, CountAdd
  <2>5. Cardinality(Notifiers)' = Cardinality(Notifiers) - 1
    BY <1>1, <2>3, CountRemove
  <2>6. Len(tasks)' = Len(tasks)
    BY <1>3 DEF NotifyOne
  <2> QED
    BY <1>1, <2>1, <2>4, <2>5, <2>6 DEF NoStrandedTask
<1>4. ASSUME NEW w \in Worker, WaitForTask(w)
      PROVE  Len(tasks)' <= Cardinality(Awake)' + Cardinality(Notifiers)'
  <2>1. Len(tasks)' = 0
    BY <1>4 DEF WaitForTask
  <2>2. Awake' \in SUBSET Thread /\ Notifiers' \in SUBSET Thread
    BY <1>4 DEF WaitForTask
  <2> QED
    BY <2>1, <2>2, ThreadSetsFinite
<1>5. ASSUME NEW w \in Worker, pc[w] # "check", pc[w] # "notify",
             pc' = [pc EXCEPT ![w] = "check"], tasks' = tasks
      PROVE  Len(tasks)' <= Cardinality(Awake)' + Cardinality(Notifiers)'
  <2>1. Waiters # {}
    BY <1>5
  <2>2. Awake' = Awake \cup {w} /\ w \notin Awake /\ Notifiers' = Notifiers
    BY <1>5
  <2>3. Cardinality(Awake)' = Cardinality(Awake) + 1
    BY <1>1, <2>2, CountAdd
  <2>4. Cardinality(Notifiers)' = Cardinality(Notifiers)
    BY <2>2
  <2>5. Len(tasks) <= Cardinality(Awake) + Cardinality(Notifiers)
    BY <1>10, <2>1
  <2> HIDE DEF Waiters, Awake, Notifiers
  <2> QED
    BY <1>1, <1>5, <2>3, <2>4, <2>5
<1>6. ASSUME NEW w \in Worker, PopTask(w)
      PROVE  Len(tasks)' <= Cardinality(Awake)' + Cardinality(Notifiers)'
  <2>1. Awake' = Awake \ {w} /\ w \in Awake /\ Notifiers' = Notifiers /\ Waiters' = Waiters
    BY <1>6 DEF PopTask
  <2>2. Cardinality(Awake)' = Cardinality(Awake) - 1
    BY <1>1, <2>1, CountRemove
  <2>3. Len(tasks)' = Len(tasks) - 1
    BY <1>6 DEF PopTask
  <2>4. Cardinality(Notifiers)' = Cardinality(Notifiers)
    BY <2>1
  <2>5. Len(tasks) <= Cardinality(Awake) + Cardinality(Notifiers)
    BY <1>10, <2>1
  <2> HIDE DEF Waiters, Awake, Notifiers
  <2> QED
    BY <1>1, <2>2, <2>3, <2>4, <2>5
<1>7. ASSUME NEW w \in Worker, ExitLoop(w)
      PROVE  Len(tasks)' <= Cardinality(Awake)' + Cardinality(Notifiers)'
  <2>1. Len(tasks)' = 0
    BY <1>7 DEF ExitLoop
  <2>2. Awake' \in SUBSET Thread /\ Notifiers' \in SUBSET Thread
    BY <1>7 DEF ExitLoop
  <2> QED
    BY <2>1, <2>2, ThreadSetsFinite
<1>8. ASSUME NotifyAll
      PROVE  Len(tasks)' <= Cardinality(Awake)' + Cardinality(Notifiers)'
  BY <1>8 DEF NotifyAll
<1>9. ASSUME UNCHANGED <<tasks, pc>>
      PROVE  Len(tasks)' <= Cardinality(Awake)' + Cardinality(Notifiers)'
  BY <1>9 DEF NoStrandedTask
<1> QED
  BY <1>2, <1>3, <1>4, <1>5, <1>6, <1>7, <1>8, <1>9
  DEF Next, WorkerStep, Terminated, EnqueueThrow, SpuriousWakeup, FinishTask,
      StopWork, JoinWorkers, vars

(* No wake-up is lost: while a worker sleeps, each queued task has an awake *)
(* worker on its way to the queue or a notify_one still to come.           *)
THEOREM NoLostWakeup == Safety => []NoStrandedTask
<1>1. Init => NoStrandedTask
  BY DEF Init, NoStrandedTask, Waiters, Thread
<1> QED
  BY TypeInit, TypeStep, NotificationStep, <1>1, PTL DEF Safety

-----------------------------------------------------------------------------
(* Refinement.  The mapping reads the pool as a TaskPool: `open' is ~stop, *)
(* and a worker is live until its thread function returns.                 *)
Live == {w \in Worker : pc[w] # "exit"}

LEMMA PromiseStep ==
    ASSUME TypeInv, JoinedMeansExited, [Next]_vars
    PROVE  [Promise!Next]_(Promise!vars)
<1> USE DEF TypeInv, TypeOK, Thread
<1> USE DEF Promise!Next, Promise!vars
<1>1. ASSUME NEW t \in Thread, Enqueue(t)
      PROVE  Promise!Submit
  <2>1. Live' = Live
    BY <1>1 DEF Enqueue, MayCall, Live
  <2> QED
    BY <1>1, <2>1 DEF Enqueue, Promise!Submit, Live
<1>2. ASSUME NEW w \in Worker, PopTask(w)
      PROVE  Promise!Take(w)
  <2>1. Live' = Live /\ w \in Live
    BY <1>2 DEF PopTask, Live
  <2>2. cur[w] = 0
    BY <1>2 DEF PopTask, BusyWorkers
  <2> QED
    BY <1>2, <2>1, <2>2 DEF PopTask, Promise!Take, Live
<1>3. ASSUME NEW w \in Worker, FinishTask(w)
      PROVE  Promise!Finish(w)
  <2>1. Live' = Live
    BY <1>3 DEF FinishTask, Live
  <2>2. cur[w] # 0
    BY <1>3 DEF FinishTask, BusyWorkers
  <2> QED
    BY <1>3, <2>1, <2>2 DEF FinishTask, Promise!Finish, Live
<1>4. ASSUME NEW w \in Worker, ExitLoop(w)
      PROVE  Promise!Retire(w)
  <2>1. Live' = Live \ {w} /\ w \in Live
    BY <1>4 DEF ExitLoop, Live
  <2>2. cur[w] = 0
    BY <1>4 DEF ExitLoop, BusyWorkers
  <2> QED
    BY <1>4, <2>1, <2>2 DEF ExitLoop, Promise!Retire, Live
<1>5. ASSUME StopWork
      PROVE  Promise!Close
  BY <1>5 DEF StopWork, JoinedMeansExited, Promise!Close
<1>6. ASSUME UNCHANGED <<tasks, cur, done, accepted, stop, Live>>
      PROVE  UNCHANGED Promise!vars
  BY <1>6 DEF Live
<1>7. ASSUME NEW t \in Thread, NotifyOne(t)
      PROVE  UNCHANGED <<tasks, cur, done, accepted, stop, Live>>
  BY <1>7 DEF NotifyOne, Home, Waiters, Live
<1>8. ASSUME NEW w \in Worker, WaitForTask(w) \/ SpuriousWakeup(w)
      PROVE  UNCHANGED <<tasks, cur, done, accepted, stop, Live>>
  BY <1>8 DEF WaitForTask, SpuriousWakeup, Live
<1>9. ASSUME NotifyAll \/ JoinWorkers \/ UNCHANGED vars
      PROVE  UNCHANGED <<tasks, cur, done, accepted, stop, Live>>
  BY <1>9 DEF NotifyAll, JoinWorkers, vars, Live
<1>10. ASSUME NEW t \in Thread, EnqueueThrow(t)
       PROVE  UNCHANGED <<tasks, cur, done, accepted, stop, Live>>
  BY <1>10 DEF EnqueueThrow, Live
<1> QED
  BY <1>1, <1>2, <1>3, <1>4, <1>5, <1>6, <1>7, <1>8, <1>9, <1>10
  DEF Next, WorkerStep, Terminated

(* Every behaviour of the pool is one of TaskPool, fairness left aside:    *)
(* the safety half of ImplementsTaskPool.                                  *)
THEOREM PoolImplementsTaskPool == Safety => Promise!Safety
<1>1. Init => Promise!Init
  BY DEF Init, Promise!Init, Thread
<1> QED
  BY TypeInit, TypeStep, ShutdownInit, ShutdownStep, PromiseStep, <1>1, PTL
  DEF Safety, Promise!Safety
=============================================================================
