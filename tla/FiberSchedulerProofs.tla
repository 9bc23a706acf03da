------------------------ MODULE FiberSchedulerProofs ------------------------
(***************************************************************************)
(* Proofs about FiberScheduler (mjber/scheduler.h, mjber/fiber.h), for any *)
(* number of workers, callers and jobs.  What is said of the tables and    *)
(* the jobs is proved for programs whose jobs that wait on a non-blocking  *)
(* socket never return (http_server.h: the accepter, whose loop has no     *)
(* exit; it may throw); what is said of the stacks and m_state is proved   *)
(* for all programs, up to the first step inside one of the two windows    *)
(* that no lock closes (raced).                                            *)
(***************************************************************************)
EXTENDS FiberScheduler, FiniteSetTheorems, SequenceTheorems, TLAPS

WatchersEndless == Watching \subseteq Endless

-----------------------------------------------------------------------------
(* The inductive invariant, in parts.                                      *)

Made == 1..lastId
storedVars == <<job, submitted, started>>

(* hand, cur and the queue name fibers that exist.                         *)
Placed ==
    /\ lastId <= submitted
    /\ submitted + Cardinality(Deciding) <= MaxJob
    /\ \A t \in Thread : pc[t] \in {"reuse", "register", "enqueue"} => hand[t] \in Made
    /\ \A w \in Worker : pc[w] # "idle" => cur[w] \in Made
    /\ \A i \in 1..Len(tasks) : tasks[i].fid \in Made

(* Each job is stored in at most one fiber, and a fiber enters mainFunc    *)
(* (firstIn) exactly when its job has not been entered.                    *)
Jobs ==
    /\ started \subseteq 1..submitted
    /\ \A f \in Made : job[f] \in 1..submitted
    /\ \A f, g \in Made : job[f] = job[g] => f = g
    /\ \A f \in Made : firstIn[f] <=> job[f] \notin started
    /\ \A n \in 1..submitted : n \in started \/ \E f \in Made : job[f] = n
    /\ \A f \in Free : ~firstIn[f]
    /\ \A t \in Thread : pc[t] = "reuse" => ~firstIn[hand[t]]

IsStart(i, f) == tasks[i].op = "start" /\ tasks[i].fid = f
Enters(w, f) == pc[w] \in {"start", "switch"} /\ cur[w] = f /\ firstIn[f]
Adds(t, f) == pc[t] \in {"register", "enqueue"} /\ hand[t] = f

(* A fiber that is still to enter its job is named exactly once by what    *)
(* will make it do so.                                                     *)
Tokens ==
    /\ \A f \in Made : firstIn[f] =>
          \/ \E i \in 1..Len(tasks) : IsStart(i, f)
          \/ \E t \in Thread : Adds(t, f)
          \/ \E w \in Worker : Enters(w, f)
    /\ \A i \in 1..Len(tasks) : tasks[i].op = "start" =>
          firstIn[tasks[i].fid] /\ tasks[i].fid \in registry
    /\ \A t \in Thread : pc[t] \in {"register", "enqueue"} => firstIn[hand[t]]
    /\ \A t \in Thread : pc[t] = "enqueue" => hand[t] \in registry
    /\ \A w \in Worker : pc[w] = "start" => firstIn[cur[w]] /\ cur[w] \in registry
    /\ \A i, j \in 1..Len(tasks), f \in Made : IsStart(i, f) /\ IsStart(j, f) => i = j
    /\ \A t, u \in Thread, f \in Made : Adds(t, f) /\ Adds(u, f) => t = u
    /\ \A v, w \in Worker, f \in Made : Enters(v, f) /\ Enters(w, f) => v = w
    /\ \A i \in 1..Len(tasks), t \in Thread, f \in Made : ~(IsStart(i, f) /\ Adds(t, f))
    /\ \A i \in 1..Len(tasks), w \in Worker, f \in Made : ~(IsStart(i, f) /\ Enters(w, f))
    /\ \A t \in Thread, w \in Worker, f \in Made : ~(Adds(t, f) /\ Enters(w, f))

(* The fibers that events and resume tasks name: they are inside a job     *)
(* that waits for a socket, hence, by assumption, never unregistered.      *)
Waiting(f) == f \in registry \cap Made /\ job[f] \in Watching /\ ~firstIn[f]

Resumes ==
    /\ \A f \in watched : Waiting(f)
    /\ \A f \in batch : Waiting(f)
    /\ polled # 0 => Waiting(polled)
    /\ \A i \in 1..Len(tasks) : tasks[i].op = "resume" => Waiting(tasks[i].fid)
    /\ \A w \in Worker : pc[w] \in {"resume", "claim"} => Waiting(cur[w])
    /\ \A w \in Worker : pc[w] = "switch" /\ ~firstIn[cur[w]] => Waiting(cur[w])

(* A fiber inside its job is registered, and no two workers are on one     *)
(* stack.                                                                  *)
InJob == UserPC \cup {"yield", "hold", "exit"}

Stacks ==
    /\ \A w \in Worker : pc[w] \in InJob \cup {"switch"} => cur[w] \in registry
    /\ \A w \in Worker : pc[w] \in InJob => ~firstIn[cur[w]]
    /\ \A w \in Worker : pc[w] = "exit" => job[cur[w]] \notin Endless
    /\ \A v, w \in Worker : OnStack(v) /\ OnStack(w) /\ cur[v] = cur[w] => v = w

(* The job that threw is not entered again, its fiber stays registered and *)
(* is left past its end; the other registered fibers are alive.            *)
Failures ==
    /\ failed \subseteq started
    /\ \A w \in Worker : pc[w] \in InJob => job[cur[w]] \notin failed
    /\ \A f \in Made : job[f] \in failed =>
          /\ f \in registry
          /\ saved[f] = "end" \/ \E w \in Worker : pc[w] = "leave" /\ cur[w] = f
    /\ \A w \in Worker : pc[w] \in {"tail", "leave"} =>
          cur[w] \notin registry \/ firstIn[cur[w]] \/ job[cur[w]] \in failed
    /\ \A f \in registry : \/ firstIn[f] \/ saved[f] = "yield" \/ job[f] \in failed
                            \/ \E w \in Worker : pc[w] \in InJob /\ cur[w] = f

(* The part of the invariant that holds of both kinds of behaviour ...     *)
Core == /\ TypeOK
        /\ OnePlace
        /\ Placed
        /\ Jobs
        /\ Tokens
        /\ Stacks
        /\ Failures

(* ... as each of them rules out that a worker resumes, or is about to     *)
(* enter, a fiber whose job is over or that another worker is leaving.     *)
Orderly ==
    /\ \A w \in Worker : pc[w] = "claim" => cur[w] \in registry /\ ~firstIn[cur[w]]
    /\ \A v, w \in Worker : pc[v] = "exit" /\ pc[w] = "switch" => cur[v] # cur[w]

SchedulerInv == Core /\ Resumes /\ EventsFindTheirFiber

-----------------------------------------------------------------------------
LEMMA InitCore == Init => Core /\ Resumes
<1> SUFFICES ASSUME Init PROVE Core /\ Resumes
  OBVIOUS
<1> USE SchedulerAssumption DEF Init, Job, Fiber, Thread
<1>1. /\ lastId = 0 /\ registry = {} /\ watched = {} /\ batch = {} /\ polled = 0
      /\ Made = {} /\ Free = {} /\ Len(tasks) = 0 /\ tasks = <<>>
  BY DEF Made, Free, Range
<1>2. \A t \in Thread : pc[t] = "idle"
  OBVIOUS
<1>3. Held = {} /\ Deciding = {}
  BY <1>2 DEF Held, Deciding
<1>4. TypeOK
  <2>1. "idle" \in ThreadPC /\ "INIT" \in FiberState
    BY DEF ThreadPC, FiberState
  <2>2. /\ tasks \in Seq(PoolTask) /\ freeFibers \in Seq(Fiber) /\ MaxJob \in Nat
        /\ 0 \in 0..MaxJob
    OBVIOUS
  <2>3. /\ state \in [Fiber -> FiberState] /\ pc \in [Thread -> ThreadPC]
        /\ cur \in [Worker -> 0..MaxJob] /\ hand \in [Thread -> 0..MaxJob]
        /\ job \in [Fiber -> 0..MaxJob]
    BY <2>1, <2>2
  <2> QED
    BY <1>1, <2>2, <2>3 DEF TypeOK
<1>5. OnePlace
  BY <1>1, <1>2, <1>3 DEF OnePlace
<1>6. Placed
  BY <1>1, <1>2, <1>3, FS_EmptySet DEF Placed
<1>7. Jobs /\ Tokens /\ Resumes
  BY <1>1, <1>2 DEF Jobs, Tokens, Resumes
<1>8. Stacks
  BY <1>2 DEF Stacks, InJob, OnStack, StackPC, UserPC, AddTaskPC
<1>9. Failures
  BY <1>1, <1>2 DEF Failures, InJob, UserPC, AddTaskPC
<1> QED
  BY <1>4, <1>5, <1>6, <1>7, <1>8, <1>9 DEF Core

-----------------------------------------------------------------------------
(* Removing the last element of a sequence, as TakeFree does.              *)
LEMMA FrontProperties ==
    ASSUME NEW S, NEW s \in Seq(S), s # <<>>
    PROVE  /\ Front(s) \in Seq(S)
           /\ Len(Front(s)) = Len(s) - 1
           /\ \A i \in 1..(Len(s) - 1) : Front(s)[i] = s[i]
           /\ Last(s) = s[Len(s)] /\ Last(s) \in S
           /\ Len(s) \in Nat \ {0}
<1>1. Len(s) \in Nat \ {0} /\ \A i \in 1..Len(s) : s[i] \in S
  BY EmptySeq, LenProperties
<1>2. /\ SubSeq(s, 1, Len(s) - 1) \in Seq(S)
      /\ Len(SubSeq(s, 1, Len(s) - 1)) = Len(s) - 1
      /\ \A i \in 1..(Len(s) - 1) : SubSeq(s, 1, Len(s) - 1)[i] = s[i]
  <2>1. Len(s) - 1 \in Int /\ \A i \in 1..(Len(s) - 1) : s[i] \in S
    BY <1>1
  <2>2. Len(SubSeq(s, 1, Len(s) - 1)) =
            IF 1 <= Len(s) - 1 THEN (Len(s) - 1) - 1 + 1 ELSE 0
    BY <2>1, SubSeqProperties
  <2>3. \A i \in 1..((Len(s) - 1) - 1 + 1) : SubSeq(s, 1, Len(s) - 1)[i] = s[1 + i - 1]
    BY <2>1, SubSeqProperties
  <2>4. SubSeq(s, 1, Len(s) - 1) \in Seq(S)
    BY <2>1, SubSeqProperties
  <2>5. (Len(s) - 1) - 1 + 1 = Len(s) - 1 /\ \A i \in Int : 1 + i - 1 = i
    <3>1. \A n \in Int : (n - 1) - 1 + 1 = n - 1
      OBVIOUS
    <3> QED
      BY <1>1, <3>1
  <2>6. Len(SubSeq(s, 1, Len(s) - 1)) = Len(s) - 1
    <3>1. \A n \in Nat \ {0} : (IF 1 <= n - 1 THEN (n - 1) - 1 + 1 ELSE 0) = n - 1
      OBVIOUS
    <3> QED
      BY <1>1, <2>2, <3>1
  <2>7. \A i \in 1..(Len(s) - 1) : SubSeq(s, 1, Len(s) - 1)[i] = s[i]
    BY <2>3, <2>5
  <2> QED
    BY <2>4, <2>6, <2>7
<1> QED
  BY <1>1, <1>2 DEF Front, Last

(* What a step does to fault and to the history of races.                  *)
TypedStep == UNCHANGED fault /\ raced' \in BOOLEAN

LEMMA TypeStep ==
    ASSUME Core, Next
    PROVE  TypeOK'
<1>0. /\ TypeOK
      /\ submitted + Cardinality(Deciding) <= MaxJob
      /\ lastId <= submitted
      /\ \A t \in Thread : pc[t] \in {"reuse", "register", "enqueue"} => hand[t] \in Fiber
      /\ \A w \in Worker : pc[w] # "idle" => cur[w] \in Fiber
  BY DEF Core, Placed, TypeOK, Made, Job, Fiber
<1>b. \A w \in Worker : pc[w] # "idle" => job[cur[w]] \in Job
  <2>1. \A f \in 1..lastId : job[f] \in 1..submitted
    BY DEF Core, Jobs, Made
  <2>2. submitted \in 0..MaxJob /\ MaxJob \in Nat
    BY <1>0, SchedulerAssumption DEF TypeOK
  <2>3. \A w \in Worker : pc[w] # "idle" => cur[w] \in 1..lastId
    BY DEF Core, Placed, Made
  <2> QED
    BY <2>1, <2>2, <2>3 DEF Job
<1>a. \A t \in Thread : pc[t] \in {"reuse", "create"} => submitted + 1 \in 1..MaxJob
  <2>1. IsFiniteSet(Deciding)
    BY FS_Union, FS_Subset, SchedulerAssumption DEF Deciding, Thread
  <2>2. Cardinality(Deciding) \in Nat
    BY <2>1, FS_CardinalityType
  <2>3. ASSUME NEW t \in Thread, pc[t] \in {"reuse", "create"}
        PROVE  Cardinality(Deciding) >= 1
    <3>1. t \in Deciding
      BY <2>3 DEF Deciding
    <3> QED
      BY <2>1, <2>2, <3>1, FS_EmptySet
  <2>4. submitted \in Nat /\ MaxJob \in Nat
    BY <1>0, SchedulerAssumption DEF TypeOK
  <2> QED
    BY <1>0, <2>2, <2>3, <2>4
<1> USE SchedulerAssumption, <1>0 DEF TypeOK, Job, Fiber, Thread, FiberState, PoolTask
<1> USE DEF ThreadPC, StackPC, UserPC, AddTaskPC, epollVars, TypedStep
<1>1. ASSUME NEW t \in Thread, TakeFree(t), TypedStep
      PROVE  TypeOK'
  <2>1. CASE freeFibers # <<>>
    <3>1. Front(freeFibers) \in Seq(Fiber) /\ Last(freeFibers) \in Fiber
      <4> HIDE DEF Fiber
      <4> QED
        BY <2>1, FrontProperties
    <3>2. freeFibers' = Front(freeFibers) /\ hand' = [hand EXCEPT ![t] = Last(freeFibers)]
      BY <1>1, <2>1 DEF TakeFree
    <3>3. hand' \in [Thread -> 0..MaxJob]
      BY <3>1, <3>2
    <3>4. pc' \in [Thread -> ThreadPC]
      BY <1>1, <2>1 DEF TakeFree
    <3> HIDE DEF ThreadPC
    <3> QED
      BY <1>1, <2>1, <3>1, <3>2, <3>3, <3>4 DEF TakeFree, tableVars, fiberVars, jobVars, threadVars
  <2>2. CASE freeFibers = <<>>
    BY <1>1, <2>2 DEF TakeFree, tableVars, fiberVars, jobVars, threadVars
  <2> QED
    BY <2>1, <2>2
<1>2. ASSUME NEW t \in Thread, Reuse(t), TypedStep
      PROVE  TypeOK'
  <2>1. submitted' \in 0..MaxJob /\ job' \in [Fiber -> 0..MaxJob]
    BY <1>2, <1>a DEF Reuse
  <2>2. watched' \in SUBSET Fiber
    BY <1>2 DEF Reuse
  <2> QED
    BY <1>2, <2>1, <2>2 DEF Reuse, tableVars, fiberVars, jobVars, threadVars
<1>3. ASSUME NEW t \in Thread, Create(t), TypedStep
      PROVE  TypeOK'
  <2>1. /\ job' \in [Fiber -> 0..MaxJob] /\ submitted' \in 0..MaxJob
        /\ lastId' \in 0..MaxJob /\ hand' \in [Thread -> 0..MaxJob]
    BY <1>3, <1>a DEF Create
  <2>2. /\ firstIn' \in [Fiber -> BOOLEAN] /\ state' \in [Fiber -> FiberState]
        /\ pc' \in [Thread -> ThreadPC]
    BY <1>3 DEF Create
  <2> HIDE DEF ThreadPC, FiberState
  <2> QED
    BY <1>3, <2>1, <2>2 DEF Create
<1>4. ASSUME NEW t \in Thread, Register(t), TypedStep
      PROVE  TypeOK'
  BY <1>4 DEF Register, tableVars, fiberVars, jobVars, threadVars
<1>5. ASSUME NEW t \in Thread, Enqueue(t), TypedStep
      PROVE  TypeOK'
  <2>1. [op |-> "start", fid |-> hand[t]] \in PoolTask
    BY <1>5 DEF Enqueue
  <2>2. tasks' \in Seq(PoolTask)
    <3> HIDE DEF PoolTask
    <3> QED
      BY <1>5, <2>1, AppendProperties DEF Enqueue
  <2>3. hand' \in [Thread -> 0..MaxJob] /\ pc' \in [Thread -> ThreadPC]
    BY <1>5 DEF Enqueue, Home
  <2> HIDE DEF PoolTask, ThreadPC
  <2> QED
    BY <1>5, <2>2, <2>3 DEF Enqueue, tableVars, fiberVars, jobVars
<1>6. ASSUME NEW w \in Worker, Pop(w), TypedStep
      PROVE  TypeOK'
  <2>1. Head(tasks) \in PoolTask /\ tasks' \in Seq(PoolTask)
    <3> HIDE DEF PoolTask
    <3> QED
      BY <1>6, HeadTailProperties DEF Pop
  <2>2. Head(tasks).op \in ThreadPC /\ Head(tasks).fid \in Fiber
    BY <2>1
  <2>3. pc' \in [Thread -> ThreadPC] /\ cur' \in [Worker -> 0..MaxJob]
    BY <1>6, <2>2 DEF Pop
  <2> HIDE DEF PoolTask, ThreadPC
  <2> QED
    BY <1>6, <2>1, <2>3 DEF Pop, tableVars, fiberVars, jobVars
<1>7. ASSUME NEW w \in Worker, Start(w), TypedStep
      PROVE  TypeOK'
  BY <1>7 DEF Start, tableVars, fiberVars, jobVars, threadVars
<1>8. ASSUME NEW w \in Worker, ResumeTest(w), TypedStep
      PROVE  TypeOK'
  <2>1. CASE state[cur[w]] = "HOLD"
    BY <1>8, <2>1 DEF ResumeTest, tableVars, fiberVars, jobVars, threadVars
  <2>2. CASE state[cur[w]] # "HOLD"
    <3>1. pc' = [pc EXCEPT ![w] = "idle"] /\ cur' = [cur EXCEPT ![w] = 0]
      BY <1>8, <2>2 DEF ResumeTest
    <3> QED
      BY <1>8, <3>1 DEF ResumeTest, tableVars, fiberVars, jobVars
  <2> QED
    BY <2>1, <2>2
<1>9. ASSUME NEW w \in Worker, ResumeClaim(w), TypedStep
      PROVE  TypeOK'
  BY <1>9 DEF ResumeClaim, tableVars, fiberVars, jobVars, threadVars
<1>10. ASSUME NEW w \in Worker, SwitchIn(w), TypedStep
      PROVE  TypeOK'
  <2>1. started' \in SUBSET Job
    <3>1. job[cur[w]] \in Job
      BY <1>b, <1>10 DEF SwitchIn
    <3> QED
      BY <1>10, <3>1 DEF SwitchIn
  <2> QED
    BY <1>10, <2>1 DEF SwitchIn, tableVars, fiberVars, jobVars, threadVars
<1>11. ASSUME NEW w \in Worker, Watch(w), TypedStep
      PROVE  TypeOK'
  BY <1>11 DEF Watch, tableVars, fiberVars, jobVars, threadVars
<1>12. ASSUME NEW w \in Worker, Unwatch(w), TypedStep
      PROVE  TypeOK'
  BY <1>12 DEF Unwatch, tableVars, fiberVars, jobVars, threadVars
<1>13. ASSUME NEW w \in Worker, YieldTest(w), TypedStep
      PROVE  TypeOK'
  BY <1>13 DEF YieldTest, tableVars, fiberVars, jobVars, threadVars
<1>14. ASSUME NEW w \in Worker, YieldHold(w), TypedStep
      PROVE  TypeOK'
  BY <1>14 DEF YieldHold, tableVars, fiberVars, jobVars, threadVars
<1>15. ASSUME NEW w \in Worker, YieldSwitch(w), TypedStep
      PROVE  TypeOK'
  <2>1. /\ saved' \in [Fiber -> {"nowhere", "yield", "end"}]
        /\ cur' \in [Worker -> 0..MaxJob] /\ pc' \in [Thread -> ThreadPC]
    BY <1>15 DEF YieldSwitch, SwitchOut
  <2> HIDE DEF ThreadPC
  <2> QED
    BY <1>15, <2>1 DEF YieldSwitch, SwitchOut, tableVars, jobVars
<1>16. ASSUME NEW w \in Worker, Return(w), TypedStep
      PROVE  TypeOK'
  BY <1>16 DEF Return, tableVars, fiberVars, jobVars, threadVars
<1>17. ASSUME NEW w \in Worker, Throw(w), TypedStep
      PROVE  TypeOK'
  <2>1. job[cur[w]] \in Job
    BY <1>b, <1>17 DEF Throw
  <2>2. failed' \in SUBSET Job
    BY <1>17, <2>1 DEF Throw
  <2>3. state' \in [Fiber -> FiberState] /\ pc' \in [Thread -> ThreadPC]
    BY <1>17 DEF Throw
  <2> HIDE DEF ThreadPC, FiberState
  <2> QED
    BY <1>17, <2>2, <2>3 DEF Throw, tableVars
<1>18. ASSUME NEW w \in Worker, Exit(w), TypedStep
      PROVE  TypeOK'
  <2>1. freeFibers' \in Seq(Fiber)
    BY <1>18, AppendProperties DEF Exit
  <2>2. registry' \in SUBSET Fiber
    BY <1>18 DEF Exit
  <2> QED
    BY <1>18, <2>1, <2>2 DEF Exit, tableVars, fiberVars, jobVars, threadVars
<1>19. ASSUME NEW w \in Worker, Terminate(w), TypedStep
      PROVE  TypeOK'
  BY <1>19 DEF Terminate, tableVars, fiberVars, jobVars, threadVars
<1>20. ASSUME NEW w \in Worker, Leave(w), TypedStep
      PROVE  TypeOK'
  <2>1. /\ saved' \in [Fiber -> {"nowhere", "yield", "end"}]
        /\ cur' \in [Worker -> 0..MaxJob] /\ pc' \in [Thread -> ThreadPC]
    BY <1>20 DEF Leave, SwitchOut
  <2> HIDE DEF ThreadPC
  <2> QED
    BY <1>20, <2>1 DEF Leave, SwitchOut, tableVars, jobVars
<1>21. CASE (EpollWait \/ \E f \in Fiber : EpollCheck(f)) /\ TypedStep
  <2>1. batch' \in SUBSET Fiber /\ polled' \in 0..MaxJob
    <3>1. EpollWait => batch' \subseteq watched /\ polled' = polled
      BY DEF EpollWait
    <3>2. ASSUME NEW f \in Fiber, EpollCheck(f)
          PROVE  batch' \subseteq batch /\ polled' = f
      BY <3>2 DEF EpollCheck
    <3>3. watched \subseteq Fiber /\ batch \subseteq Fiber /\ polled \in 0..MaxJob /\ MaxJob \in Nat
      OBVIOUS
    <3>4. \A f \in Fiber : f \in 0..MaxJob
      BY <3>3
    <3> QED
      BY <1>21, <3>1, <3>2, <3>3, <3>4, Zenon
  <2>2. UNCHANGED <<tasks, tableVars, fiberVars, jobVars, watched, pc, cur, hand, fault>>
    BY <1>21 DEF EpollWait, EpollCheck
  <2>3. raced' \in BOOLEAN
    BY <1>21
  <2> HIDE DEF ThreadPC, FiberState, PoolTask
  <2> QED
    BY <2>1, <2>2, <2>3 DEF tableVars, fiberVars, jobVars
<1>22. CASE EpollDispatch /\ TypedStep
  <2>1. tasks' \in Seq(PoolTask)
    <3>1. CASE UNCHANGED tasks
      BY <3>1
    <3>2. CASE tasks' = Append(tasks, [op |-> "resume", fid |-> polled])
      <4>1. [op |-> "resume", fid |-> polled] \in PoolTask
        BY <1>22 DEF EpollDispatch
      <4> QED
        BY <3>2, <4>1, AppendProperties
    <3> QED
      BY <1>22, <3>1, <3>2 DEF EpollDispatch
  <2> QED
    BY <1>22, <2>1 DEF EpollDispatch, tableVars, fiberVars, jobVars
<1>23. CASE Break /\ UNCHANGED raced
  BY <1>23 DEF Break, BadSwitch, EpollThrow, EpollStale, tableVars, fiberVars,
               jobVars, threadVars
<1>24. CASE UNCHANGED vars
  BY <1>24 DEF vars, tableVars, fiberVars, jobVars, threadVars
<1> QED
  BY <1>1, <1>2, <1>3, <1>4, <1>5, <1>6, <1>7, <1>8, <1>9, <1>10, <1>11, <1>12,
     <1>13, <1>14, <1>15, <1>16, <1>17, <1>18, <1>19, <1>20, <1>21, <1>22, <1>23, <1>24
  DEF Next, Proceed, Sound, AddTask, WorkerStep, JobStep, Quiet

-----------------------------------------------------------------------------
LEMMA RangeOfAppend ==
    ASSUME NEW S, NEW s \in Seq(S), NEW e \in S
    PROVE  /\ Range(Append(s, e)) = Range(s) \cup {e}
           /\ Len(Append(s, e)) = Len(s) + 1
           /\ \A i \in 1..Len(s) : Append(s, e)[i] = s[i]
           /\ Append(s, e)[Len(s) + 1] = e
<1>1. /\ Len(Append(s, e)) = Len(s) + 1
      /\ \A i \in 1..Len(s) : Append(s, e)[i] = s[i]
      /\ Append(s, e)[Len(s) + 1] = e
      /\ Append(s, e) \in Seq(S)
      /\ Len(s) \in Nat
  BY AppendProperties, LenProperties
<1>2. DOMAIN s = 1..Len(s) /\ DOMAIN Append(s, e) = 1..(Len(s) + 1)
  BY <1>1, LenProperties
<1>3. 1..(Len(s) + 1) = (1..Len(s)) \cup {Len(s) + 1}
  BY <1>1
<1> QED
  BY <1>1, <1>2, <1>3 DEF Range

LEMMA RangeOfFront ==
    ASSUME NEW S, NEW s \in Seq(S), s # <<>>,
           \A i, j \in 1..Len(s) : s[i] = s[j] => i = j
    PROVE  Range(Front(s)) = Range(s) \ {Last(s)} /\ Last(s) \in Range(s)
<1>1. /\ Front(s) \in Seq(S) /\ Len(Front(s)) = Len(s) - 1
      /\ \A i \in 1..(Len(s) - 1) : Front(s)[i] = s[i]
      /\ Last(s) = s[Len(s)] /\ Len(s) \in Nat \ {0}
  BY FrontProperties
<1>2. DOMAIN s = 1..Len(s) /\ DOMAIN Front(s) = 1..(Len(s) - 1)
  BY <1>1, LenProperties
<1>3. 1..Len(s) = (1..(Len(s) - 1)) \cup {Len(s)} /\ Len(s) \notin 1..(Len(s) - 1)
  BY <1>1
<1>4. \A i \in 1..(Len(s) - 1) : s[i] # s[Len(s)]
  BY <1>3
<1> QED
  BY <1>1, <1>2, <1>3, <1>4 DEF Range

(* The threads that hold a fiber nobody else can see.                      *)
Holds(t) == pc[t] \in {"reuse", "register"}

LEMMA AccountedFrame ==
    ASSUME OnePlace, UNCHANGED tableVars,
           \A t \in Thread : /\ Holds(t)' <=> Holds(t)
                             /\ Holds(t) => hand'[t] = hand[t]
    PROVE  OnePlace'
<1>1. Held' = Held
  BY DEF Held, Holds
<1> QED
  BY <1>1 DEF OnePlace, Free, tableVars, Holds

LEMMA AccountedStep ==
    ASSUME Core, Next
    PROVE  OnePlace'
<1>0. /\ TypeOK /\ OnePlace
      /\ \A t \in Thread : pc[t] \in {"reuse", "register", "enqueue"} => hand[t] \in Made
      /\ \A w \in Worker : pc[w] # "idle" => cur[w] \in Made
      /\ \A w \in Worker : pc[w] = "exit" => cur[w] \in registry
      /\ lastId \in Nat
  BY SchedulerAssumption DEF Core, Placed, Stacks, InJob, TypeOK
<1>h. /\ Held = {hand[t] : t \in {u \in Thread : Holds(u)}}
      /\ Held' = {hand'[t] : t \in {u \in Thread : Holds(u)'}}
  BY DEF Held, Holds
<1>p. pc \in [Thread -> ThreadPC] /\ hand \in [Thread -> 0..MaxJob]
  BY <1>0 DEF TypeOK
<1>1. ASSUME NEW t \in Thread, TakeFree(t)
      PROVE  OnePlace'
  <2>1. CASE freeFibers = <<>>
    <3>1. pc' = [pc EXCEPT ![t] = "create"] /\ UNCHANGED <<hand, tableVars>>
      BY <1>1, <2>1 DEF TakeFree, tableVars
    <3>2. ~Holds(t)
      BY <1>1 DEF TakeFree, AtHome, Home, Holds
    <3> QED
      BY <1>0, <1>p, <3>1, <3>2, AccountedFrame DEF Holds
  <2>2. CASE freeFibers # <<>>
    <3>1. /\ pc' = [pc EXCEPT ![t] = "reuse"]
          /\ hand' = [hand EXCEPT ![t] = Last(freeFibers)]
          /\ freeFibers' = Front(freeFibers)
          /\ UNCHANGED <<registry, lastId>>
      BY <1>1, <2>2 DEF TakeFree
    <3>2. ~Holds(t)
      BY <1>1 DEF TakeFree, AtHome, Home, Holds
    <3>3. freeFibers \in Seq(Fiber)
      BY <1>0 DEF TypeOK
    <3>4. /\ Free' = Free \ {Last(freeFibers)} /\ Last(freeFibers) \in Free
      BY <1>0, <2>2, <3>1, <3>3, RangeOfFront DEF OnePlace, Free
    <3>5. Held' = Held \cup {Last(freeFibers)}
      BY <1>h, <1>p, <3>1, <3>2 DEF Holds
    <3>6. \A i, j \in 1..Len(freeFibers') : freeFibers'[i] = freeFibers'[j] => i = j
      <4>1. /\ Len(freeFibers') = Len(freeFibers) - 1 /\ Len(freeFibers) \in Nat \ {0}
            /\ \A i \in 1..(Len(freeFibers) - 1) : freeFibers'[i] = freeFibers[i]
        BY <2>2, <3>1, <3>3, FrontProperties
      <4> QED
        BY <1>0, <4>1 DEF OnePlace
    <3>7. \A u, v \in Thread : Holds(u)' /\ Holds(v)' /\ hand'[u] = hand'[v] => u = v
      <4>1. \A u \in Thread : Holds(u) => hand[u] \in Held
        BY <1>h
      <4>2. Last(freeFibers) \notin Held
        BY <1>0, <3>4 DEF OnePlace
      <4> QED
        BY <1>0, <1>p, <3>1, <3>2, <4>1, <4>2 DEF OnePlace, Holds
    <3> QED
      BY <1>0, <3>1, <3>4, <3>5, <3>6, <3>7 DEF OnePlace, Holds
  <2> QED
    BY <2>1, <2>2
<1>2. ASSUME NEW t \in Thread, Reuse(t)
      PROVE  OnePlace'
  BY <1>0, <1>2, <1>p, AccountedFrame DEF Reuse, Holds
<1>3. ASSUME NEW t \in Thread, Create(t)
      PROVE  OnePlace'
  <2>1. /\ pc' = [pc EXCEPT ![t] = "register"]
        /\ hand' = [hand EXCEPT ![t] = lastId + 1]
        /\ lastId' = lastId + 1
        /\ UNCHANGED <<registry, freeFibers>>
    BY <1>3 DEF Create
  <2>2. ~Holds(t) /\ lastId + 1 \in Fiber
    BY <1>3 DEF Create, Holds
  <2>3. 1..(lastId + 1) = (1..lastId) \cup {lastId + 1} /\ lastId + 1 \notin 1..lastId
    BY <1>0
  <2>4. Held' = Held \cup {lastId + 1}
    BY <1>h, <1>p, <2>1, <2>2 DEF Holds, Fiber
  <2>5. Free' = Free
    BY <2>1 DEF Free
  <2>6. \A u, v \in Thread : Holds(u)' /\ Holds(v)' /\ hand'[u] = hand'[v] => u = v
    <3>1. \A u \in Thread : Holds(u) => hand[u] # lastId + 1
      BY <1>0, <2>3 DEF Holds, Made
    <3> QED
      BY <1>0, <1>p, <2>1, <2>2, <3>1 DEF OnePlace, Holds
  <2> QED
    BY <1>0, <2>1, <2>3, <2>4, <2>5, <2>6 DEF OnePlace, Holds
<1>4. ASSUME NEW t \in Thread, Register(t)
      PROVE  OnePlace'
  <2>1. /\ pc' = [pc EXCEPT ![t] = "enqueue"]
        /\ registry' = registry \cup {hand[t]}
        /\ UNCHANGED <<hand, freeFibers, lastId>>
        /\ Holds(t)
    BY <1>4 DEF Register, Holds
  <2>2. Held' = Held \ {hand[t]} /\ hand[t] \in Held
    <3>1. \A u \in Thread : Holds(u)' <=> Holds(u) /\ u # t
      BY <1>p, <2>1 DEF Holds
    <3>2. \A u \in Thread : Holds(u) /\ u # t => hand[u] # hand[t]
      BY <1>0, <2>1 DEF OnePlace, Holds
    <3> QED
      BY <1>h, <2>1, <3>1, <3>2
  <2>3. \A u, v \in Thread : Holds(u)' /\ Holds(v)' /\ hand'[u] = hand'[v] => u = v
    BY <1>0, <1>p, <2>1 DEF OnePlace, Holds
  <2>4. Free' = Free
    BY <2>1 DEF Free
  <2> QED
    BY <1>0, <2>1, <2>2, <2>3, <2>4 DEF OnePlace, Holds
<1>5. ASSUME NEW w \in Worker, Exit(w)
      PROVE  OnePlace'
  <2>1. /\ pc' = [pc EXCEPT ![w] = "tail"]
        /\ registry' = registry \ {cur[w]} /\ cur[w] \in registry
        /\ freeFibers' = Append(freeFibers, cur[w])
        /\ UNCHANGED <<hand, lastId>>
    BY <1>0, <1>5 DEF Exit
  <2>2. freeFibers \in Seq(Fiber) /\ cur[w] \in Fiber /\ cur[w] \notin Free
    BY <1>0, <2>1 DEF TypeOK, OnePlace
  <2>3. /\ Free' = Free \cup {cur[w]}
        /\ Len(freeFibers') = Len(freeFibers) + 1
        /\ \A i \in 1..Len(freeFibers) : freeFibers'[i] = freeFibers[i]
        /\ freeFibers'[Len(freeFibers) + 1] = cur[w]
    BY <2>1, <2>2, RangeOfAppend DEF Free
  <2>4. \A t \in Thread : Holds(t)' <=> Holds(t)
    BY <1>5, <1>p, <2>1 DEF Holds, Exit, Thread
  <2>5. Held' = Held
    BY <1>h, <2>1, <2>4
  <2>6. \A i, j \in 1..Len(freeFibers') : freeFibers'[i] = freeFibers'[j] => i = j
    <3>1. \A i \in 1..Len(freeFibers) : freeFibers[i] \in Free /\ Len(freeFibers) \in Nat
      BY <2>2, LenProperties DEF Free, Range
    <3>2. \A i \in 1..Len(freeFibers') : i \in 1..Len(freeFibers) \/ i = Len(freeFibers) + 1
      BY <2>2, <2>3, LenProperties
    <3> QED
      BY <1>0, <2>2, <2>3, <3>1, <3>2 DEF OnePlace
  <2> QED
    BY <1>0, <2>1, <2>3, <2>4, <2>5, <2>6 DEF OnePlace, Holds
<1>6. ASSUME NEW t \in Thread, Enqueue(t)
      PROVE  OnePlace'
  BY <1>0, <1>6, <1>p, AccountedFrame DEF Enqueue, Home, Holds
<1>7. ASSUME NEW w \in Worker, WorkerStep(w), ~Exit(w)
      PROVE  OnePlace'
  <2>1. ASSUME NEW q \in ThreadPC \ {"reuse", "register"},
               pc' = [pc EXCEPT ![w] = q], UNCHANGED <<tableVars, hand>>, ~Holds(w)
        PROVE  OnePlace'
    BY <1>0, <1>p, <2>1, AccountedFrame DEF Holds, Thread
  <2>2. CASE UNCHANGED <<tableVars, pc, hand>>
    BY <1>0, <2>2, AccountedFrame DEF Holds
  <2>3. CASE Pop(w)
    <3>1. Head(tasks) \in PoolTask
      BY <1>0, <2>3, HeadTailProperties DEF Pop, TypeOK
    <3>2. Head(tasks).op \in {"start", "resume"}
      BY <3>1 DEF PoolTask
    <3>3. /\ pc' = [pc EXCEPT ![w] = Head(tasks).op]
          /\ UNCHANGED <<tableVars, hand>>
          /\ ~Holds(w)
      BY <2>3 DEF Pop, Holds
    <3> QED
      BY <2>1, <3>2, <3>3 DEF ThreadPC
  <2>4. CASE ResumeTest(w)
    BY <2>1, <2>4 DEF ResumeTest, ThreadPC, Holds
  <2>5. CASE YieldTest(w)
    BY <2>1, <2>2, <2>5 DEF YieldTest, ThreadPC, StackPC, Holds
  <2>6. CASE Start(w) \/ ResumeClaim(w) \/ SwitchIn(w)
    BY <2>1, <2>6 DEF Start, ResumeClaim, SwitchIn, ThreadPC, StackPC, UserPC, Holds
  <2>7. CASE Watch(w) \/ Unwatch(w)
    BY <2>2, <2>7 DEF Watch, Unwatch, threadVars
  <2>8. CASE YieldHold(w) \/ Return(w) \/ Throw(w) \/ Terminate(w)
    BY <2>1, <2>8 DEF YieldHold, Return, Throw, Terminate, ThreadPC, StackPC, Holds
  <2>9. CASE YieldSwitch(w) \/ Leave(w)
    BY <2>1, <2>9 DEF YieldSwitch, Leave, SwitchOut, ThreadPC, Holds
  <2> QED
    BY <1>7, <2>3, <2>4, <2>5, <2>6, <2>7, <2>8, <2>9 DEF WorkerStep, JobStep
<1>8. CASE UNCHANGED <<tableVars, pc, hand>>
  BY <1>0, <1>8, AccountedFrame DEF Holds
<1> QED
  BY <1>1, <1>2, <1>3, <1>4, <1>5, <1>6, <1>7, <1>8
  DEF Next, Proceed, AddTask, EpollWait, EpollCheck, EpollDispatch, Break, BadSwitch,
      EpollThrow, EpollStale, Quiet, vars, threadVars

-----------------------------------------------------------------------------
(* What most steps of a worker have in common: they move the worker along  *)
(* and leave the tables, the queue and the stored jobs alone.              *)
PlainMove ==
    {<<"start", "switch">>, <<"resume", "claim">>, <<"resume", "idle">>,
     <<"claim", "switch">>, <<"user", "user">>, <<"user", "yield">>,
     <<"yield", "hold">>, <<"hold", "idle">>, <<"user", "exit">>,
     <<"user", "leave">>, <<"tail", "leave">>, <<"leave", "idle">>}

PlainStep(w) ==
    \/ Start(w) \/ ResumeTest(w) \/ ResumeClaim(w) \/ Watch(w) \/ Unwatch(w)
    \/ YieldTest(w) \/ YieldHold(w) \/ YieldSwitch(w) \/ Return(w) \/ Throw(w)
    \/ Terminate(w) \/ Leave(w)

PlainFrame(w) ==
    /\ UNCHANGED <<tasks, tableVars, firstIn, storedVars, hand, epollVars>>
    /\ <<pc[w], pc'[w]>> \in PlainMove
    /\ pc' = [pc EXCEPT ![w] = pc'[w]]
    /\ pc'[w] # "idle" => cur' = cur
    /\ \A v \in Worker \ {w} : cur'[v] = cur[v]
    /\ pc'[w] = "exit" => job[cur[w]] \notin Endless

LEMMA PlainSteps ==
    ASSUME TypeOK, NEW w \in Worker, PlainStep(w)
    PROVE  PlainFrame(w)
<1>0. pc \in [Thread -> ThreadPC] /\ cur \in [Worker -> 0..MaxJob] /\ w \in Thread
  BY DEF TypeOK, Thread
<1>1. CASE Start(w) \/ ResumeClaim(w)
  BY <1>0, <1>1 DEF Start, ResumeClaim, PlainFrame, PlainMove, jobVars, storedVars
<1>2. CASE ResumeTest(w)
  <2>1. CASE state[cur[w]] = "HOLD"
    BY <1>0, <1>2, <2>1 DEF ResumeTest, PlainFrame, PlainMove, fiberVars, jobVars, storedVars
  <2>2. CASE state[cur[w]] # "HOLD"
    BY <1>0, <1>2, <2>2 DEF ResumeTest, PlainFrame, PlainMove, fiberVars, jobVars, storedVars
  <2> QED
    BY <2>1, <2>2
<1>3. CASE Watch(w) \/ Unwatch(w)
  BY <1>0, <1>3 DEF Watch, Unwatch, PlainFrame, PlainMove, fiberVars, jobVars, storedVars, threadVars
<1>4. CASE YieldTest(w)
  BY <1>0, <1>4 DEF YieldTest, PlainFrame, PlainMove, fiberVars, jobVars, storedVars
<1>5. CASE YieldHold(w) \/ Return(w)
  BY <1>0, <1>5 DEF YieldHold, Return, PlainFrame, PlainMove, fiberVars, jobVars, storedVars
<1>6. CASE Throw(w) \/ Terminate(w)
  BY <1>0, <1>6 DEF Throw, Terminate, PlainFrame, PlainMove, jobVars, storedVars
<1>7. CASE YieldSwitch(w) \/ Leave(w)
  BY <1>0, <1>7 DEF YieldSwitch, Leave, SwitchOut, PlainFrame, PlainMove, jobVars, storedVars
<1> QED
  BY <1>1, <1>2, <1>3, <1>4, <1>5, <1>6, <1>7 DEF PlainStep

(* The steps of Next that the lemmas below distinguish.                    *)
LEMMA StepKinds ==
    ASSUME TypeOK, Next
    PROVE  \/ \E t \in Thread : \/ TakeFree(t) \/ Reuse(t) \/ Create(t)
                                \/ Register(t) \/ Enqueue(t)
           \/ \E w \in Worker : Pop(w) \/ SwitchIn(w) \/ Exit(w)
           \/ \E w \in Worker : PlainStep(w) /\ PlainFrame(w)
           \/ EpollWait
           \/ \E f \in Fiber : EpollCheck(f)
           \/ EpollDispatch
           \/ UNCHANGED <<tasks, tableVars, fiberVars, jobVars, watched, threadVars>>
<1>1. ASSUME NEW w \in Worker, PlainStep(w)
      PROVE  PlainStep(w) /\ PlainFrame(w)
  BY <1>1, PlainSteps
<1>2. Break => UNCHANGED <<tasks, tableVars, fiberVars, jobVars, watched, threadVars>>
  BY DEF Break, BadSwitch, EpollThrow, EpollStale
<1>3. Quiet => UNCHANGED <<tasks, tableVars, fiberVars, jobVars, watched, threadVars>>
  BY DEF Quiet, vars
<1>4. ASSUME NEW w \in Worker, WorkerStep(w)
      PROVE  Pop(w) \/ SwitchIn(w) \/ Exit(w) \/ PlainStep(w)
  BY <1>4 DEF WorkerStep, JobStep, PlainStep
<1> QED
  BY <1>1, <1>2, <1>3, <1>4 DEF Next, Proceed, AddTask

-----------------------------------------------------------------------------
(* What an append to the queue and the removal of its head do.             *)
LEMMA QueuePush ==
    ASSUME TypeOK, NEW e \in PoolTask, tasks' = Append(tasks, e)
    PROVE  /\ Len(tasks') = Len(tasks) + 1 /\ Len(tasks) \in Nat
           /\ \A i \in 1..Len(tasks) : tasks'[i] = tasks[i]
           /\ tasks'[Len(tasks) + 1] = e
           /\ \A i \in 1..Len(tasks') : i \in 1..Len(tasks) \/ i = Len(tasks) + 1
           /\ 1..Len(tasks) \subseteq 1..Len(tasks')
           /\ Len(tasks) + 1 \in 1..Len(tasks')
<1>1. tasks \in Seq(PoolTask)
  BY DEF TypeOK
<1>2. Len(tasks') = Len(tasks) + 1 /\ Len(tasks) \in Nat
  BY <1>1, AppendProperties, LenProperties
<1> QED
  BY <1>1, <1>2, AppendProperties

LEMMA QueuePop ==
    ASSUME TypeOK, tasks # <<>>, tasks' = Tail(tasks)
    PROVE  /\ Head(tasks) = tasks[1] /\ Head(tasks) \in PoolTask
           /\ 1 \in 1..Len(tasks)
           /\ Len(tasks') = Len(tasks) - 1 /\ Len(tasks) \in Nat
           /\ \A i \in 1..Len(tasks') : i + 1 \in 1..Len(tasks) /\ tasks'[i] = tasks[i + 1]
           /\ \A i \in 1..Len(tasks) : i = 1 \/ (i - 1 \in 1..Len(tasks') /\ tasks'[i - 1] = tasks[i])
<1>1. tasks \in Seq(PoolTask)
  BY DEF TypeOK
<1>2. Len(tasks') = Len(tasks) - 1 /\ Len(tasks) \in Nat \ {0}
  BY <1>1, HeadTailProperties, LenProperties, EmptySeq
<1>3. \A i \in 1..Len(tasks') : tasks'[i] = tasks[i + 1]
  BY <1>1, HeadTailProperties
<1>4. \A i \in 1..Len(tasks) : i = 1 \/ i - 1 \in 1..Len(tasks')
  BY <1>2
<1>5. Head(tasks) = tasks[1] /\ Head(tasks) \in PoolTask
  BY <1>1, HeadTailProperties
<1> QED
  BY <1>2, <1>3, <1>4, <1>5

-----------------------------------------------------------------------------
LEMMA DecidingFinite ==
    \A D \in SUBSET Thread : IsFiniteSet(D) /\ Cardinality(D) \in Nat
BY SchedulerAssumption, FS_Union, FS_Subset, FS_CardinalityType DEF Thread

(* A thread begins or ends to hold one of the jobs still to be stored.     *)
LEMMA DecidingAdd ==
    ASSUME TypeOK, NEW t \in Thread, t \notin Deciding,
           Deciding' = Deciding \cup {t}
    PROVE  Cardinality(Deciding)' = Cardinality(Deciding) + 1 /\ Cardinality(Deciding) \in Nat
<1>1. Deciding \in SUBSET Thread
  BY DEF Deciding
<1> QED
  BY <1>1, DecidingFinite, FS_AddElement

LEMMA DecidingRemove ==
    ASSUME TypeOK, NEW t \in Thread, t \in Deciding,
           Deciding' = Deciding \ {t}
    PROVE  Cardinality(Deciding)' = Cardinality(Deciding) - 1 /\ Cardinality(Deciding) \in Nat
<1>1. Deciding \in SUBSET Thread
  BY DEF Deciding
<1> QED
  BY <1>1, DecidingFinite, FS_RemoveElement

LEMMA PlacedFrame ==
    ASSUME TypeOK, Placed, UNCHANGED <<lastId, submitted, tasks>>,
           Deciding' = Deciding,
           \A t \in Thread : pc'[t] \in {"reuse", "register", "enqueue"} => hand'[t] \in Made,
           \A w \in Worker : pc'[w] # "idle" => cur'[w] \in Made
    PROVE  Placed'
BY DEF Placed, Made

LEMMA PlacedStep ==
    ASSUME Core, Next
    PROVE  Placed'
<1>0. TypeOK /\ Placed /\ OnePlace
  BY DEF Core
<1>t. /\ pc \in [Thread -> ThreadPC] /\ hand \in [Thread -> 0..MaxJob]
      /\ cur \in [Worker -> 0..MaxJob] /\ lastId \in Nat /\ submitted \in Nat
      /\ Worker \subseteq Thread /\ MaxJob \in Nat
  BY <1>0, SchedulerAssumption DEF TypeOK, Thread
<1>r. registry \subseteq Made /\ Free \subseteq Made
  BY <1>0 DEF OnePlace, Made
<1>p. /\ lastId <= submitted
      /\ submitted + Cardinality(Deciding) <= MaxJob
      /\ \A t \in Thread : pc[t] \in {"reuse", "register", "enqueue"} => hand[t] \in Made
      /\ \A w \in Worker : pc[w] # "idle" => cur[w] \in Made
      /\ \A i \in 1..Len(tasks) : tasks[i].fid \in Made
  BY <1>0 DEF Placed
<1>1. ASSUME NEW t \in Thread, TakeFree(t)
      PROVE  Placed'
  <2>1. PICK q \in {"reuse", "create"} : pc' = [pc EXCEPT ![t] = q]
    BY <1>1 DEF TakeFree
  <2>2. AtHome(t) /\ pc[t] = Home(t) /\ pc[t] \notin {"reuse", "create"}
    BY <1>1 DEF TakeFree, AtHome, Home
  <2>3. Deciding' = Deciding \cup {t} /\ t \notin Deciding
    BY <1>t, <2>1, <2>2 DEF Deciding
  <2>4. submitted + Cardinality(Deciding)' <= MaxJob
    <3>1. submitted + Cardinality(Deciding) < MaxJob
      BY <1>1 DEF TakeFree
    <3>2. Cardinality(Deciding)' = Cardinality(Deciding) + 1 /\ Cardinality(Deciding) \in Nat
      BY <1>0, <2>3, DecidingAdd
    <3> QED
      BY <1>t, <3>1, <3>2
  <2>5. freeFibers # <<>> => Last(freeFibers) \in Made
    BY <1>0, <1>r, FrontProperties, RangeOfFront DEF TypeOK, OnePlace, Free
  <2>6. /\ UNCHANGED <<tasks, lastId, submitted, cur>>
        /\ \A u \in Thread \ {t} : hand'[u] = hand[u]
        /\ pc'[t] = "reuse" => hand'[t] \in Made
    BY <1>1, <1>t, <2>5 DEF TakeFree, jobVars
  <2>7. \A w \in Worker : pc'[w] # "idle" => pc[w] # "idle"
    BY <1>t, <2>1, <2>2 DEF Home
  <2>8. \A u \in Thread : pc'[u] \in {"reuse", "register", "enqueue"} => hand'[u] \in Made
    BY <1>p, <1>t, <2>1, <2>6
  <2> QED
    BY <1>p, <2>4, <2>6, <2>7, <2>8 DEF Placed, Made
<1>2. ASSUME NEW t \in Thread, Reuse(t) \/ Create(t)
      PROVE  Placed'
  <2>1. /\ pc' = [pc EXCEPT ![t] = "register"]
        /\ submitted' = submitted + 1
        /\ UNCHANGED <<tasks, cur>>
        /\ t \in Deciding
    BY <1>2 DEF Reuse, Create, Deciding
  <2>2. Deciding' = Deciding \ {t}
    BY <1>t, <2>1 DEF Deciding
  <2>3. submitted' + Cardinality(Deciding)' <= MaxJob
    <3>1. Cardinality(Deciding)' = Cardinality(Deciding) - 1 /\ Cardinality(Deciding) \in Nat
      BY <1>0, <2>1, <2>2, DecidingRemove
    <3> QED
      BY <1>p, <1>t, <2>1, <3>1
  <2>4. lastId' \in {lastId, lastId + 1} /\ Made \subseteq Made'
    BY <1>2, <1>t DEF Reuse, Create, tableVars, Made
  <2>5. hand'[t] \in Made' /\ \A u \in Thread \ {t} : hand'[u] = hand[u]
    BY <1>2, <1>p, <1>t DEF Reuse, Create, Made, tableVars
  <2>6. \A w \in Worker : pc'[w] # "idle" => pc[w] # "idle"
    BY <1>2, <1>t, <2>1 DEF Reuse, Create
  <2>7. \A u \in Thread : pc'[u] \in {"reuse", "register", "enqueue"} => hand'[u] \in Made'
    BY <1>p, <1>t, <2>1, <2>4, <2>5
  <2>8. lastId' <= submitted'
    BY <1>p, <1>t, <2>1, <2>4
  <2> QED
    BY <1>p, <2>1, <2>3, <2>4, <2>6, <2>7, <2>8 DEF Placed
<1>3. ASSUME NEW t \in Thread, Register(t)
      PROVE  Placed'
  <2>1. pc' = [pc EXCEPT ![t] = "enqueue"] /\ pc[t] = "register"
    BY <1>3 DEF Register
  <2>2. Deciding' = Deciding
    BY <1>t, <2>1 DEF Deciding
  <2> QED
    BY <1>0, <1>3, <1>p, <1>t, <2>1, <2>2, PlacedFrame DEF Register, jobVars
<1>4. ASSUME NEW t \in Thread, Enqueue(t)
      PROVE  Placed'
  <2>1. /\ pc' = [pc EXCEPT ![t] = Home(t)] /\ pc[t] = "enqueue" /\ hand[t] \in Made
        /\ hand' = [hand EXCEPT ![t] = 0]
        /\ tasks' = Append(tasks, [op |-> "start", fid |-> hand[t]])
        /\ UNCHANGED <<lastId, submitted, cur>>
    BY <1>4, <1>p DEF Enqueue, tableVars, jobVars
  <2>2. Home(t) \in {"user", "idle"}
    BY DEF Home
  <2>3. Deciding' = Deciding
    BY <1>t, <2>1, <2>2 DEF Deciding
  <2>4. [op |-> "start", fid |-> hand[t]] \in PoolTask
    BY <1>0, <1>t, <2>1 DEF PoolTask, Made, Fiber, TypeOK
  <2>5. \A i \in 1..Len(tasks') : tasks'[i].fid \in Made
    BY <1>0, <1>p, <2>1, <2>4, QueuePush
  <2>6. \A u \in Thread : pc'[u] \in {"reuse", "register", "enqueue"} => hand'[u] \in Made
    BY <1>p, <1>t, <2>1, <2>2
  <2>7. \A w \in Worker : pc'[w] # "idle" => pc[w] # "idle"
    BY <1>t, <2>1
  <2> QED
    BY <1>p, <2>1, <2>3, <2>5, <2>6, <2>7 DEF Placed, Made
<1>5. ASSUME NEW w \in Worker, Pop(w)
      PROVE  Placed'
  <2>1. /\ tasks # <<>> /\ tasks' = Tail(tasks) /\ pc[w] = "idle"
        /\ cur' = [cur EXCEPT ![w] = Head(tasks).fid]
        /\ pc' = [pc EXCEPT ![w] = Head(tasks).op]
        /\ UNCHANGED <<lastId, submitted, hand>>
    BY <1>5 DEF Pop, tableVars, jobVars
  <2>2. Head(tasks).op \in {"start", "resume"} /\ Head(tasks).fid \in Made
    <3>1. Head(tasks) \in PoolTask /\ Head(tasks) = tasks[1] /\ 1 \in 1..Len(tasks)
      BY <1>0, <2>1, QueuePop
    <3> QED
      BY <1>p, <3>1 DEF PoolTask
  <2>3. Deciding' = Deciding
    BY <1>t, <2>1, <2>2 DEF Deciding
  <2>4. \A i \in 1..Len(tasks') : tasks'[i].fid \in Made
    BY <1>0, <1>p, <2>1, QueuePop
  <2>5. \A u \in Thread : pc'[u] \in {"reuse", "register", "enqueue"} => hand'[u] \in Made
    BY <1>p, <1>t, <2>1, <2>2
  <2>6. \A v \in Worker : pc'[v] # "idle" => cur'[v] \in Made
    BY <1>p, <1>t, <2>1, <2>2
  <2> QED
    BY <1>p, <2>1, <2>3, <2>4, <2>5, <2>6 DEF Placed, Made
<1>6. ASSUME NEW w \in Worker, SwitchIn(w) \/ Exit(w)
      PROVE  Placed'
  <2>1. PICK q \in {"user", "tail"} : pc' = [pc EXCEPT ![w] = q]
    BY <1>6 DEF SwitchIn, Exit
  <2>2. /\ pc[w] \in {"switch", "exit"}
        /\ UNCHANGED <<tasks, lastId, submitted, hand, cur>>
    BY <1>6 DEF SwitchIn, Exit, tableVars, jobVars
  <2>3. Deciding' = Deciding
    BY <1>t, <2>1, <2>2 DEF Deciding
  <2> QED
    BY <1>0, <1>p, <1>t, <2>1, <2>2, <2>3, PlacedFrame
<1>7. ASSUME NEW w \in Worker, PlainFrame(w)
      PROVE  Placed'
  <2>1. /\ UNCHANGED <<tasks, lastId, submitted, hand>>
        /\ \A v \in Thread \ {w} : pc'[v] = pc[v]
        /\ <<pc[w], pc'[w]>> \in PlainMove
    BY <1>7, <1>t DEF PlainFrame, tableVars, jobVars, storedVars
  <2>2. /\ pc[w] \notin {"idle", "reuse", "create", "register", "enqueue"}
        /\ pc'[w] \notin {"reuse", "create", "register", "enqueue"}
    BY <2>1 DEF PlainMove
  <2>3. Deciding' = Deciding
    BY <2>1, <2>2 DEF Deciding
  <2>4. \A v \in Worker : pc'[v] # "idle" => cur'[v] \in Made
    BY <1>7, <1>p, <1>t, <2>1, <2>2 DEF PlainFrame
  <2> QED
    BY <1>0, <1>p, <1>t, <2>1, <2>2, <2>3, <2>4, PlacedFrame
<1>8. ASSUME UNCHANGED <<tableVars, jobVars, pc, cur, hand, tasks>>
      PROVE  Placed'
  BY <1>0, <1>p, <1>8, PlacedFrame DEF Deciding, tableVars, jobVars
<1>9. ASSUME EpollDispatch
      PROVE  Placed'
  <2>1. /\ UNCHANGED <<lastId, submitted, pc, cur, hand>> /\ polled \in registry
        /\ \/ UNCHANGED tasks
           \/ tasks' = Append(tasks, [op |-> "resume", fid |-> polled])
    BY <1>9 DEF EpollDispatch, tableVars, jobVars
  <2>2. [op |-> "resume", fid |-> polled] \in PoolTask /\ polled \in Made
    BY <1>0, <1>r, <2>1 DEF PoolTask, TypeOK
  <2>3. \A i \in 1..Len(tasks') : tasks'[i].fid \in Made
    BY <1>0, <1>p, <2>1, <2>2, QueuePush
  <2> QED
    BY <1>p, <2>1, <2>3 DEF Placed, Made, Deciding
<1>10. (EpollWait \/ \E f \in Fiber : EpollCheck(f)) => Placed'
  BY <1>8 DEF EpollWait, EpollCheck
<1> QED
  BY <1>0, <1>1, <1>2, <1>3, <1>4, <1>5, <1>6, <1>7, <1>8, <1>9, <1>10, StepKinds
  DEF threadVars

-----------------------------------------------------------------------------
LEMMA JobsFrame ==
    ASSUME Jobs, UNCHANGED <<firstIn, storedVars, lastId>>, Free' \subseteq Free,
           \A t \in Thread : pc'[t] = "reuse" => pc[t] = "reuse" /\ hand'[t] = hand[t]
    PROVE  Jobs'
BY DEF Jobs, jobVars, storedVars, Made

LEMMA JobsStep ==
    ASSUME Core, Next
    PROVE  Jobs'
<1>0. TypeOK /\ Jobs /\ OnePlace /\ Stacks
  BY DEF Core
<1>t. /\ pc \in [Thread -> ThreadPC] /\ hand \in [Thread -> 0..MaxJob]
      /\ firstIn \in [Fiber -> BOOLEAN] /\ job \in [Fiber -> 0..MaxJob]
      /\ lastId \in 0..MaxJob /\ submitted \in Nat
      /\ Worker \subseteq Thread /\ MaxJob \in Nat /\ Fiber = 1..MaxJob
      /\ Made \subseteq Fiber
  BY <1>0, SchedulerAssumption DEF TypeOK, Thread, Fiber, Made
<1>p. /\ \A t \in Thread : pc[t] \in {"reuse", "register", "enqueue"} => hand[t] \in Made
      /\ \A w \in Worker : pc[w] # "idle" => cur[w] \in Made
  BY DEF Core, Placed
<1>r. registry \subseteq Made /\ Free \subseteq Made /\ registry \cap Free = {}
  BY <1>0 DEF OnePlace, Made
<1>j. /\ started \subseteq 1..submitted
      /\ \A f \in Made : job[f] \in 1..submitted
      /\ \A f, g \in Made : job[f] = job[g] => f = g
      /\ \A f \in Made : firstIn[f] <=> job[f] \notin started
      /\ \A n \in 1..submitted : n \in started \/ \E f \in Made : job[f] = n
      /\ \A f \in Free : ~firstIn[f]
      /\ \A t \in Thread : pc[t] = "reuse" => ~firstIn[hand[t]]
  BY <1>0 DEF Jobs
<1>n. /\ submitted + 1 \notin started /\ submitted + 1 \in 1..(submitted + 1)
      /\ 1..submitted \subseteq 1..(submitted + 1) /\ submitted + 1 \notin 1..submitted
      /\ \A n \in 1..(submitted + 1) : n = submitted + 1 \/ n \in 1..submitted
  BY <1>j, <1>t
<1>1. ASSUME NEW t \in Thread, TakeFree(t)
      PROVE  Jobs'
  <2>1. CASE freeFibers = <<>>
    <3>1. /\ pc' = [pc EXCEPT ![t] = "create"]
          /\ UNCHANGED <<hand, freeFibers, firstIn, jobVars, lastId>>
      BY <1>1, <2>1 DEF TakeFree, fiberVars
    <3> QED
      BY <1>0, <1>t, <3>1, JobsFrame DEF Free, jobVars, storedVars
  <2>2. CASE freeFibers # <<>>
    <3>1. Free' = Free \ {Last(freeFibers)} /\ Last(freeFibers) \in Free
      BY <1>0, <1>1, <2>2, RangeOfFront DEF TakeFree, TypeOK, OnePlace, Free
    <3>2. /\ pc' = [pc EXCEPT ![t] = "reuse"]
          /\ hand' = [hand EXCEPT ![t] = Last(freeFibers)]
          /\ UNCHANGED <<firstIn, storedVars, lastId>>
      BY <1>1, <2>2 DEF TakeFree, fiberVars, jobVars, storedVars
    <3>3. \A u \in Thread : pc'[u] = "reuse" => ~firstIn[hand'[u]]
      BY <1>j, <1>t, <3>1, <3>2
    <3> QED
      BY <1>0, <3>1, <3>2, <3>3 DEF Jobs, jobVars, storedVars, Made
  <2> QED
    BY <2>1, <2>2
<1>2. ASSUME NEW t \in Thread, Reuse(t)
      PROVE  Jobs'
  <2>1. /\ pc[t] = "reuse" /\ pc' = [pc EXCEPT ![t] = "register"]
        /\ job' = [job EXCEPT ![hand[t]] = submitted + 1]
        /\ firstIn' = [firstIn EXCEPT ![hand[t]] = TRUE]
        /\ submitted' = submitted + 1
        /\ UNCHANGED <<started, lastId, hand, freeFibers>>
    BY <1>2 DEF Reuse, tableVars
  <2>2. hand[t] \in Made /\ job[hand[t]] \in started /\ Made' = Made /\ Free' = Free
    BY <1>p, <1>j, <2>1 DEF Made, Free
  <2>3. hand[t] \notin Free
    BY <1>0, <2>1 DEF OnePlace, Held
  <2>4. \A u \in Thread : pc'[u] = "reuse" => pc[u] = "reuse" /\ hand[u] # hand[t]
    BY <1>0, <1>t, <2>1 DEF OnePlace
  <2>5. \A f \in Made : f # hand[t] => job'[f] = job[f] /\ firstIn'[f] = firstIn[f]
    BY <1>t, <2>1
  <2>6. job'[hand[t]] = submitted + 1 /\ firstIn'[hand[t]] = TRUE
    BY <1>t, <2>1, <2>2
  <2>7. \A n \in 1..submitted : n \in started \/ \E f \in Made : job'[f] = n
    BY <1>j, <2>2, <2>5
  <2>8. \A f, g \in Made : job'[f] = job'[g] => f = g
    BY <1>j, <1>n, <2>5, <2>6
  <2>9. \A f \in Made : job'[f] \in 1..(submitted + 1)
    BY <1>j, <1>n, <2>5, <2>6
  <2>10. \A f \in Made : firstIn'[f] <=> job'[f] \notin started
    BY <1>j, <1>n, <2>5, <2>6
  <2>11. \A f \in Free : ~firstIn'[f]
    BY <1>j, <1>r, <2>3, <2>5
  <2>12. \A u \in Thread : pc'[u] = "reuse" => ~firstIn'[hand[u]]
    BY <1>j, <1>p, <2>4, <2>5
  <2>13. \A n \in 1..(submitted + 1) : n \in started \/ \E f \in Made : job'[f] = n
    BY <1>n, <2>2, <2>6, <2>7
  <2> QED
    BY <1>j, <1>n, <2>1, <2>2, <2>8, <2>9, <2>10, <2>11, <2>12, <2>13 DEF Jobs
<1>3. ASSUME NEW t \in Thread, Create(t)
      PROVE  Jobs'
  <2> DEFINE new == lastId + 1
  <2>1. /\ pc[t] = "create" /\ pc' = [pc EXCEPT ![t] = "register"]
        /\ job' = [job EXCEPT ![new] = submitted + 1]
        /\ firstIn' = [firstIn EXCEPT ![new] = TRUE]
        /\ submitted' = submitted + 1
        /\ hand' = [hand EXCEPT ![t] = new]
        /\ lastId' = new /\ new \in Fiber
        /\ UNCHANGED <<started, freeFibers>>
    BY <1>3 DEF Create
  <2>2. Made' = Made \cup {new} /\ new \notin Made /\ Free' = Free
    BY <1>t, <2>1 DEF Made, Free
  <2> HIDE DEF new
  <2>3. \A f \in Made : job'[f] = job[f] /\ firstIn'[f] = firstIn[f]
    BY <1>t, <2>1, <2>2
  <2>4. job'[new] = submitted + 1 /\ firstIn'[new] = TRUE
    BY <1>t, <2>1
  <2>5. \A u \in Thread : pc'[u] = "reuse" => pc[u] = "reuse" /\ hand'[u] = hand[u]
    BY <1>t, <2>1
  <2>6. \A f, g \in Made' : job'[f] = job'[g] => f = g
    BY <1>j, <1>n, <2>2, <2>3, <2>4
  <2>7. \A f \in Made' : job'[f] \in 1..(submitted + 1)
    BY <1>j, <1>n, <2>2, <2>3, <2>4
  <2>8. \A f \in Made' : firstIn'[f] <=> job'[f] \notin started
    BY <1>j, <1>n, <2>2, <2>3, <2>4
  <2>9. \A n \in 1..(submitted + 1) : n \in started \/ \E f \in Made' : job'[f] = n
    BY <1>j, <1>n, <2>2, <2>3, <2>4
  <2>10. \A f \in Free : ~firstIn'[f]
    BY <1>j, <1>r, <2>3
  <2>11. \A u \in Thread : pc'[u] = "reuse" => ~firstIn'[hand'[u]]
    BY <1>j, <1>p, <2>3, <2>5
  <2> QED
    BY <1>j, <1>n, <2>1, <2>2, <2>6, <2>7, <2>8, <2>9, <2>10, <2>11 DEF Jobs
<1>4. ASSUME NEW t \in Thread, Register(t) \/ Enqueue(t)
      PROVE  Jobs'
  <2>1. PICK q \in {"enqueue", "user", "idle"} : pc' = [pc EXCEPT ![t] = q]
    BY <1>4 DEF Register, Enqueue, Home
  <2>2. /\ UNCHANGED <<firstIn, storedVars, lastId, freeFibers>>
        /\ \A u \in Thread \ {t} : hand'[u] = hand[u]
    BY <1>4, <1>t DEF Register, Enqueue, fiberVars, tableVars, jobVars, storedVars
  <2> QED
    BY <1>0, <1>t, <2>1, <2>2, JobsFrame DEF Free
<1>5. ASSUME NEW w \in Worker, SwitchIn(w)
      PROVE  Jobs'
  <2>1. /\ pc[w] = "switch" /\ pc' = [pc EXCEPT ![w] = "user"]
        /\ firstIn' = [firstIn EXCEPT ![cur[w]] = FALSE]
        /\ started' = IF firstIn[cur[w]] THEN started \cup {job[cur[w]]} ELSE started
        /\ UNCHANGED <<job, submitted, lastId, hand, freeFibers>>
    BY <1>5 DEF SwitchIn, tableVars
  <2>2. cur[w] \in Made /\ Made' = Made /\ Free' = Free
    BY <1>p, <2>1 DEF Made, Free
  <2>3. \A f \in Made : f # cur[w] => firstIn'[f] = firstIn[f]
    BY <1>t, <2>1
  <2>4. ~firstIn'[cur[w]] /\ \A f \in Fiber : firstIn'[f] => firstIn[f]
    BY <1>t, <2>1, <2>2
  <2>5. started' \subseteq 1..submitted /\ started \subseteq started'
    <3>1. job[cur[w]] \in 1..submitted
      BY <1>j, <2>2
    <3>2. CASE firstIn[cur[w]]
      BY <1>j, <2>1, <3>1, <3>2
    <3>3. CASE ~firstIn[cur[w]]
      BY <1>j, <2>1, <3>3
    <3> QED
      BY <3>2, <3>3
  <2>6. \A f \in Made : firstIn'[f] <=> job[f] \notin started'
    <3>1. job[cur[w]] \in started'
      BY <1>j, <2>1, <2>2
    <3>2. \A f \in Made : f # cur[w] => (job[f] \in started' <=> job[f] \in started)
      BY <1>j, <2>1, <2>2
    <3> QED
      BY <1>j, <2>3, <2>4, <3>1, <3>2
  <2>7. \A u \in Thread : pc'[u] = "reuse" => ~firstIn'[hand[u]]
    BY <1>j, <1>p, <1>t, <2>1, <2>4
  <2>8. \A f \in Free : ~firstIn'[f]
    BY <1>j, <1>r, <1>t, <2>4
  <2> QED
    BY <1>j, <2>1, <2>2, <2>5, <2>6, <2>7, <2>8 DEF Jobs
<1>6. ASSUME NEW w \in Worker, Exit(w)
      PROVE  Jobs'
  <2>1. /\ pc[w] = "exit" /\ pc' = [pc EXCEPT ![w] = "tail"]
        /\ freeFibers' = Append(freeFibers, cur[w])
        /\ UNCHANGED <<firstIn, storedVars, lastId, hand>>
    BY <1>6 DEF Exit, fiberVars, jobVars, storedVars
  <2>2. cur[w] \in Made /\ ~firstIn[cur[w]]
    BY <1>0, <1>p, <2>1 DEF Stacks, InJob
  <2>3. Free' = Free \cup {cur[w]}
    <3>1. freeFibers \in Seq(Fiber) /\ cur[w] \in Fiber
      BY <1>0, <1>t, <2>2 DEF TypeOK
    <3> QED
      BY <2>1, <3>1, RangeOfAppend DEF Free
  <2>4. \A u \in Thread : pc'[u] = "reuse" => ~firstIn[hand[u]]
    BY <1>j, <1>t, <2>1
  <2> QED
    BY <1>0, <2>1, <2>2, <2>3, <2>4 DEF Jobs, jobVars, storedVars, Made
<1>7. ASSUME NEW w \in Worker, Pop(w)
      PROVE  Jobs'
  <2>1. Head(tasks).op \in {"start", "resume"}
    BY <1>0, <1>7, QueuePop DEF Pop, PoolTask
  <2>2. /\ UNCHANGED <<firstIn, storedVars, lastId, freeFibers, hand>>
        /\ pc' = [pc EXCEPT ![w] = Head(tasks).op]
    BY <1>7 DEF Pop, fiberVars, tableVars, jobVars, storedVars
  <2> QED
    BY <1>0, <1>t, <2>1, <2>2, JobsFrame DEF Free
<1>8. ASSUME NEW w \in Worker, PlainFrame(w)
      PROVE  Jobs'
  <2>1. /\ UNCHANGED <<firstIn, storedVars, lastId, freeFibers, hand>>
        /\ \A v \in Thread \ {w} : pc'[v] = pc[v]
        /\ pc'[w] # "reuse"
    BY <1>8, <1>t DEF PlainFrame, tableVars, PlainMove
  <2> QED
    BY <1>0, <2>1, JobsFrame DEF Free
<1>9. ASSUME UNCHANGED <<firstIn, storedVars, tableVars, hand, pc>>
      PROVE  Jobs'
  BY <1>0, <1>9, JobsFrame DEF Free, tableVars
<1>10. (EpollWait \/ EpollDispatch \/ \E f \in Fiber : EpollCheck(f)) => Jobs'
  BY <1>9 DEF EpollDispatch, EpollWait, EpollCheck, fiberVars, jobVars, storedVars
<1> QED
  BY <1>0, <1>1, <1>2, <1>3, <1>4, <1>5, <1>6, <1>7, <1>8, <1>9, <1>10, StepKinds
  DEF threadVars, fiberVars, jobVars, storedVars

-----------------------------------------------------------------------------
(* A fiber that waits for its socket stays registered and keeps its job:   *)
(* only the job's return could unregister it.                              *)
LEMMA WaitingStable ==
    ASSUME SchedulerInv, WatchersEndless, Next, NEW f, Waiting(f)
    PROVE  Waiting(f)'
<1>0. TypeOK /\ OnePlace /\ Stacks
  BY DEF SchedulerInv, Core
<1>1. f \in registry /\ f \in Made /\ job[f] \in Watching /\ ~firstIn[f]
  BY DEF Waiting
<1>2. ASSUME lastId' = lastId, job' = job, firstIn'[f] => firstIn[f], f \in registry'
      PROVE  Waiting(f)'
  BY <1>1, <1>2 DEF Waiting, Made
<1>t. /\ f \in Fiber /\ firstIn \in [Fiber -> BOOLEAN] /\ job \in [Fiber -> 0..MaxJob]
      /\ lastId \in Nat
  BY <1>0, <1>1 DEF TypeOK
<1>3. ASSUME NEW t \in Thread, Reuse(t)
      PROVE  Waiting(f)'
  <2>1. hand[t] # f
    BY <1>0, <1>1, <1>3 DEF Reuse, OnePlace, Held
  <2> QED
    BY <1>1, <1>3, <1>t, <2>1 DEF Reuse, Waiting, Made, tableVars
<1>4. ASSUME NEW t \in Thread, Create(t)
      PROVE  Waiting(f)'
  <2>1. lastId + 1 # f /\ f \in Made'
    BY <1>1, <1>4, <1>t DEF Create, Made
  <2> QED
    BY <1>1, <1>4, <1>t, <2>1 DEF Create, Waiting
<1>5. ASSUME NEW w \in Worker, Exit(w)
      PROVE  Waiting(f)'
  <2>1. cur[w] # f
    BY <1>0, <1>1, <1>5 DEF Exit, Stacks, WatchersEndless
  <2> QED
    BY <1>1, <1>2, <1>5, <2>1 DEF Exit, fiberVars, jobVars, storedVars
<1>6. ASSUME NEW t \in Thread, TakeFree(t) \/ Register(t) \/ Enqueue(t)
      PROVE  Waiting(f)'
  BY <1>1, <1>2, <1>6 DEF TakeFree, Register, Enqueue, tableVars, fiberVars, jobVars, storedVars
<1>7. ASSUME NEW w \in Worker, Pop(w) \/ SwitchIn(w) \/ PlainFrame(w)
      PROVE  Waiting(f)'
  BY <1>1, <1>2, <1>7, <1>t DEF Pop, SwitchIn, PlainFrame, tableVars, fiberVars, jobVars, storedVars
<1>8. ASSUME UNCHANGED <<tableVars, fiberVars, storedVars>>
      PROVE  Waiting(f)'
  BY <1>1, <1>2, <1>8 DEF tableVars, fiberVars, jobVars, storedVars
<1> QED
  BY <1>0, <1>3, <1>4, <1>5, <1>6, <1>7, <1>8, StepKinds DEF EpollWait, EpollCheck, EpollDispatch, storedVars, jobVars

LEMMA ResumesStep ==
    ASSUME SchedulerInv, WatchersEndless, Next
    PROVE  Resumes'
<1>0. TypeOK /\ Resumes /\ Tokens /\ Stacks /\ OnePlace
  BY DEF SchedulerInv, Core
<1>t. /\ pc \in [Thread -> ThreadPC] /\ cur \in [Worker -> 0..MaxJob]
      /\ firstIn \in [Fiber -> BOOLEAN] /\ Worker \subseteq Thread
  BY <1>0 DEF TypeOK, Thread
<1>p. \A w \in Worker : pc[w] # "idle" => cur[w] \in Made
  BY DEF SchedulerInv, Core, Placed
<1>s. \A f : Waiting(f) => Waiting(f)'
  BY WaitingStable
<1>1. \A f \in watched' : Waiting(f)'
  <2>1. ASSUME NEW f \in watched', f \notin watched
        PROVE  \E w \in Worker : Watch(w) /\ f = cur[w]
    BY <2>1, <1>0, StepKinds DEF TakeFree, Reuse, Create, Register, Enqueue, Pop, SwitchIn,
       Exit, PlainStep, Start, ResumeTest, ResumeClaim, Watch, Unwatch, YieldTest,
       YieldHold, YieldSwitch, Return, Throw, Terminate, Leave, SwitchOut, EpollWait, EpollCheck,
       EpollDispatch
  <2>2. ASSUME NEW w \in Worker, Watch(w)
        PROVE  Waiting(cur[w])
    BY <1>0, <1>p, <2>2 DEF Watch, Waiting, Stacks, InJob, UserPC
  <2> QED
    BY <1>0, <1>s, <2>1, <2>2 DEF Resumes
<1>2. polled' # 0 => Waiting(polled)'
  <2>1. polled' # 0 => polled' = polled \/ polled' \in batch
    BY <1>0, StepKinds DEF TakeFree, Reuse, Create, Register, Enqueue, Pop, SwitchIn,
       Exit, PlainFrame, EpollWait, EpollCheck, EpollDispatch, threadVars, epollVars
  <2>2. polled' # 0 => Waiting(polled')
    BY <1>0, <2>1 DEF Resumes
  <2> QED
    BY <1>s, <2>2 DEF Waiting
<1>b. \A f \in batch' : Waiting(f)'
  <2>1. ASSUME NEW f \in batch'
        PROVE  f \in batch \/ f \in watched
    BY <1>0, <2>1, StepKinds DEF TakeFree, Reuse, Create, Register, Enqueue, Pop, SwitchIn,
       Exit, PlainFrame, EpollWait, EpollCheck, EpollDispatch, threadVars, epollVars
  <2> QED
    BY <1>0, <1>s, <2>1 DEF Resumes
<1>3. \A i \in 1..Len(tasks') : tasks'[i].op = "resume" => Waiting(tasks'[i].fid)
  <2>1. CASE UNCHANGED tasks
    BY <1>0, <2>1 DEF Resumes
  <2>2. ASSUME NEW t \in Thread, Enqueue(t)
        PROVE  \A i \in 1..Len(tasks') : tasks'[i].op = "resume" => Waiting(tasks'[i].fid)
    <3>1. hand[t] \in Fiber
      <4>1. hand[t] \in Made
        BY <2>2 DEF SchedulerInv, Core, Placed, Enqueue
      <4>2. lastId \in 0..MaxJob /\ MaxJob \in Nat
        BY <1>0, SchedulerAssumption DEF TypeOK
      <4> QED
        BY <4>1, <4>2 DEF Made, Fiber
    <3>2. [op |-> "start", fid |-> hand[t]] \in PoolTask
      BY <3>1 DEF PoolTask
    <3> QED
      BY <1>0, <2>2, <3>2, QueuePush DEF Enqueue, Resumes
  <2>3. ASSUME EpollDispatch
        PROVE  \A i \in 1..Len(tasks') : tasks'[i].op = "resume" => Waiting(tasks'[i].fid)
    <3>1. Waiting(polled) /\ (UNCHANGED tasks \/ tasks' = Append(tasks, [op |-> "resume", fid |-> polled]))
      BY <1>0, <2>3 DEF EpollDispatch, Resumes
    <3>2. [op |-> "resume", fid |-> polled] \in PoolTask
      BY <1>0, <3>1 DEF PoolTask, Waiting, TypeOK
    <3> QED
      BY <1>0, <3>1, <3>2, QueuePush DEF Resumes
  <2>4. ASSUME NEW w \in Worker, Pop(w)
        PROVE  \A i \in 1..Len(tasks') : tasks'[i].op = "resume" => Waiting(tasks'[i].fid)
    BY <1>0, <2>4, QueuePop DEF Pop, Resumes
  <2> QED
    BY <1>0, <2>1, <2>2, <2>3, <2>4, StepKinds DEF TakeFree, Reuse, Create, Register,
       SwitchIn, Exit, PlainFrame, EpollWait, EpollCheck
<1>4. ASSUME NEW w \in Worker, pc'[w] \in {"resume", "claim"} \/ (pc'[w] = "switch" /\ ~firstIn'[cur'[w]])
      PROVE  Waiting(cur'[w])
  <2>1. CASE Pop(w)
    <3>1. /\ Head(tasks) = tasks[1] /\ 1 \in 1..Len(tasks) /\ Head(tasks) \in PoolTask
          /\ pc'[w] = Head(tasks).op /\ cur'[w] = Head(tasks).fid
      BY <1>0, <1>t, <2>1, QueuePop DEF Pop
    <3>2. Head(tasks).op = "resume"
      BY <1>4, <3>1 DEF PoolTask
    <3> QED
      BY <1>0, <3>1, <3>2 DEF Resumes
  <2>2. CASE PlainFrame(w)
    <3>1. cur'[w] = cur[w] /\ firstIn' = firstIn
      BY <1>4, <2>2 DEF PlainFrame
    <3>2. pc[w] \in {"resume", "claim"} \/ (pc[w] = "start" /\ pc'[w] = "switch")
      BY <1>4, <2>2 DEF PlainFrame, PlainMove
    <3>3. pc[w] = "start" => firstIn[cur[w]]
      BY <1>0 DEF Tokens
    <3> QED
      BY <1>0, <1>4, <3>1, <3>2, <3>3 DEF Resumes
  <2>3. ASSUME pc'[w] = pc[w], cur'[w] = cur[w]
        PROVE  Waiting(cur'[w])
    <3>1. CASE pc[w] \in {"resume", "claim"}
      BY <1>0, <2>3, <3>1 DEF Resumes
    <3>2. CASE pc[w] = "switch" /\ ~firstIn[cur[w]]
      BY <1>0, <2>3, <3>2 DEF Resumes
    <3>3. ASSUME pc[w] = "switch", firstIn[cur[w]]
          PROVE  FALSE
      <4>1. ~firstIn'[cur[w]] /\ cur[w] \in Made /\ cur[w] \in Fiber
        BY <1>0, <1>4, <1>p, <2>3, <3>3 DEF Stacks, TypeOK
      <4>2. PICK v \in Worker : SwitchIn(v) /\ cur[v] = cur[w]
        BY <1>0, <1>t, <3>3, <4>1, StepKinds DEF TakeFree, Reuse, Create, Register, Enqueue,
           Pop, SwitchIn, Exit, PlainFrame, EpollWait, EpollCheck, EpollDispatch, fiberVars
      <4>3. Enters(v, cur[w]) /\ Enters(w, cur[w])
        BY <3>3, <4>2 DEF SwitchIn, Enters
      <4>4. v = w
        BY <1>0, <4>1, <4>3 DEF Tokens
      <4> QED
        BY <1>4, <1>t, <2>3, <3>3, <4>2, <4>4 DEF SwitchIn
    <3> QED
      BY <1>4, <2>3, <3>1, <3>2, <3>3
  <2>4. CASE SwitchIn(w) \/ Exit(w)
    BY <1>4, <1>t, <2>4 DEF SwitchIn, Exit
  <2>5. ASSUME NEW v \in Worker, v # w, Pop(v) \/ SwitchIn(v) \/ Exit(v) \/ PlainFrame(v)
        PROVE  pc'[w] = pc[w] /\ cur'[w] = cur[w]
    BY <1>t, <2>5 DEF Pop, SwitchIn, Exit, PlainFrame
  <2>6. ASSUME NEW t \in Thread,
               TakeFree(t) \/ Reuse(t) \/ Create(t) \/ Register(t) \/ Enqueue(t)
        PROVE  pc'[w] = pc[w] /\ cur'[w] = cur[w]
    <3>1. PICK q \in AddTaskPC \cup {"user", "idle"} : pc' = [pc EXCEPT ![t] = q]
      BY <2>6 DEF TakeFree, Reuse, Create, Register, Enqueue, Home, AddTaskPC
    <3> QED
      BY <1>4, <1>t, <2>6, <3>1 DEF TakeFree, Reuse, Create, Register, Enqueue, AddTaskPC
  <2>7. (EpollWait \/ EpollDispatch \/ \E f \in Fiber : EpollCheck(f)) => UNCHANGED <<pc, cur>>
    BY DEF EpollDispatch, EpollWait, EpollCheck
  <2> QED
    BY <1>0, <2>1, <2>2, <2>3, <2>4, <2>5, <2>6, <2>7, StepKinds DEF threadVars
<1>5. \A i \in 1..Len(tasks') : tasks'[i].op = "resume" => Waiting(tasks[i].fid)'
  BY <1>s, <1>3 DEF Waiting
<1>6. \A w \in Worker : pc'[w] \in {"resume", "claim"} \/ (pc'[w] = "switch" /\ ~firstIn'[cur'[w]])
                            => Waiting(cur[w])'
  BY <1>s, <1>4 DEF Waiting
<1> QED
  BY <1>1, <1>2, <1>b, <1>5, <1>6 DEF Resumes

-----------------------------------------------------------------------------
LEMMA StacksFrame ==
    ASSUME Stacks, registry \subseteq registry', UNCHANGED <<firstIn, job>>,
           \A w \in Worker :
              \/ pc'[w] \notin InJob \cup {"switch"} \cup StackPC
              \/ /\ cur'[w] = cur[w]
                 /\ pc'[w] \in InJob => pc[w] \in InJob
                 /\ pc'[w] = "switch" => cur[w] \in registry
                 /\ pc'[w] = "exit" => job[cur[w]] \notin Endless
                 /\ pc'[w] \in StackPC => pc[w] \in StackPC
    PROVE  Stacks'
<1>1. /\ \A w \in Worker : pc[w] \in InJob \cup {"switch"} => cur[w] \in registry
      /\ \A w \in Worker : pc[w] \in InJob => ~firstIn[cur[w]]
      /\ \A v, w \in Worker : OnStack(v) /\ OnStack(w) /\ cur[v] = cur[w] => v = w
  BY DEF Stacks
<1>2. InJob \subseteq StackPC /\ "switch" \notin StackPC
  BY DEF InJob, StackPC, UserPC, AddTaskPC
<1>3. \A w \in Worker : pc'[w] \in InJob \cup {"switch"} => cur'[w] \in registry'
  BY <1>1
<1>4. \A w \in Worker : pc'[w] \in InJob => ~firstIn'[cur'[w]]
  BY <1>1
<1>5. \A w \in Worker : pc'[w] = "exit" => job'[cur'[w]] \notin Endless
  BY DEF InJob
<1>6. \A v, w \in Worker : OnStack(v)' /\ OnStack(w)' /\ cur'[v] = cur'[w] => v = w
  BY <1>1 DEF OnStack
<1> QED
  BY <1>3, <1>4, <1>5, <1>6 DEF Stacks

LEMMA StacksStep ==
    ASSUME Core, Orderly, Next
    PROVE  Stacks'
<1>0. TypeOK /\ Orderly /\ Tokens /\ Stacks /\ OnePlace
  BY DEF Core
<1>t. /\ pc \in [Thread -> ThreadPC] /\ cur \in [Worker -> 0..MaxJob]
      /\ firstIn \in [Fiber -> BOOLEAN] /\ job \in [Fiber -> 0..MaxJob]
      /\ Worker \subseteq Thread
  BY <1>0 DEF TypeOK, Thread
<1>i. InJob \subseteq StackPC /\ "switch" \notin StackPC
  BY DEF InJob, StackPC, UserPC, AddTaskPC
<1>s. /\ \A w \in Worker : pc[w] \in InJob \cup {"switch"} => cur[w] \in registry
      /\ \A w \in Worker : pc[w] \in InJob => ~firstIn[cur[w]]
      /\ \A w \in Worker : pc[w] = "exit" => job[cur[w]] \notin Endless
      /\ \A v, w \in Worker : OnStack(v) /\ OnStack(w) /\ cur[v] = cur[w] => v = w
  BY <1>0 DEF Stacks
<1>r. registry \subseteq Made /\ Made \subseteq Fiber
  BY <1>0, SchedulerAssumption DEF OnePlace, Made, TypeOK, Fiber
<1>1. ASSUME NEW t \in Thread,
             TakeFree(t) \/ Register(t) \/ Enqueue(t)
      PROVE  Stacks'
  <2>1. PICK q \in AddTaskPC \cup {"user", "idle"} :
           /\ pc' = [pc EXCEPT ![t] = q]
           /\ t \in Worker => q # "idle" /\ pc[t] \in UserPC
    BY <1>1 DEF TakeFree, AtHome, Register, Enqueue, Home, AddTaskPC, UserPC
  <2>2. q = "idle" \/ q \in InJob \cap StackPC
    BY DEF InJob, StackPC, UserPC
  <2>3. t \in Worker => pc[t] \in InJob \cap StackPC
    BY <2>1 DEF InJob, StackPC
  <2>4. registry \subseteq registry' /\ UNCHANGED <<firstIn, job, cur>>
    BY <1>1 DEF TakeFree, Register, Enqueue, tableVars, fiberVars, jobVars
  <2>5. q # "exit" /\ q # "switch"
    BY DEF AddTaskPC
  <2> QED
    BY <1>0, <1>s, <1>t, <2>1, <2>2, <2>3, <2>4, <2>5, StacksFrame
<1>2. ASSUME NEW t \in Thread, Reuse(t) \/ Create(t)
      PROVE  Stacks'
  <2>1. /\ pc' = [pc EXCEPT ![t] = "register"] /\ pc[t] \in {"reuse", "create"}
        /\ UNCHANGED <<registry, cur>>
    BY <1>2 DEF Reuse, Create, tableVars
  <2>2. \A f \in registry : firstIn'[f] = firstIn[f] /\ job'[f] = job[f]
    <3>1. CASE Reuse(t)
      <4>1. hand[t] \notin registry
        BY <1>0, <3>1 DEF Reuse, OnePlace, Held
      <4> QED
        BY <1>r, <1>t, <3>1, <4>1 DEF Reuse
    <3>2. CASE Create(t)
      <4>1. lastId + 1 \notin registry
        BY <1>0, <1>r DEF Made, TypeOK
      <4> QED
        BY <1>r, <1>t, <3>2, <4>1 DEF Create
    <3> QED
      BY <1>2, <3>1, <3>2
  <2>3. \A w \in Worker : /\ pc'[w] \in InJob <=> pc[w] \in InJob
                          /\ pc'[w] = "switch" <=> pc[w] = "switch"
                          /\ pc'[w] = "exit" <=> pc[w] = "exit"
                          /\ pc'[w] \in StackPC <=> pc[w] \in StackPC
    BY <1>t, <2>1 DEF InJob, StackPC, UserPC, AddTaskPC
  <2>4. \A w \in Worker : pc[w] \in InJob \cup {"switch"} => cur[w] \in registry
    BY <1>s
  <2>5. \A w \in Worker : pc'[w] \in InJob => ~firstIn'[cur'[w]]
    BY <1>s, <2>1, <2>2, <2>3, <2>4
  <2>6. \A w \in Worker : pc'[w] = "exit" => job'[cur'[w]] \notin Endless
    BY <1>s, <2>1, <2>2, <2>3, <2>4 DEF InJob
  <2> QED
    BY <1>s, <2>1, <2>3, <2>4, <2>5, <2>6 DEF Stacks, OnStack
<1>3. ASSUME NEW w \in Worker, SwitchIn(w)
      PROVE  Stacks'
  <2>1. /\ pc[w] = "switch" /\ pc' = [pc EXCEPT ![w] = "user"]
        /\ firstIn' = [firstIn EXCEPT ![cur[w]] = FALSE]
        /\ UNCHANGED <<registry, job, cur>>
        /\ \A v \in Worker \ {w} : ~(OnStack(v) /\ cur[v] = cur[w])
    BY <1>3 DEF SwitchIn, CanEnter, Occupied, tableVars
  <2>2. cur[w] \in registry /\ cur[w] \in Fiber
    BY <1>r, <1>s, <2>1
  <2>3. \A v \in Worker : pc'[v] \in InJob => ~firstIn'[cur[v]]
    BY <1>r, <1>s, <1>t, <2>1, <2>2
  <2>4. \A v \in Worker : pc'[v] \in InJob \cup {"switch"} => cur[v] \in registry
    BY <1>s, <1>t, <2>1, <2>2
  <2>5. \A v \in Worker : pc'[v] = "exit" => job[cur[v]] \notin Endless
    BY <1>s, <1>t, <2>1
  <2>6. \A u, v \in Worker : OnStack(u)' /\ OnStack(v)' /\ cur[u] = cur[v] => u = v
    BY <1>s, <1>t, <2>1 DEF OnStack
  <2> QED
    BY <2>1, <2>3, <2>4, <2>5, <2>6 DEF Stacks
<1>4. ASSUME NEW w \in Worker, Exit(w)
      PROVE  Stacks'
  <2>1. /\ pc[w] = "exit" /\ pc' = [pc EXCEPT ![w] = "tail"]
        /\ registry' = registry \ {cur[w]}
        /\ UNCHANGED <<firstIn, job, cur>>
    BY <1>4 DEF Exit, fiberVars, jobVars
  <2>2. OnStack(w)
    BY <2>1 DEF OnStack, StackPC
  <2>3. \A v \in Worker \ {w} : pc[v] \in InJob \cup {"switch"} => cur[v] # cur[w]
    <3>1. \A v \in Worker \ {w} : pc[v] \in InJob => cur[v] # cur[w]
      BY <1>i, <1>s, <2>2 DEF OnStack
    <3>2. \A v \in Worker : pc[v] = "switch" => cur[v] # cur[w]
      BY <1>0, <2>1 DEF Orderly
    <3> QED
      BY <3>1, <3>2
  <2>4. \A v \in Worker : pc'[v] \in InJob \cup {"switch"} => cur[v] \in registry'
    BY <1>s, <1>t, <2>1, <2>3 DEF InJob, UserPC, AddTaskPC
  <2>5. \A v \in Worker : pc'[v] \in InJob => pc[v] \in InJob
    BY <1>t, <2>1 DEF InJob
  <2>6. \A v \in Worker : pc'[v] = "exit" => pc[v] = "exit"
    BY <1>t, <2>1
  <2>7. \A v \in Worker : OnStack(v)' => OnStack(v)
    BY <1>t, <2>1, <2>2 DEF OnStack
  <2> QED
    BY <1>s, <2>1, <2>4, <2>5, <2>6, <2>7 DEF Stacks
<1>5. ASSUME NEW w \in Worker, PlainFrame(w)
      PROVE  Stacks'
  <2>1. /\ UNCHANGED <<registry, firstIn, job>>
        /\ \A v \in Worker \ {w} : pc'[v] = pc[v] /\ cur'[v] = cur[v]
        /\ <<pc[w], pc'[w]>> \in PlainMove
        /\ pc'[w] # "idle" => cur'[w] = cur[w]
        /\ pc'[w] = "exit" => job[cur[w]] \notin Endless
    BY <1>5, <1>t DEF PlainFrame, tableVars, jobVars, storedVars
  <2>2. /\ pc'[w] \in InJob => pc[w] \in InJob
        /\ pc'[w] = "switch" => pc[w] \in {"start", "claim"}
        /\ pc'[w] \in StackPC => pc[w] \in StackPC
        /\ pc'[w] = "idle" => pc'[w] \notin InJob \cup {"switch"} \cup StackPC
    BY <2>1 DEF PlainMove, InJob, StackPC, UserPC, AddTaskPC
  <2>3. pc[w] \in {"start", "claim"} => cur[w] \in registry
    BY <1>0 DEF Tokens, Orderly
  <2>4. /\ \A v \in Worker : pc[v] = "switch" => cur[v] \in registry
        /\ \A v \in Worker : pc[v] = "exit" => job[cur[v]] \notin Endless
    BY <1>s
  <2> QED
    BY <1>0, <2>1, <2>2, <2>3, <2>4, StacksFrame
<1>6. ASSUME NEW w \in Worker, Pop(w)
      PROVE  Stacks'
  <2>1. Head(tasks).op \in {"start", "resume"}
    BY <1>0, <1>6, QueuePop DEF Pop, PoolTask
  <2>2. /\ pc' = [pc EXCEPT ![w] = Head(tasks).op]
        /\ \A v \in Worker \ {w} : cur'[v] = cur[v]
        /\ UNCHANGED <<registry, firstIn, job>>
    BY <1>6, <1>t DEF Pop, tableVars, fiberVars, jobVars
  <2>3. pc'[w] \notin InJob \cup {"switch"} \cup StackPC
    BY <1>t, <2>1, <2>2 DEF InJob, StackPC, UserPC, AddTaskPC
  <2> QED
    BY <1>0, <1>s, <1>t, <2>2, <2>3, StacksFrame
<1>7. ASSUME UNCHANGED <<registry, firstIn, job, pc, cur>>
      PROVE  Stacks'
  BY <1>0, <1>s, <1>7, StacksFrame
<1>8. (EpollWait \/ EpollDispatch \/ \E f \in Fiber : EpollCheck(f)) => Stacks'
  BY <1>7 DEF EpollDispatch, EpollWait, EpollCheck, tableVars, fiberVars, jobVars
<1> QED
  BY <1>0, <1>1, <1>2, <1>3, <1>4, <1>5, <1>6, <1>7, <1>8, StepKinds
  DEF threadVars, fiberVars, tableVars, jobVars

-----------------------------------------------------------------------------
(* Steps that neither touch the queue nor what enters a fiber.             *)
LEMMA TokensFrame ==
    ASSUME Tokens, UNCHANGED <<tasks, lastId>>,
           \A f \in Made : firstIn'[f] <=> firstIn[f],
           \A f \in registry : f \in registry' \/ ~firstIn[f],
           \A i \in 1..Len(tasks) : tasks[i].fid \in Made,
           \A t \in Thread, f \in Made : Adds(t, f)' <=> Adds(t, f),
           \A w \in Worker, f \in Made : Enters(w, f)' <=> Enters(w, f),
           \A t \in Thread : pc'[t] \in {"register", "enqueue"} =>
              hand'[t] \in Made /\ firstIn[hand'[t]],
           \A t \in Thread : pc'[t] = "enqueue" => hand'[t] \in registry',
           \A w \in Worker : pc'[w] = "start" =>
              pc[w] = "start" /\ cur'[w] = cur[w] /\ cur[w] \in Made
    PROVE  Tokens'
<1>1. Made' = Made /\ \A i, f : IsStart(i, f)' <=> IsStart(i, f)
  BY DEF Made, IsStart
<1>2. \A i \in 1..Len(tasks) : tasks[i].op = "start" =>
          firstIn'[tasks[i].fid] /\ tasks[i].fid \in registry'
  BY DEF Tokens
<1>3. \A w \in Worker : pc'[w] = "start" => firstIn'[cur'[w]] /\ cur'[w] \in registry'
  BY DEF Tokens
<1>4. \A t \in Thread : pc'[t] \in {"register", "enqueue"} => firstIn'[hand'[t]]
  OBVIOUS
<1>5. \A f \in Made : firstIn'[f] =>
          \/ \E i \in 1..Len(tasks) : IsStart(i, f)
          \/ \E t \in Thread : Adds(t, f)'
          \/ \E w \in Worker : Enters(w, f)'
  BY DEF Tokens
<1>6. /\ \A i, j \in 1..Len(tasks), f \in Made : IsStart(i, f) /\ IsStart(j, f) => i = j
      /\ \A t, u \in Thread, f \in Made : Adds(t, f)' /\ Adds(u, f)' => t = u
      /\ \A v, w \in Worker, f \in Made : Enters(v, f)' /\ Enters(w, f)' => v = w
      /\ \A i \in 1..Len(tasks), t \in Thread, f \in Made : ~(IsStart(i, f) /\ Adds(t, f)')
      /\ \A i \in 1..Len(tasks), w \in Worker, f \in Made : ~(IsStart(i, f) /\ Enters(w, f)')
      /\ \A t \in Thread, w \in Worker, f \in Made : ~(Adds(t, f)' /\ Enters(w, f)')
  BY DEF Tokens
<1> QED
  BY <1>1, <1>2, <1>3, <1>4, <1>5, <1>6 DEF Tokens

(* A job is stored in fiber f0, which nothing that will run names yet.     *)
LEMMA TokensAdd ==
    ASSUME TypeOK, Tokens, NEW f0, NEW t \in Thread, pc[t] \in {"reuse", "create"},
           UNCHANGED <<tasks, registry, cur>>,
           Made' = Made \cup {f0},
           firstIn'[f0], \A f \in Made \ {f0} : firstIn'[f] <=> firstIn[f],
           pc' = [pc EXCEPT ![t] = "register"],
           hand'[t] = f0, \A u \in Thread \ {t} : hand'[u] = hand[u],
           registry \subseteq Made, f0 \notin registry,
           \A u \in Thread : pc[u] \in {"register", "enqueue"} => hand[u] \in Made \ {f0},
           \A v \in Worker : pc[v] \in {"start", "switch"} => cur[v] \in registry
    PROVE  Tokens'
<1>t. pc \in [Thread -> ThreadPC] /\ Worker \subseteq Thread
  BY DEF TypeOK, Thread
<1>1. /\ \A i \in 1..Len(tasks), f \in Made' : IsStart(i, f)' <=> IsStart(i, f)
      /\ \A i \in 1..Len(tasks) : ~IsStart(i, f0)
  BY DEF IsStart, Tokens
<1>2. /\ \A u \in Thread, f \in Made' : Adds(u, f)' <=> Adds(u, f) \/ (u = t /\ f = f0)
      /\ \A u \in Thread : ~Adds(u, f0)
  BY <1>t DEF Adds
<1>3. /\ \A v \in Worker, f \in Made' : Enters(v, f)' <=> Enters(v, f) /\ f # f0
      /\ \A v \in Worker : ~Enters(v, f0)
  <2>1. \A v \in Worker : pc[v] \in {"start", "switch"} => cur[v] \in Made \ {f0}
    OBVIOUS
  <2>2. \A v \in Worker : pc'[v] \in {"start", "switch"} <=> pc[v] \in {"start", "switch"}
    BY <1>t
  <2>3. \A v \in Worker : pc[v] \in {"start", "switch"} => pc'[v] = pc[v]
    BY <1>t
  <2> QED
    BY <2>1, <2>2, <2>3 DEF Enters
<1>4. \A f \in Made' : firstIn'[f] =>
         \/ \E i \in 1..Len(tasks) : IsStart(i, f)'
         \/ \E u \in Thread : Adds(u, f)'
         \/ \E w \in Worker : Enters(w, f)'
  BY <1>1, <1>2, <1>3 DEF Tokens
<1>5. \A i \in 1..Len(tasks) : tasks[i].op = "start" =>
         firstIn'[tasks[i].fid] /\ tasks[i].fid \in registry
  BY DEF Tokens
<1>6. \A u \in Thread : pc'[u] \in {"register", "enqueue"} => firstIn'[hand'[u]]
  BY <1>t DEF Tokens
<1>7. \A u \in Thread : pc'[u] = "enqueue" => hand'[u] \in registry
  BY <1>t DEF Tokens
<1>8. \A w \in Worker : pc'[w] = "start" => firstIn'[cur[w]] /\ cur[w] \in registry
  BY <1>t DEF Tokens
<1>9. /\ \A i, j \in 1..Len(tasks), f \in Made' : IsStart(i, f) /\ IsStart(j, f) => i = j
      /\ \A u, v \in Thread, f \in Made' : Adds(u, f)' /\ Adds(v, f)' => u = v
      /\ \A v, w \in Worker, f \in Made' : Enters(v, f)' /\ Enters(w, f)' => v = w
      /\ \A i \in 1..Len(tasks), u \in Thread, f \in Made' : ~(IsStart(i, f) /\ Adds(u, f)')
      /\ \A i \in 1..Len(tasks), w \in Worker, f \in Made' : ~(IsStart(i, f) /\ Enters(w, f)')
      /\ \A u \in Thread, w \in Worker, f \in Made' : ~(Adds(u, f)' /\ Enters(w, f)')
  BY <1>1, <1>2, <1>3 DEF Tokens
<1> QED
  BY <1>1, <1>4, <1>5, <1>6, <1>7, <1>8, <1>9 DEF Tokens

LEMMA TokensStep ==
    ASSUME Core, Orderly, Next
    PROVE  Tokens'
<1>0. TypeOK /\ Orderly /\ Tokens /\ Stacks /\ OnePlace /\ Jobs
  BY DEF Core
<1>t. /\ pc \in [Thread -> ThreadPC] /\ cur \in [Worker -> 0..MaxJob]
      /\ hand \in [Thread -> 0..MaxJob]
      /\ firstIn \in [Fiber -> BOOLEAN] /\ Worker \subseteq Thread
  BY <1>0 DEF TypeOK, Thread
<1>r. registry \subseteq Made /\ Made \subseteq Fiber /\ lastId \in Nat
  BY <1>0, SchedulerAssumption DEF OnePlace, Made, TypeOK, Fiber
<1>p. /\ \A t \in Thread : pc[t] \in {"reuse", "register", "enqueue"} => hand[t] \in Made
      /\ \A w \in Worker : pc[w] # "idle" => cur[w] \in Made
      /\ \A i \in 1..Len(tasks) : tasks[i].fid \in Made
  BY DEF Core, Placed
<1>a. /\ \A i \in 1..Len(tasks) : tasks[i].op = "start" =>
            firstIn[tasks[i].fid] /\ tasks[i].fid \in registry
      /\ \A t \in Thread : pc[t] \in {"register", "enqueue"} => firstIn[hand[t]]
      /\ \A t \in Thread : pc[t] = "enqueue" => hand[t] \in registry
      /\ \A w \in Worker : pc[w] = "start" => firstIn[cur[w]] /\ cur[w] \in registry
  BY <1>0 DEF Tokens
<1>b. /\ \A i, j \in 1..Len(tasks), f \in Made : IsStart(i, f) /\ IsStart(j, f) => i = j
      /\ \A t, u \in Thread, f \in Made : Adds(t, f) /\ Adds(u, f) => t = u
      /\ \A v, w \in Worker, f \in Made : Enters(v, f) /\ Enters(w, f) => v = w
      /\ \A i \in 1..Len(tasks), t \in Thread, f \in Made : ~(IsStart(i, f) /\ Adds(t, f))
      /\ \A i \in 1..Len(tasks), w \in Worker, f \in Made : ~(IsStart(i, f) /\ Enters(w, f))
      /\ \A t \in Thread, w \in Worker, f \in Made : ~(Adds(t, f) /\ Enters(w, f))
  BY <1>0 DEF Tokens
<1>c. \A f \in Made : firstIn[f] =>
          \/ \E i \in 1..Len(tasks) : IsStart(i, f)
          \/ \E t \in Thread : Adds(t, f)
          \/ \E w \in Worker : Enters(w, f)
  BY <1>0 DEF Tokens
<1>1. ASSUME NEW t \in Thread, TakeFree(t)
      PROVE  Tokens'
  <2>1. PICK q \in {"reuse", "create"} : pc' = [pc EXCEPT ![t] = q]
    BY <1>1 DEF TakeFree
  <2>2. /\ UNCHANGED <<tasks, lastId, firstIn, registry, cur>>
        /\ \A u \in Thread \ {t} : hand'[u] = hand[u]
        /\ pc[t] \in {"user", "idle"}
    BY <1>1, <1>t DEF TakeFree, AtHome, Home, fiberVars
  <2>3. \A u \in Thread, f \in Made : Adds(u, f)' <=> Adds(u, f)
    BY <1>t, <2>1, <2>2 DEF Adds
  <2>4. \A w \in Worker, f \in Made : Enters(w, f)' <=> Enters(w, f)
    BY <1>t, <2>1, <2>2 DEF Enters
  <2>5. \A u \in Thread : pc'[u] \in {"register", "enqueue"} => pc[u] = pc'[u] /\ hand'[u] = hand[u]
    BY <1>t, <2>1, <2>2
  <2>6. \A w \in Worker : pc'[w] = "start" => pc[w] = "start" /\ cur'[w] = cur[w] /\ cur[w] \in Made
    BY <1>p, <1>t, <2>1, <2>2
  <2> QED
    BY <1>0, <1>a, <1>p, <2>2, <2>3, <2>4, <2>5, <2>6, TokensFrame
<1>2. ASSUME NEW t \in Thread, Register(t)
      PROVE  Tokens'
  <2>1. /\ pc[t] = "register" /\ pc' = [pc EXCEPT ![t] = "enqueue"]
        /\ registry' = registry \cup {hand[t]}
        /\ UNCHANGED <<tasks, lastId, firstIn, cur, hand>>
    BY <1>2 DEF Register, fiberVars
  <2>2. \A u \in Thread, f \in Made : Adds(u, f)' <=> Adds(u, f)
    BY <1>t, <2>1 DEF Adds
  <2>3. \A w \in Worker, f \in Made : Enters(w, f)' <=> Enters(w, f)
    BY <1>t, <2>1 DEF Enters
  <2>4. \A u \in Thread : pc'[u] \in {"register", "enqueue"} => hand[u] \in Made /\ firstIn[hand[u]]
    BY <1>a, <1>p, <1>t, <2>1
  <2>5. \A u \in Thread : pc'[u] = "enqueue" => hand[u] \in registry'
    BY <1>a, <1>t, <2>1
  <2>6. \A w \in Worker : pc'[w] = "start" => pc[w] = "start" /\ cur[w] \in Made
    BY <1>p, <1>t, <2>1
  <2> QED
    BY <1>0, <1>p, <2>1, <2>2, <2>3, <2>4, <2>5, <2>6, TokensFrame
<1>3. ASSUME NEW w \in Worker, Exit(w)
      PROVE  Tokens'
  <2>1. /\ pc[w] = "exit" /\ pc' = [pc EXCEPT ![w] = "tail"]
        /\ registry' = registry \ {cur[w]}
        /\ UNCHANGED <<tasks, lastId, firstIn, cur, hand>>
    BY <1>3 DEF Exit, fiberVars
  <2>2. ~firstIn[cur[w]]
    BY <1>0, <2>1 DEF Stacks, InJob
  <2>3. \A u \in Thread, f \in Made : Adds(u, f)' <=> Adds(u, f)
    BY <1>t, <2>1 DEF Adds
  <2>4. \A v \in Worker, f \in Made : Enters(v, f)' <=> Enters(v, f)
    BY <1>t, <2>1 DEF Enters
  <2>5. /\ \A u \in Thread : pc'[u] \in {"register", "enqueue"} => hand[u] \in Made /\ firstIn[hand[u]]
        /\ \A u \in Thread : pc'[u] = "enqueue" => hand[u] \in registry'
    BY <1>a, <1>p, <1>t, <2>1, <2>2
  <2>6. \A v \in Worker : pc'[v] = "start" => pc[v] = "start" /\ cur[v] \in Made
    BY <1>p, <1>t, <2>1
  <2> QED
    BY <1>0, <1>p, <2>1, <2>2, <2>3, <2>4, <2>5, <2>6, TokensFrame
<1>4. ASSUME NEW w \in Worker, PlainFrame(w)
      PROVE  Tokens'
  <2>1. /\ UNCHANGED <<tasks, lastId, firstIn, registry, hand>>
        /\ \A v \in Thread \ {w} : pc'[v] = pc[v]
        /\ \A v \in Worker \ {w} : cur'[v] = cur[v]
        /\ <<pc[w], pc'[w]>> \in PlainMove
        /\ pc'[w] # "idle" => cur'[w] = cur[w]
    BY <1>4, <1>t DEF PlainFrame, tableVars
  <2>2. /\ pc[w] \notin {"register", "enqueue", "idle"}
        /\ pc'[w] \notin {"register", "enqueue", "start"}
    BY <2>1 DEF PlainMove
  <2>3. \A u \in Thread, f \in Made : Adds(u, f)' <=> Adds(u, f)
    BY <2>1, <2>2 DEF Adds
  <2>4. \A f \in Made : Enters(w, f)' <=> Enters(w, f)
    <3>1. pc[w] = "claim" => ~firstIn[cur[w]]
      BY <1>0 DEF Orderly
    <3>2. pc'[w] = "switch" <=> pc[w] \in {"start", "claim"}
      BY <2>1 DEF PlainMove
    <3>3. pc[w] # "switch"
      BY <2>1 DEF PlainMove
    <3>4. pc'[w] = "switch" => cur'[w] = cur[w]
      BY <2>1
    <3> QED
      BY <2>1, <2>2, <3>1, <3>2, <3>3, <3>4 DEF Enters
  <2>5. \A v \in Worker, f \in Made : Enters(v, f)' <=> Enters(v, f)
    BY <1>t, <2>1, <2>4 DEF Enters
  <2>6. /\ \A u \in Thread : pc'[u] \in {"register", "enqueue"} => hand[u] \in Made /\ firstIn[hand[u]]
        /\ \A u \in Thread : pc'[u] = "enqueue" => hand[u] \in registry'
    BY <1>a, <1>p, <2>1, <2>2
  <2>7. \A v \in Worker : pc'[v] = "start" => pc[v] = "start" /\ cur'[v] = cur[v] /\ cur[v] \in Made
    BY <1>p, <1>t, <2>1, <2>2
  <2> QED
    BY <1>0, <1>p, <2>1, <2>3, <2>5, <2>6, <2>7, TokensFrame
<1>5. ASSUME UNCHANGED <<tasks, lastId, firstIn, registry, pc, cur, hand>>
      PROVE  Tokens'
  <2>1. /\ \A u \in Thread, f \in Made : Adds(u, f)' <=> Adds(u, f)
        /\ \A v \in Worker, f \in Made : Enters(v, f)' <=> Enters(v, f)
    BY <1>5 DEF Adds, Enters
  <2>2. /\ \A u \in Thread : pc'[u] \in {"register", "enqueue"} => hand[u] \in Made /\ firstIn[hand[u]]
        /\ \A u \in Thread : pc'[u] = "enqueue" => hand[u] \in registry'
        /\ \A v \in Worker : pc'[v] = "start" => pc[v] = "start" /\ cur[v] \in Made
    BY <1>a, <1>p, <1>5
  <2> QED
    BY <1>0, <1>p, <1>5, <2>1, <2>2, TokensFrame
<1>6. (EpollWait \/ \E f \in Fiber : EpollCheck(f)) => Tokens'
  BY <1>5 DEF EpollWait, EpollCheck, tableVars, fiberVars
<1>7. ASSUME NEW w \in Worker, SwitchIn(w)
      PROVE  Tokens'
  <2>1. /\ pc[w] = "switch" /\ pc' = [pc EXCEPT ![w] = "user"]
        /\ firstIn' = [firstIn EXCEPT ![cur[w]] = FALSE]
        /\ UNCHANGED <<tasks, lastId, registry, cur, hand>>
        /\ cur[w] \in Made
    BY <1>7, <1>p DEF SwitchIn, tableVars
  <2>2. CASE ~firstIn[cur[w]]
    <3>1. firstIn' = firstIn
      BY <1>r, <1>t, <2>1, <2>2
    <3>2. /\ \A u \in Thread, f \in Made : Adds(u, f)' <=> Adds(u, f)
          /\ \A v \in Worker, f \in Made : Enters(v, f)' <=> Enters(v, f)
      BY <1>t, <2>1, <2>2, <3>1 DEF Adds, Enters
    <3>3. /\ \A u \in Thread : pc'[u] \in {"register", "enqueue"} => hand[u] \in Made /\ firstIn[hand[u]]
          /\ \A u \in Thread : pc'[u] = "enqueue" => hand[u] \in registry'
          /\ \A v \in Worker : pc'[v] = "start" => pc[v] = "start" /\ cur[v] \in Made
      BY <1>a, <1>p, <1>t, <2>1
    <3> QED
      BY <1>0, <1>p, <2>1, <3>1, <3>2, <3>3, TokensFrame
  <2>3. CASE firstIn[cur[w]]
    <3> DEFINE f0 == cur[w]
    <3>1. Enters(w, f0)
      BY <2>1, <2>3 DEF Enters
    <3>2. /\ \A i \in 1..Len(tasks) : ~IsStart(i, f0)
          /\ \A u \in Thread : ~Adds(u, f0)
          /\ \A v \in Worker : Enters(v, f0) => v = w
      BY <1>b, <2>1, <3>1
    <3>3. /\ \A f \in Made : f # f0 => (firstIn'[f] <=> firstIn[f])
          /\ ~firstIn'[f0]
      BY <1>r, <1>t, <2>1
    <3>4. \A u \in Thread, f \in Made : Adds(u, f)' <=> Adds(u, f)
      BY <1>t, <2>1 DEF Adds
    <3>5. \A v \in Worker, f \in Made : Enters(v, f)' <=> Enters(v, f) /\ f # f0
      BY <1>t, <2>1, <3>2, <3>3 DEF Enters
    <3>6. Made' = Made /\ \A i, f : IsStart(i, f)' <=> IsStart(i, f)
      BY <2>1 DEF Made, IsStart
    <3>7. \A f \in Made : firstIn'[f] =>
             \/ \E i \in 1..Len(tasks) : IsStart(i, f)
             \/ \E t \in Thread : Adds(t, f)'
             \/ \E v \in Worker : Enters(v, f)'
      BY <1>c, <3>3, <3>4, <3>5
    <3>8. \A i \in 1..Len(tasks) : tasks[i].op = "start" =>
             firstIn'[tasks[i].fid] /\ tasks[i].fid \in registry
      BY <1>a, <1>p, <3>2, <3>3 DEF IsStart
    <3>9. \A t \in Thread : pc'[t] \in {"register", "enqueue"} => firstIn'[hand[t]]
      <4>1. \A t \in Thread : pc'[t] \in {"register", "enqueue"} => pc[t] = pc'[t]
        BY <1>t, <2>1
      <4>2. \A t \in Thread : pc[t] \in {"register", "enqueue"} => hand[t] # f0
        BY <3>2 DEF Adds
      <4> QED
        BY <1>a, <1>p, <3>3, <4>1, <4>2
    <3>10. \A t \in Thread : pc'[t] = "enqueue" => hand[t] \in registry
      BY <1>a, <1>t, <2>1
    <3>11. \A v \in Worker : pc'[v] = "start" => firstIn'[cur[v]] /\ cur[v] \in registry
      <4>1. \A v \in Worker : pc'[v] = "start" => pc[v] = "start" /\ v # w
        BY <1>t, <2>1
      <4>2. \A v \in Worker : pc[v] = "start" /\ v # w => cur[v] # f0
        BY <1>a, <3>2 DEF Enters
      <4> QED
        BY <1>a, <1>r, <3>3, <4>1, <4>2
    <3> HIDE DEF f0
    <3> QED
      BY <1>b, <2>1, <3>4, <3>5, <3>6, <3>7, <3>8, <3>9, <3>10, <3>11 DEF Tokens
  <2> QED
    BY <2>2, <2>3
<1>8. ASSUME EpollDispatch
      PROVE  Tokens'
  <2>1. /\ UNCHANGED <<lastId, firstIn, registry, pc, cur, hand>> /\ polled \in registry
        /\ \/ UNCHANGED tasks
           \/ tasks' = Append(tasks, [op |-> "resume", fid |-> polled])
    BY <1>8 DEF EpollDispatch, tableVars, fiberVars
  <2>2. CASE UNCHANGED tasks
    BY <1>5, <2>1, <2>2
  <2>3. CASE tasks' = Append(tasks, [op |-> "resume", fid |-> polled])
    <3>1. [op |-> "resume", fid |-> polled] \in PoolTask
      BY <1>r, <2>1 DEF PoolTask
    <3>2. /\ \A i \in 1..Len(tasks) : tasks'[i] = tasks[i] /\ i \in 1..Len(tasks')
          /\ \A i \in 1..Len(tasks') : i \in 1..Len(tasks) \/ tasks'[i].op = "resume"
      BY <1>0, <2>3, <3>1, QueuePush
    <3>3. \A i \in 1..Len(tasks'), f \in Made : IsStart(i, f)' <=> i \in 1..Len(tasks) /\ IsStart(i, f)
      BY <3>2 DEF IsStart
    <3>4. /\ Made' = Made
          /\ \A u \in Thread, f \in Made : Adds(u, f)' <=> Adds(u, f)
          /\ \A v \in Worker, f \in Made : Enters(v, f)' <=> Enters(v, f)
      BY <2>1 DEF Adds, Enters, Made
    <3>5. \A i \in 1..Len(tasks') : tasks'[i].op = "start" =>
             firstIn[tasks'[i].fid] /\ tasks'[i].fid \in registry
      BY <1>a, <3>2
    <3>6. \A f \in Made : firstIn[f] =>
             \/ \E i \in 1..Len(tasks') : IsStart(i, f)'
             \/ \E t \in Thread : Adds(t, f)'
             \/ \E v \in Worker : Enters(v, f)'
      BY <1>c, <3>2, <3>3, <3>4
    <3> QED
      BY <1>a, <1>b, <2>1, <3>3, <3>4, <3>5, <3>6 DEF Tokens
  <2> QED
    BY <2>1, <2>2, <2>3
<1>9. ASSUME NEW t \in Thread, Reuse(t)
      PROVE  Tokens'
  <2> DEFINE f0 == hand[t]
  <2>1. /\ pc[t] = "reuse" /\ pc' = [pc EXCEPT ![t] = "register"]
        /\ firstIn' = [firstIn EXCEPT ![f0] = TRUE]
        /\ UNCHANGED <<tasks, registry, lastId, cur, hand>>
    BY <1>9 DEF Reuse, tableVars
  <2>2. f0 \in Made /\ f0 \notin registry
    BY <1>0, <1>p, <2>1 DEF OnePlace, Held
  <2>3. ~firstIn[f0]
    BY <1>0, <2>1 DEF Jobs
  <2>4. firstIn'[f0] /\ \A f \in Made \ {f0} : firstIn'[f] <=> firstIn[f]
    BY <1>r, <1>t, <2>1, <2>2
  <2>5. \A u \in Thread : pc[u] \in {"register", "enqueue"} => hand[u] \in Made \ {f0}
    BY <1>a, <1>p, <2>3
  <2>6. \A v \in Worker : pc[v] \in {"start", "switch"} => cur[v] \in registry
    BY <1>0, <1>a DEF Stacks
  <2>7. Made' = Made \cup {f0}
    BY <2>1, <2>2 DEF Made
  <2> QED
    BY <1>0, <1>r, <2>1, <2>2, <2>4, <2>5, <2>6, <2>7, TokensAdd
<1>10. ASSUME NEW t \in Thread, Create(t)
       PROVE  Tokens'
  <2> DEFINE f0 == lastId + 1
  <2>1. /\ pc[t] = "create" /\ pc' = [pc EXCEPT ![t] = "register"]
        /\ firstIn' = [firstIn EXCEPT ![f0] = TRUE] /\ f0 \in Fiber
        /\ hand' = [hand EXCEPT ![t] = f0] /\ lastId' = f0
        /\ UNCHANGED <<tasks, registry, cur>>
    BY <1>10 DEF Create
  <2>2. f0 \notin Made /\ Made' = Made \cup {f0}
    BY <1>r, <2>1 DEF Made
  <2>3. firstIn'[f0] /\ \A f \in Made \ {f0} : firstIn'[f] <=> firstIn[f]
    BY <1>r, <1>t, <2>1
  <2>4. hand'[t] = f0 /\ \A u \in Thread \ {t} : hand'[u] = hand[u]
    BY <1>t, <2>1
  <2>5. \A u \in Thread : pc[u] \in {"register", "enqueue"} => hand[u] \in Made \ {f0}
    BY <1>p, <2>2
  <2>6. \A v \in Worker : pc[v] \in {"start", "switch"} => cur[v] \in registry
    BY <1>0, <1>a DEF Stacks
  <2>7. f0 \notin registry
    BY <1>r, <2>2
  <2> HIDE DEF f0
  <2> QED
    BY <1>0, <1>r, <2>1, <2>2, <2>3, <2>4, <2>5, <2>6, <2>7, TokensAdd
<1>11. ASSUME NEW t \in Thread, Enqueue(t)
       PROVE  Tokens'
  <2> DEFINE f0 == hand[t]
             n == Len(tasks) + 1
  <2>1. /\ pc[t] = "enqueue" /\ pc' = [pc EXCEPT ![t] = Home(t)]
        /\ hand' = [hand EXCEPT ![t] = 0]
        /\ tasks' = Append(tasks, [op |-> "start", fid |-> f0])
        /\ UNCHANGED <<registry, lastId, firstIn, cur>>
    BY <1>11 DEF Enqueue, tableVars, fiberVars
  <2>2. f0 \in Made /\ f0 \in registry /\ firstIn[f0] /\ Adds(t, f0)
    BY <1>a, <1>p, <2>1 DEF Adds
  <2>3. [op |-> "start", fid |-> f0] \in PoolTask
    BY <1>r, <2>2 DEF PoolTask
  <2>4. /\ \A i \in 1..Len(tasks) : tasks'[i] = tasks[i] /\ i \in 1..Len(tasks')
        /\ \A i \in 1..Len(tasks') : i \in 1..Len(tasks) \/ i = n
        /\ n \in 1..Len(tasks') /\ n \notin 1..Len(tasks)
        /\ tasks'[n] = [op |-> "start", fid |-> f0]
    BY <1>0, <2>1, <2>3, QueuePush
  <2>5. \A i \in 1..Len(tasks'), f \in Made :
           IsStart(i, f)' <=> (i \in 1..Len(tasks) /\ IsStart(i, f)) \/ (i = n /\ f = f0)
    BY <2>4 DEF IsStart
  <2>6. \A u \in Thread, f \in Made : Adds(u, f)' <=> Adds(u, f) /\ u # t
    <3>1. pc'[t] \in {"user", "idle"} /\ \A u \in Thread \ {t} : pc'[u] = pc[u] /\ hand'[u] = hand[u]
      BY <1>t, <2>1 DEF Home
    <3> QED
      BY <3>1 DEF Adds
  <2>7. \A v \in Worker, f \in Made : Enters(v, f)' <=> Enters(v, f)
    <3>1. pc'[t] \in {"user", "idle"} /\ \A u \in Thread \ {t} : pc'[u] = pc[u]
      BY <1>t, <2>1 DEF Home
    <3> QED
      BY <1>t, <2>1, <3>1 DEF Enters
  <2>8. Made' = Made
    BY <2>1 DEF Made
  <2>9. \A f \in Made : firstIn[f] =>
           \/ \E i \in 1..Len(tasks') : IsStart(i, f)'
           \/ \E u \in Thread : Adds(u, f)'
           \/ \E v \in Worker : Enters(v, f)'
    <3> SUFFICES ASSUME NEW f \in Made, firstIn[f]
                 PROVE  \/ \E i \in 1..Len(tasks') : IsStart(i, f)'
                        \/ \E u \in Thread : Adds(u, f)'
                        \/ \E v \in Worker : Enters(v, f)'
      OBVIOUS
    <3>1. CASE f = f0
      BY <2>4, <2>5, <3>1
    <3>2. CASE f # f0
      <4>1. ~Adds(t, f)
        BY <3>2 DEF Adds
      <4> QED
        BY <1>c, <2>4, <2>5, <2>6, <2>7, <4>1
    <3> QED
      BY <3>1, <3>2
  <2>10. \A i \in 1..Len(tasks') : tasks'[i].op = "start" =>
            firstIn[tasks'[i].fid] /\ tasks'[i].fid \in registry
    BY <1>a, <2>2, <2>4
  <2>11. /\ \A u \in Thread : pc'[u] \in {"register", "enqueue"} => firstIn[hand'[u]]
         /\ \A u \in Thread : pc'[u] = "enqueue" => hand'[u] \in registry
         /\ \A w \in Worker : pc'[w] = "start" => firstIn[cur[w]] /\ cur[w] \in registry
    BY <1>a, <1>t, <2>1 DEF Home
  <2>12. /\ \A i \in 1..Len(tasks) : ~IsStart(i, f0)
         /\ \A u \in Thread : Adds(u, f0) => u = t
         /\ \A v \in Worker : ~Enters(v, f0)
    BY <1>b, <2>2
  <2> HIDE DEF f0, n
  <2>13. /\ \A i, j \in 1..Len(tasks'), f \in Made : IsStart(i, f)' /\ IsStart(j, f)' => i = j
         /\ \A u, v \in Thread, f \in Made : Adds(u, f)' /\ Adds(v, f)' => u = v
         /\ \A v, w \in Worker, f \in Made : Enters(v, f)' /\ Enters(w, f)' => v = w
    BY <1>b, <2>5, <2>6, <2>7, <2>12
  <2>14. /\ \A i \in 1..Len(tasks'), u \in Thread, f \in Made : ~(IsStart(i, f)' /\ Adds(u, f)')
         /\ \A i \in 1..Len(tasks'), w \in Worker, f \in Made : ~(IsStart(i, f)' /\ Enters(w, f)')
         /\ \A u \in Thread, w \in Worker, f \in Made : ~(Adds(u, f)' /\ Enters(w, f)')
    BY <1>b, <2>5, <2>6, <2>7, <2>12
  <2> QED
    BY <2>1, <2>8, <2>9, <2>10, <2>11, <2>13, <2>14 DEF Tokens
<1>12. ASSUME NEW w \in Worker, Pop(w)
       PROVE  Tokens'
  <2> DEFINE h == Head(tasks)
  <2>1. /\ pc[w] = "idle" /\ pc' = [pc EXCEPT ![w] = h.op]
        /\ cur' = [cur EXCEPT ![w] = h.fid]
        /\ tasks # <<>> /\ tasks' = Tail(tasks)
        /\ UNCHANGED <<registry, lastId, firstIn, hand>>
    BY <1>12 DEF Pop, tableVars, fiberVars
  <2>2. /\ h = tasks[1] /\ h.op \in {"start", "resume"} /\ 1 \in 1..Len(tasks)
        /\ \A i \in 1..Len(tasks') : i + 1 \in 1..Len(tasks) /\ tasks'[i] = tasks[i + 1] /\ i + 1 # 1
        /\ \A i \in 1..Len(tasks) :
              i = 1 \/ (i - 1 \in 1..Len(tasks') /\ tasks'[i - 1] = tasks[i])
    BY <1>0, <2>1, QueuePop DEF PoolTask
  <2>3. h.fid \in Made
    BY <1>p, <2>2
  <2>m. /\ pc'[w] = h.op /\ cur'[w] = h.fid
        /\ \A u \in Thread \ {w} : pc'[u] = pc[u]
        /\ \A u \in Worker \ {w} : cur'[u] = cur[u]
    BY <1>t, <2>1
  <2>4. /\ \A i \in 1..Len(tasks'), f \in Made : IsStart(i, f)' <=> IsStart(i + 1, f)
        /\ \A i \in 1..Len(tasks), f \in Made :
              IsStart(i, f) => i = 1 \/ (i - 1 \in 1..Len(tasks') /\ IsStart(i - 1, f)')
    BY <2>2 DEF IsStart
  <2>5. \A u \in Thread, f \in Made : Adds(u, f)' <=> Adds(u, f)
    BY <2>1, <2>2, <2>m DEF Adds
  <2>6. \A f \in Made : IsStart(1, f) => firstIn[f]
    BY <1>a, <2>2 DEF IsStart
  <2>7. \A v \in Worker, f \in Made : Enters(v, f)' <=> Enters(v, f) \/ (v = w /\ IsStart(1, f))
    <3>1. \A f \in Made : Enters(w, f)' <=> IsStart(1, f)
      BY <2>1, <2>2, <2>6, <2>m DEF Enters, IsStart
    <3>2. \A f \in Made : ~Enters(w, f)
      BY <2>1 DEF Enters
    <3>3. \A v \in Worker \ {w}, f \in Made : Enters(v, f)' <=> Enters(v, f)
      BY <1>t, <2>1, <2>m DEF Enters
    <3> QED
      BY <3>1, <3>2, <3>3
  <2>8. Made' = Made
    BY <2>1 DEF Made
  <2>9. \A f \in Made : firstIn[f] =>
           \/ \E i \in 1..Len(tasks') : IsStart(i, f)'
           \/ \E u \in Thread : Adds(u, f)'
           \/ \E v \in Worker : Enters(v, f)'
    BY <1>c, <2>4, <2>5, <2>7
  <2>10. \A i \in 1..Len(tasks') : tasks'[i].op = "start" =>
            firstIn[tasks'[i].fid] /\ tasks'[i].fid \in registry
    <3>1. \A i \in 1..Len(tasks') : i + 1 \in 1..Len(tasks) /\ tasks'[i] = tasks[i + 1]
      BY <2>2
    <3> HIDE DEF h
    <3> QED
      BY <1>a, <3>1, Zenon
  <2>11. /\ \A u \in Thread : pc'[u] \in {"register", "enqueue"} => firstIn[hand[u]]
         /\ \A u \in Thread : pc'[u] = "enqueue" => hand[u] \in registry
    BY <1>a, <2>2, <2>m
  <2>12. \A v \in Worker : pc'[v] = "start" => firstIn[cur'[v]] /\ cur'[v] \in registry
    BY <1>a, <1>t, <2>2, <2>m
  <2>13. \A i, j \in 1..Len(tasks'), f \in Made : IsStart(i, f)' /\ IsStart(j, f)' => i = j
    <3> SUFFICES ASSUME NEW i \in 1..Len(tasks'), NEW j \in 1..Len(tasks'), NEW f \in Made,
                        IsStart(i, f)', IsStart(j, f)'
                 PROVE  i = j
      OBVIOUS
    <3>1. i + 1 = j + 1
      BY <1>b, <2>2, <2>4
    <3> QED
      BY <3>1
  <2>14. /\ \A u, v \in Thread, f \in Made : Adds(u, f)' /\ Adds(v, f)' => u = v
         /\ \A v, u \in Worker, f \in Made : Enters(v, f)' /\ Enters(u, f)' => v = u
         /\ \A u \in Thread, v \in Worker, f \in Made : ~(Adds(u, f)' /\ Enters(v, f)')
    BY <1>b, <2>2, <2>5, <2>7
  <2>15. /\ \A i \in 1..Len(tasks'), u \in Thread, f \in Made : ~(IsStart(i, f)' /\ Adds(u, f)')
         /\ \A i \in 1..Len(tasks'), v \in Worker, f \in Made : ~(IsStart(i, f)' /\ Enters(v, f)')
    <3>1. \A i \in 1..Len(tasks'), f \in Made : IsStart(i, f)' => ~IsStart(1, f)
      BY <1>b, <2>2, <2>4
    <3> QED
      BY <1>b, <2>2, <2>4, <2>5, <2>7, <3>1
  <2> HIDE DEF h
  <2> QED
    BY <2>1, <2>8, <2>9, <2>10, <2>11, <2>12, <2>13, <2>14, <2>15 DEF Tokens
<1>13. UNCHANGED <<tasks, tableVars, fiberVars, jobVars, watched, threadVars>> => Tokens'
  BY <1>5 DEF tableVars, fiberVars, threadVars
<1> QED
  BY <1>0, <1>1, <1>2, <1>3, <1>4, <1>6, <1>7, <1>8, <1>9, <1>10, <1>11, <1>12, <1>13, StepKinds

-----------------------------------------------------------------------------
(* The steps that concern neither a job's end nor a stored context.        *)
LEMMA FailuresFrame ==
    ASSUME Failures, UNCHANGED <<job, firstIn, saved, failed, started, lastId>>,
           registry \subseteq registry', \A f \in registry' : f \in registry \/ firstIn[f],
           \A w \in Worker :
              /\ pc'[w] \in InJob <=> pc[w] \in InJob
              /\ pc'[w] \in {"tail", "leave"} => pc[w] \in {"tail", "leave"}
              /\ pc[w] = "leave" => pc'[w] = "leave"
              /\ pc'[w] \in InJob \cup {"tail", "leave"} => cur'[w] = cur[w]
    PROVE  Failures'
<1> USE DEF Made
<1>1. failed' \subseteq started'
  BY DEF Failures
<1>2. \A w \in Worker : pc'[w] \in InJob => job'[cur'[w]] \notin failed'
  BY DEF Failures
<1>3. \A f \in Made' : job'[f] \in failed' =>
         /\ f \in registry'
         /\ saved'[f] = "end" \/ \E w \in Worker : pc'[w] = "leave" /\ cur'[w] = f
  BY DEF Failures
<1>4. \A w \in Worker : pc'[w] \in {"tail", "leave"} =>
         cur'[w] \notin registry' \/ firstIn'[cur'[w]] \/ job'[cur'[w]] \in failed'
  BY DEF Failures
<1>5. \A f \in registry' : \/ firstIn'[f] \/ saved'[f] = "yield" \/ job'[f] \in failed'
                           \/ \E w \in Worker : pc'[w] \in InJob /\ cur'[w] = f
  BY DEF Failures
<1> QED
  BY <1>1, <1>2, <1>3, <1>4, <1>5 DEF Failures

LEMMA FailuresStep ==
    ASSUME Core, Next
    PROVE  Failures'
<1>0. TypeOK /\ OnePlace /\ Stacks /\ Failures /\ Jobs /\ Tokens
  BY DEF Core
<1>t. /\ pc \in [Thread -> ThreadPC] /\ cur \in [Worker -> 0..MaxJob]
      /\ firstIn \in [Fiber -> BOOLEAN] /\ saved \in [Fiber -> {"nowhere", "yield", "end"}]
      /\ job \in [Fiber -> 0..MaxJob] /\ Worker \subseteq Thread
      /\ lastId \in Nat /\ submitted \in Nat
  BY <1>0, SchedulerAssumption DEF TypeOK, Thread
<1>r. registry \subseteq Made /\ Made \subseteq Fiber
  BY <1>0, SchedulerAssumption DEF OnePlace, TypeOK, Fiber, Made
<1>p. /\ \A w \in Worker : pc[w] # "idle" => cur[w] \in Made
      /\ \A t \in Thread : pc[t] \in {"reuse", "register", "enqueue"} => hand[t] \in Made
      /\ \A t \in Thread : pc[t] = "reuse" => hand[t] \notin registry
  BY <1>0 DEF Core, Placed, OnePlace, Held
<1>i. InJob = {"user", "reuse", "create", "register", "enqueue", "yield", "hold", "exit"}
  BY DEF InJob, UserPC, AddTaskPC
<1>f. /\ failed \subseteq started /\ started \subseteq 1..submitted
      /\ \A w \in Worker : pc[w] \in InJob => job[cur[w]] \notin failed
      /\ \A f \in Made : job[f] \in failed =>
            /\ f \in registry
            /\ saved[f] = "end" \/ \E w \in Worker : pc[w] = "leave" /\ cur[w] = f
      /\ \A w \in Worker : pc[w] \in {"tail", "leave"} =>
            cur[w] \notin registry \/ firstIn[cur[w]] \/ job[cur[w]] \in failed
      /\ \A f \in registry : \/ firstIn[f] \/ saved[f] = "yield" \/ job[f] \in failed
                             \/ \E w \in Worker : pc[w] \in InJob /\ cur[w] = f
  BY <1>0 DEF Failures, Jobs
<1>s. /\ \A w \in Worker : pc[w] \in InJob \cup {"switch"} => cur[w] \in registry
      /\ \A w \in Worker : pc[w] \in InJob => ~firstIn[cur[w]]
      /\ \A v, w \in Worker : OnStack(v) /\ OnStack(w) /\ cur[v] = cur[w] => v = w
      /\ \A w \in Worker : pc[w] \in InJob \cup {"tail", "leave"} => OnStack(w)
  BY <1>0, <1>i DEF Stacks, OnStack, StackPC, UserPC, AddTaskPC
<1>j. /\ \A f \in Made : firstIn[f] <=> job[f] \notin started
      /\ \A f, g \in Made : job[f] = job[g] => f = g
  BY <1>0 DEF Jobs
<1>1. ASSUME NEW t \in Thread, TakeFree(t) \/ Register(t) \/ Enqueue(t)
      PROVE  Failures'
  <2>1. PICK q \in AddTaskPC \cup {"user", "idle"} :
           /\ pc' = [pc EXCEPT ![t] = q]
           /\ t \in Worker => q # "idle" /\ pc[t] \in UserPC
    BY <1>1 DEF TakeFree, AtHome, Register, Enqueue, Home, AddTaskPC, UserPC
  <2>2. /\ UNCHANGED <<job, firstIn, saved, failed, started, lastId, cur>>
        /\ registry \subseteq registry'
    BY <1>1 DEF TakeFree, Register, Enqueue, tableVars, fiberVars, jobVars
  <2>3. \A f \in registry' : f \in registry \/ firstIn[f]
    BY <1>0, <1>1 DEF TakeFree, Register, Enqueue, tableVars, Tokens
  <2>4. \A w \in Worker :
              /\ pc'[w] \in InJob <=> pc[w] \in InJob
              /\ pc'[w] \in {"tail", "leave"} => pc[w] \in {"tail", "leave"}
              /\ pc[w] = "leave" => pc'[w] = "leave"
    BY <1>t, <1>i, <2>1 DEF UserPC, AddTaskPC
  <2> QED
    BY <1>0, <2>2, <2>3, <2>4, FailuresFrame
<1>2. ASSUME NEW t \in Thread, NEW h \in Fiber \ registry,
             pc[t] \in {"reuse", "create"}, pc' = [pc EXCEPT ![t] = "register"],
             job' = [job EXCEPT ![h] = submitted + 1], firstIn' = [firstIn EXCEPT ![h] = TRUE],
             UNCHANGED <<registry, saved, failed, started, cur>>,
             Made' \subseteq Made \cup {h}
      PROVE  Failures'
  <2>1. /\ \A g \in Fiber \ {h} : job'[g] = job[g] /\ firstIn'[g] = firstIn[g]
        /\ firstIn'[h] /\ job'[h] = submitted + 1
    BY <1>2, <1>t
  <2>2. submitted + 1 \notin failed
    BY <1>f, <1>t
  <2>3. \A w \in Worker :
              /\ pc'[w] \in InJob <=> pc[w] \in InJob
              /\ pc'[w] \in {"tail", "leave"} <=> pc[w] \in {"tail", "leave"}
              /\ pc[w] = "leave" <=> pc'[w] = "leave"
    BY <1>2, <1>t, <1>i
  <2>4. \A w \in Worker : pc[w] \in InJob => cur[w] # h /\ cur[w] \in Fiber
    BY <1>2, <1>s, <1>r
  <2>5. \A w \in Worker : pc'[w] \in InJob => job'[cur'[w]] \notin failed'
    BY <1>2, <1>f, <2>1, <2>3, <2>4
  <2>6. \A f \in Made' : job'[f] \in failed' =>
           /\ f \in registry'
           /\ saved'[f] = "end" \/ \E w \in Worker : pc'[w] = "leave" /\ cur'[w] = f
    BY <1>2, <1>f, <1>r, <2>1, <2>2, <2>3
  <2>7. \A w \in Worker : pc'[w] \in {"tail", "leave"} =>
           cur'[w] \notin registry' \/ firstIn'[cur'[w]] \/ job'[cur'[w]] \in failed'
    BY <1>2, <1>f, <1>r, <2>1, <2>3
  <2>8. \A f \in registry' : \/ firstIn'[f] \/ saved'[f] = "yield" \/ job'[f] \in failed'
                             \/ \E w \in Worker : pc'[w] \in InJob /\ cur'[w] = f
    BY <1>2, <1>f, <1>r, <2>1, <2>3
  <2> QED
    BY <1>2, <1>f, <2>5, <2>6, <2>7, <2>8 DEF Failures
<1>3. ASSUME NEW t \in Thread, Reuse(t) \/ Create(t)
      PROVE  Failures'
  <2>1. CASE Reuse(t)
    BY <1>2, <1>p, <1>r, <2>1 DEF Reuse, tableVars, Made
  <2>2. CASE Create(t)
    <3>1. lastId + 1 \notin registry /\ lastId + 1 \in Fiber /\ lastId' = lastId + 1
      BY <1>r, <1>t, <2>2 DEF Create, Made
    <3>2. Made' \subseteq Made \cup {lastId + 1}
      BY <1>t, <3>1 DEF Made
    <3> QED
      BY <1>2, <2>2, <3>1, <3>2 DEF Create
  <2> QED
    BY <1>3, <2>1, <2>2
<1>4. ASSUME NEW w \in Worker, Pop(w)
      PROVE  Failures'
  <2>1. Head(tasks).op \in {"start", "resume"}
    BY <1>0, <1>4, QueuePop DEF Pop, PoolTask
  <2>2. /\ pc[w] = "idle" /\ pc' = [pc EXCEPT ![w] = Head(tasks).op]
        /\ \A v \in Worker \ {w} : cur'[v] = cur[v]
        /\ UNCHANGED <<job, firstIn, saved, failed, started, lastId, registry>>
    BY <1>4, <1>t DEF Pop, tableVars, fiberVars, jobVars
  <2>3. \A v \in Worker :
              /\ pc'[v] \in InJob <=> pc[v] \in InJob
              /\ pc'[v] \in {"tail", "leave"} => pc[v] \in {"tail", "leave"}
              /\ pc[v] = "leave" => pc'[v] = "leave"
              /\ pc'[v] \in InJob \cup {"tail", "leave"} => cur'[v] = cur[v]
    BY <1>t, <1>i, <2>1, <2>2
  <2> QED
    BY <1>0, <2>2, <2>3, FailuresFrame
<1>5. ASSUME NEW w \in Worker, SwitchIn(w)
      PROVE  Failures'
  <2>1. /\ UNCHANGED <<registry, saved, failed, job, cur, lastId>> /\ pc[w] = "switch"
        /\ pc' = [pc EXCEPT ![w] = "user"]
        /\ firstIn' = [firstIn EXCEPT ![cur[w]] = FALSE]
        /\ started \subseteq started'
        /\ firstIn[cur[w]] \/ saved[cur[w]] = "yield"
        /\ \A v \in Worker \ {w} : OnStack(v) => cur[v] # cur[w]
    BY <1>5 DEF SwitchIn, tableVars, CanEnter, Occupied
  <2>2. cur[w] \in Made /\ cur[w] \in Fiber /\ cur[w] \in registry
    BY <1>p, <1>r, <1>s, <2>1
  <2>3. job[cur[w]] \notin failed
    <3>1. CASE firstIn[cur[w]]
      BY <1>f, <1>j, <2>2, <3>1
    <3>2. CASE saved[cur[w]] = "yield"
      <4>1. \A v \in Worker : pc[v] = "leave" => cur[v] # cur[w]
        BY <1>s, <2>1
      <4> QED
        BY <1>f, <2>2, <3>2, <4>1
    <3> QED
      BY <2>1, <3>1, <3>2
  <2>4. /\ pc'[w] = "user" /\ \A v \in Worker \ {w} : pc'[v] = pc[v]
        /\ \A g \in Fiber \ {cur[w]} : firstIn'[g] = firstIn[g]
    BY <1>t, <2>1
  <2>5. \A v \in Worker : pc'[v] \in InJob => job'[cur'[v]] \notin failed'
    BY <1>f, <2>1, <2>3, <2>4
  <2>6. \A f \in Made' : job'[f] \in failed' =>
           /\ f \in registry'
           /\ saved'[f] = "end" \/ \E v \in Worker : pc'[v] = "leave" /\ cur'[v] = f
    BY <1>f, <2>1, <2>4 DEF Made
  <2>7. \A v \in Worker : pc'[v] \in {"tail", "leave"} =>
           cur'[v] \notin registry' \/ firstIn'[cur'[v]] \/ job'[cur'[v]] \in failed'
    BY <1>f, <1>p, <1>r, <1>s, <2>1, <2>4
  <2>8. \A f \in registry' : \/ firstIn'[f] \/ saved'[f] = "yield" \/ job'[f] \in failed'
                             \/ \E v \in Worker : pc'[v] \in InJob /\ cur'[v] = f
    BY <1>f, <1>i, <1>r, <2>1, <2>4
  <2> QED
    BY <1>f, <2>1, <2>5, <2>6, <2>7, <2>8 DEF Failures
<1>6. ASSUME NEW w \in Worker, Exit(w)
      PROVE  Failures'
  <2>1. /\ UNCHANGED <<saved, failed, job, cur, lastId, firstIn, started>> /\ pc[w] = "exit"
        /\ pc' = [pc EXCEPT ![w] = "tail"]
        /\ registry' = registry \ {cur[w]}
    BY <1>6 DEF Exit, fiberVars, jobVars
  <2>2. /\ pc'[w] = "tail" /\ \A v \in Worker \ {w} : pc'[v] = pc[v]
        /\ cur[w] \in Made /\ job[cur[w]] \notin failed
    BY <1>t, <1>f, <1>i, <1>p, <2>1
  <2>3. \A v \in Worker : pc'[v] \in InJob => job'[cur'[v]] \notin failed'
    BY <1>f, <1>i, <2>1, <2>2
  <2>4. \A f \in Made' : job'[f] \in failed' =>
           /\ f \in registry'
           /\ saved'[f] = "end" \/ \E v \in Worker : pc'[v] = "leave" /\ cur'[v] = f
    BY <1>f, <2>1, <2>2 DEF Made
  <2>5. \A v \in Worker : pc'[v] \in {"tail", "leave"} =>
           cur'[v] \notin registry' \/ firstIn'[cur'[v]] \/ job'[cur'[v]] \in failed'
    BY <1>f, <2>1, <2>2
  <2>6. \A f \in registry' : \/ firstIn'[f] \/ saved'[f] = "yield" \/ job'[f] \in failed'
                             \/ \E v \in Worker : pc'[v] \in InJob /\ cur'[v] = f
    BY <1>f, <2>1, <2>2
  <2> QED
    BY <1>f, <2>1, <2>3, <2>4, <2>5, <2>6 DEF Failures
<1>7. ASSUME NEW w \in Worker, Throw(w)
      PROVE  Failures'
  <2>1. /\ UNCHANGED <<saved, job, cur, lastId, firstIn, started, registry>> /\ pc[w] = "user"
        /\ pc' = [pc EXCEPT ![w] = "leave"]
        /\ failed' = failed \cup {job[cur[w]]}
    BY <1>7 DEF Throw, tableVars
  <2>2. /\ pc'[w] = "leave" /\ \A v \in Worker \ {w} : pc'[v] = pc[v]
        /\ cur[w] \in Made /\ cur[w] \in registry /\ ~firstIn[cur[w]]
        /\ job[cur[w]] \in started
    BY <1>t, <1>i, <1>p, <1>s, <1>j, <2>1
  <2>3. \A v \in Worker : pc'[v] \in InJob => job'[cur'[v]] \notin failed'
    <3>1. ASSUME NEW v \in Worker, pc'[v] \in InJob
          PROVE  job[cur[v]] # job[cur[w]] /\ job[cur[v]] \notin failed
      <4>1. v # w /\ pc[v] \in InJob
        BY <1>i, <2>2, <3>1
      <4>2. OnStack(v) /\ OnStack(w) /\ cur[v] \in Made
        BY <1>i, <1>p, <1>s, <2>1, <4>1
      <4> QED
        BY <1>f, <1>s, <1>j, <2>2, <4>1, <4>2
    <3> QED
      BY <2>1, <3>1
  <2>4. \A f \in Made' : job'[f] \in failed' =>
           /\ f \in registry'
           /\ saved'[f] = "end" \/ \E v \in Worker : pc'[v] = "leave" /\ cur'[v] = f
    <3>1. \A f \in Made : job[f] = job[cur[w]] => f = cur[w]
      BY <1>j, <2>2
    <3> QED
      BY <1>f, <2>1, <2>2, <3>1 DEF Made
  <2>5. \A v \in Worker : pc'[v] \in {"tail", "leave"} =>
           cur'[v] \notin registry' \/ firstIn'[cur'[v]] \/ job'[cur'[v]] \in failed'
    BY <1>f, <2>1, <2>2
  <2>6. \A f \in registry' : \/ firstIn'[f] \/ saved'[f] = "yield" \/ job'[f] \in failed'
                             \/ \E v \in Worker : pc'[v] \in InJob /\ cur'[v] = f
    BY <1>f, <2>1, <2>2
  <2> QED
    BY <1>f, <2>1, <2>2, <2>3, <2>4, <2>5, <2>6 DEF Failures
<1>8. ASSUME NEW w \in Worker, YieldSwitch(w) \/ Leave(w)
      PROVE  Failures'
  <2>1. PICK place \in {"yield", "end"} :
           /\ saved' = [saved EXCEPT ![cur[w]] = place]
           /\ place = "yield" <=> YieldSwitch(w)
           /\ pc[w] = IF place = "yield" THEN "hold" ELSE "leave"
    BY <1>8 DEF YieldSwitch, Leave, SwitchOut
  <2>2. /\ UNCHANGED <<failed, job, lastId, firstIn, started, registry>>
        /\ pc' = [pc EXCEPT ![w] = "idle"]
        /\ \A v \in Worker \ {w} : cur'[v] = cur[v]
    BY <1>8, <1>t DEF YieldSwitch, Leave, SwitchOut, tableVars, jobVars
  <2>3. /\ pc'[w] = "idle" /\ \A v \in Worker \ {w} : pc'[v] = pc[v]
        /\ cur[w] \in Made /\ cur[w] \in Fiber
        /\ saved'[cur[w]] = place /\ \A g \in Fiber \ {cur[w]} : saved'[g] = saved[g]
    BY <1>t, <1>p, <1>r, <2>1, <2>2
  <2>4. place = "yield" => job[cur[w]] \notin failed
    BY <1>f, <1>i, <2>1
  <2>5. place = "end" => cur[w] \notin registry \/ firstIn[cur[w]] \/ job[cur[w]] \in failed
    BY <1>f, <2>1
  <2>6. \A v \in Worker : pc'[v] \in InJob => job'[cur'[v]] \notin failed'
    BY <1>f, <1>i, <2>2, <2>3
  <2>7. \A f \in Made' : job'[f] \in failed' =>
           /\ f \in registry'
           /\ saved'[f] = "end" \/ \E v \in Worker : pc'[v] = "leave" /\ cur'[v] = f
    BY <1>f, <1>r, <2>2, <2>3, <2>4 DEF Made
  <2>8. \A v \in Worker : pc'[v] \in {"tail", "leave"} =>
           cur'[v] \notin registry' \/ firstIn'[cur'[v]] \/ job'[cur'[v]] \in failed'
    BY <1>f, <2>2, <2>3
  <2>9. \A f \in registry' : \/ firstIn'[f] \/ saved'[f] = "yield" \/ job'[f] \in failed'
                             \/ \E v \in Worker : pc'[v] \in InJob /\ cur'[v] = f
    BY <1>f, <1>r, <2>2, <2>3, <2>5
  <2> QED
    BY <1>f, <2>2, <2>6, <2>7, <2>8, <2>9 DEF Failures
<1>9. ASSUME NEW w \in Worker, PlainStep(w), PlainFrame(w),
             ~YieldSwitch(w), ~Leave(w), ~Throw(w)
      PROVE  Failures'
  <2>1. UNCHANGED <<saved, failed>>
    BY <1>9 DEF PlainStep, Start, ResumeTest, ResumeClaim, Watch, Unwatch, YieldTest,
       YieldHold, Return, Terminate, fiberVars, jobVars
  <2>2. /\ UNCHANGED <<job, firstIn, started, lastId, registry>>
        /\ \A v \in Worker \ {w} : cur'[v] = cur[v] /\ pc'[v] = pc[v]
        /\ pc'[w] # "idle" => cur'[w] = cur[w]
        /\ <<pc[w], pc'[w]>> \in PlainMove
    BY <1>9, <1>t DEF PlainFrame, tableVars, storedVars
  <2>3. /\ pc[w] \notin {"hold", "leave"} /\ ~(pc[w] = "user" /\ pc'[w] = "leave")
    BY <1>9, <1>t DEF PlainStep, Start, ResumeTest, ResumeClaim, Watch, Unwatch, YieldTest,
       YieldHold, Return, Terminate, threadVars
  <2>4. /\ pc'[w] \in InJob <=> pc[w] \in InJob
        /\ pc'[w] \in {"tail", "leave"} => pc[w] \in {"tail", "leave"}
        /\ pc[w] = "leave" => pc'[w] = "leave"
        /\ pc'[w] \in InJob \cup {"tail", "leave"} => cur'[w] = cur[w]
    BY <1>i, <2>2, <2>3 DEF PlainMove
  <2> QED
    BY <1>0, <2>1, <2>2, <2>4, FailuresFrame
<1>10. ASSUME UNCHANGED <<tableVars, fiberVars, jobVars, pc, cur>>
      PROVE  Failures'
  BY <1>0, <1>10, FailuresFrame DEF tableVars, fiberVars, jobVars
<1> QED
  BY <1>0, <1>1, <1>3, <1>4, <1>5, <1>6, <1>7, <1>8, <1>9, <1>10, StepKinds
  DEF EpollWait, EpollCheck, EpollDispatch, threadVars

-----------------------------------------------------------------------------
(* Every fiber that an event or a resume task names is registered.         *)
LEMMA EventsStep ==
    ASSUME SchedulerInv, Next
    PROVE  EventsFindTheirFiber'
<1>1. fault \notin {"terminate", "stale"} /\ Resumes
  BY DEF SchedulerInv, EventsFindTheirFiber
<1>2. CASE UNCHANGED fault
  BY <1>1, <1>2 DEF EventsFindTheirFiber
<1>3. CASE Break
  <2>1. ASSUME NEW f \in Fiber, EpollThrow(f)
        PROVE  FALSE
    BY <1>1, <2>1 DEF EpollThrow, Resumes, Waiting
  <2>2. ~EpollStale
    BY <1>1 DEF EpollStale, Resumes, Waiting
  <2>3. ASSUME NEW w \in Worker, BadSwitch(w)
        PROVE  EventsFindTheirFiber'
    BY <2>3 DEF BadSwitch, EventsFindTheirFiber
  <2> QED
    BY <1>3, <2>1, <2>2, <2>3 DEF Break
<1>4. CASE Quiet
  BY <1>2, <1>4 DEF Quiet, vars
<1> QED
  BY <1>2, <1>3, <1>4 DEF Next, Sound

LEMMA CoreStep ==
    ASSUME Core, Orderly, [Next]_vars
    PROVE  Core'
<1>1. CASE Next
  BY <1>1, TypeStep, AccountedStep, PlacedStep, JobsStep, TokensStep, StacksStep, FailuresStep DEF Core
<1>2. CASE UNCHANGED vars
  <2>1. TypeOK'
    BY <1>2 DEF Core, TypeOK, vars, tableVars, fiberVars, jobVars, threadVars, epollVars
  <2>2. Held' = Held /\ Free' = Free /\ Made' = Made /\ Deciding' = Deciding
    BY <1>2 DEF Held, Free, Made, Deciding, vars, tableVars, fiberVars, jobVars, threadVars, epollVars
  <2>3. OnePlace' /\ Placed' /\ Jobs'
    BY <1>2, <2>2 DEF Core, OnePlace, Placed, Jobs, vars, tableVars, fiberVars,
                      jobVars, threadVars, epollVars
  <2>4. Tokens' /\ Stacks' /\ Failures'
    BY <1>2, <2>2 DEF Core, Tokens, Failures, IsStart, Adds, Enters, Stacks, OnStack, vars, tableVars,
                      fiberVars, jobVars, threadVars, epollVars
  <2> QED
    BY <2>1, <2>3, <2>4 DEF Core
<1> QED
  BY <1>1, <1>2

(* A job that waits for a socket does not return: no worker is about to    *)
(* unregister a fiber that another is about to resume.                     *)
LEMMA EndlessOrderly ==
    ASSUME WatchersEndless, SchedulerInv
    PROVE  Orderly
<1>0. Resumes /\ Stacks
  BY DEF SchedulerInv, Core
<1>1. \A w \in Worker : pc[w] = "claim" => cur[w] \in registry /\ ~firstIn[cur[w]]
  BY <1>0 DEF Resumes, Waiting
<1>2. ASSUME NEW v \in Worker, NEW w \in Worker, pc[v] = "exit", pc[w] = "switch"
      PROVE  cur[v] # cur[w]
  <2>1. ~firstIn[cur[v]] /\ job[cur[v]] \notin Watching
    BY <1>0, <1>2 DEF Stacks, InJob, WatchersEndless
  <2> QED
    BY <1>0, <1>2, <2>1 DEF Resumes, Waiting
<1> QED
  BY <1>1, <1>2 DEF Orderly

LEMMA InvStep ==
    ASSUME WatchersEndless, SchedulerInv, [Next]_vars
    PROVE  SchedulerInv'
<1>0. Core'
  BY CoreStep, EndlessOrderly DEF SchedulerInv
<1>1. CASE Next
  BY <1>0, <1>1, ResumesStep, EventsStep DEF SchedulerInv
<1>2. CASE UNCHANGED vars
  <2>1. EventsFindTheirFiber' /\ Made' = Made
    BY <1>2 DEF SchedulerInv, EventsFindTheirFiber, Made, vars, tableVars
  <2>2. Resumes'
    BY <1>2, <2>1 DEF SchedulerInv, Resumes, Waiting, vars, tableVars, fiberVars, jobVars,
                      threadVars, epollVars
  <2> QED
    BY <1>0, <2>1, <2>2 DEF SchedulerInv
<1> QED
  BY <1>1, <1>2

(* The three places that will start fiber f, as JobEnteredOnce counts      *)
(* them.                                                                   *)
LEMMA OneToken ==
    ASSUME NEW A, NEW B, NEW C,
           \A x, y \in A : x = y, \A x, y \in B : x = y, \A x, y \in C : x = y,
           A = {} \/ B = {}, A = {} \/ C = {}, B = {} \/ C = {},
           A # {} \/ B # {} \/ C # {}
    PROVE  Cardinality(A) + Cardinality(B) + Cardinality(C) = 1
<1>1. ASSUME NEW S, \A x, y \in S : x = y, S # {}
      PROVE  Cardinality(S) = 1
  <2>1. PICK x : S = {x}
    BY <1>1
  <2> QED
    BY <2>1, FS_Singleton
<1>2. Cardinality({}) = 0
  BY FS_EmptySet
<1>3. CASE A # {}
  BY <1>1, <1>2, <1>3
<1>4. CASE B # {}
  BY <1>1, <1>2, <1>4
<1>5. CASE C # {}
  BY <1>1, <1>2, <1>5
<1> QED
  BY <1>3, <1>4, <1>5

LEMMA InvEntered == Core => JobEnteredOnce
<1> SUFFICES ASSUME Core PROVE JobEnteredOnce
  OBVIOUS
<1>0. TypeOK /\ Jobs /\ Tokens /\ Made = 1..lastId
  BY DEF Core, Made
<1>1. \A n \in 1..submitted : n \in started \/ \E f \in 1..lastId : job[f] = n
  BY <1>0 DEF Jobs
<1>q. \A i \in 1..Len(tasks), f \in Made : i \in Queued(f) <=> IsStart(i, f)
  <2>1. \A i \in 1..Len(tasks) : tasks[i] \in PoolTask
    BY <1>0 DEF TypeOK
  <2> QED
    BY <2>1 DEF Queued, IsStart, PoolTask
<1>a. /\ \A t \in Thread, f \in Made : t \in Adding(f) <=> Adds(t, f)
      /\ \A w \in Worker, f \in Made : w \in Entering(f) <=> Enters(w, f)
  BY DEF Adding, Adds, Entering, Enters
<1>s. \A f : Queued(f) \subseteq 1..Len(tasks) /\ Adding(f) \subseteq Thread
              /\ Entering(f) \subseteq Worker
  BY DEF Queued, Adding, Entering
<1>2. ASSUME NEW f \in Made, job[f] \in started
      PROVE  Queued(f) = {} /\ Adding(f) = {} /\ Entering(f) = {}
  <2>1. ~firstIn[f]
    BY <1>0, <1>2 DEF Jobs
  <2>2. /\ \A i \in 1..Len(tasks) : ~IsStart(i, f)
        /\ \A t \in Thread : ~Adds(t, f)
        /\ \A w \in Worker : ~Enters(w, f)
    BY <1>0, <2>1 DEF Tokens, IsStart, Adds, Enters
  <2> QED
    BY <1>q, <1>a, <1>s, <2>2
<1>3. ASSUME NEW f \in Made, job[f] \notin started
      PROVE  Cardinality(Queued(f)) + Cardinality(Adding(f)) + Cardinality(Entering(f)) = 1
  <2>1. firstIn[f]
    BY <1>0, <1>3 DEF Jobs
  <2>2. Queued(f) # {} \/ Adding(f) # {} \/ Entering(f) # {}
    BY <1>0, <1>q, <1>a, <2>1 DEF Tokens
  <2>3. /\ \A i, j \in Queued(f) : i = j
        /\ \A t, u \in Adding(f) : t = u
        /\ \A v, w \in Entering(f) : v = w
    BY <1>0, <1>q, <1>a, <1>s DEF Tokens
  <2>4. /\ Queued(f) = {} \/ Adding(f) = {}
        /\ Queued(f) = {} \/ Entering(f) = {}
        /\ Adding(f) = {} \/ Entering(f) = {}
    BY <1>0, <1>q, <1>a, <1>s DEF Tokens
  <2> QED
    BY <2>2, <2>3, <2>4, OneToken
<1> QED
  BY <1>0, <1>1, <1>2, <1>3 DEF JobEnteredOnce

LEMMA InvAlways ==
    ASSUME WatchersEndless
    PROVE  Safety => []SchedulerInv
<1>1. Init => SchedulerInv
  BY InitCore DEF SchedulerInv, Init, EventsFindTheirFiber
<1>2. SchedulerInv /\ [Next]_vars => SchedulerInv'
  BY InvStep
<1> QED
  BY <1>1, <1>2, PTL DEF Safety

-----------------------------------------------------------------------------
(* Until a step is taken inside one of the two windows, m_state tells      *)
(* where the fiber's context is, and the fiber is used by one worker: the  *)
(* one that has found it on HOLD, enters it or is on its stack.            *)
Using(w) == pc[w] \in {"claim", "switch"} \cup StackPC

Truth ==
    /\ \A w \in Worker : pc[w] \in (InJob \ {"hold"}) \cup {"switch"} => state[cur[w]] = "EXEC"
    /\ \A w \in Worker : pc[w] \in {"tail", "leave"} => state[cur[w]] # "HOLD" /\ ~firstIn[cur[w]]
    /\ \A w \in Worker : pc[w] = "claim" => state[cur[w]] = "HOLD"
    /\ \A w \in Worker : pc[w] = "switch" /\ ~firstIn[cur[w]] => saved[cur[w]] = "yield"
    /\ \A f \in Fiber : state[f] = "HOLD" => f \in registry /\ ~firstIn[f]
    /\ HoldIsSaved

Exclusive ==
    /\ \A v, w \in Worker : Using(v) /\ Using(w) /\ cur[v] = cur[w] => v = w
    /\ \A t \in Thread, w \in Worker : pc[t] = "reuse" /\ Using(w) => cur[w] # hand[t]

Calm == Core /\ Truth /\ Exclusive

CalmInv == OneThreadPerStack /\ (raced \/ Calm)

LEMMA CalmOrderly ==
    ASSUME Calm
    PROVE  Orderly
<1>1. \A w \in Worker : pc[w] = "claim" => cur[w] \in Fiber
  BY SchedulerAssumption DEF Calm, Core, Placed, Made, TypeOK, Fiber
<1>2. \A w \in Worker : pc[w] = "claim" => cur[w] \in registry /\ ~firstIn[cur[w]]
  BY <1>1 DEF Calm, Truth
<1>3. \A v, w \in Worker : pc[v] = "exit" /\ pc[w] = "switch" => cur[v] # cur[w]
  BY DEF Calm, Exclusive, Using, StackPC
<1> QED
  BY <1>2, <1>3 DEF Orderly

LEMMA CalmInit == Init => CalmInv
<1> SUFFICES ASSUME Init PROVE CalmInv
  OBVIOUS
<1>1. \A t \in Thread : pc[t] = "idle"
  BY DEF Init
<1>2. \A f \in Fiber : state[f] = "INIT"
  BY DEF Init
<1>3. OneThreadPerStack
  BY DEF Init, OneThreadPerStack
<1>4. Truth /\ Exclusive
  BY <1>1, <1>2 DEF Truth, Exclusive, Using, InJob, StackPC, UserPC, AddTaskPC, HoldIsSaved,
     Thread
<1> QED
  BY <1>3, <1>4, InitCore DEF CalmInv, Calm

(* The steps that change neither m_state nor the saved contexts.           *)
LEMMA TruthFrame ==
    ASSUME Truth, UNCHANGED <<state, saved>>,
           \A f \in registry : f \in registry' /\ (firstIn'[f] => firstIn[f]),
           \A w \in Worker :
              \/ pc'[w] \in {"idle", "start", "resume"} /\ pc[w] # "hold"
              \/ /\ cur'[w] = cur[w]
                 /\ \/ pc'[w] = pc[w] /\ firstIn'[cur[w]] = firstIn[cur[w]]
                    \/ pc'[w] \in UserPC \cup {"yield", "exit"} /\ state[cur[w]] = "EXEC"
                       /\ pc[w] # "hold"
                    \/ pc'[w] = "claim" /\ state[cur[w]] = "HOLD" /\ pc[w] = "resume"
    PROVE  Truth'
<1> USE DEF InJob, UserPC, AddTaskPC
<1>1. \A f \in Fiber : state'[f] = "HOLD" => f \in registry' /\ ~firstIn'[f]
  BY DEF Truth
<1>2. HoldIsSaved'
  <2>1. \A w \in Worker : pc[w] = "hold" => pc'[w] = "hold" /\ cur'[w] = cur[w]
    OBVIOUS
  <2> QED
    BY <2>1 DEF Truth, HoldIsSaved
<1>3. \A w \in Worker : pc'[w] \in (InJob \ {"hold"}) \cup {"switch"} => state'[cur'[w]] = "EXEC"
  BY DEF Truth
<1>4. \A w \in Worker : pc'[w] \in {"tail", "leave"} =>
         state'[cur'[w]] # "HOLD" /\ ~firstIn'[cur'[w]]
  BY DEF Truth
<1>5. \A w \in Worker : pc'[w] = "claim" => state'[cur'[w]] = "HOLD"
  BY DEF Truth
<1>6. \A w \in Worker : pc'[w] = "switch" /\ ~firstIn'[cur'[w]] => saved'[cur'[w]] = "yield"
  BY DEF Truth
<1> QED
  BY <1>1, <1>2, <1>3, <1>4, <1>5, <1>6 DEF Truth

(* The steps of a worker that change m_state: they are about the fiber f   *)
(* that the worker executes, starts or resumes, and that no other uses.    *)
LEMMA TruthOwn ==
    ASSUME TypeOK, Truth, NEW w \in Worker, UNCHANGED <<registry, firstIn, cur, saved>>,
           NEW f \in Fiber, cur[w] = f, NEW q, NEW s,
           \A v \in Worker \ {w} : Using(v) => cur[v] # f /\ cur[v] \in Fiber,
           pc' = [pc EXCEPT ![w] = q], state' = [state EXCEPT ![f] = s],
           pc[w] # "hold",
           \/ q = "switch" /\ s = "EXEC" /\ (firstIn[f] \/ saved[f] = "yield")
           \/ q = "hold" /\ s = "HOLD" /\ f \in registry /\ ~firstIn[f]
           \/ q = "leave" /\ s # "HOLD" /\ ~firstIn[f]
    PROVE  Truth'
<1>0. /\ pc'[w] = q /\ state'[f] = s
      /\ \A g \in Fiber \ {f} : state'[g] = state[g]
      /\ \A v \in Worker \ {w} : pc'[v] = pc[v]
  BY DEF TypeOK, Thread
<1>u. \A v \in Worker : pc[v] \in InJob \cup {"switch", "claim", "tail", "leave"} => Using(v)
  BY DEF Using, StackPC, InJob
<1>1. \A g \in Fiber : state'[g] = "HOLD" => g \in registry' /\ ~firstIn'[g]
  BY <1>0 DEF Truth
<1>2. HoldIsSaved'
  <2>1. ASSUME NEW g \in Fiber, state'[g] = "HOLD"
        PROVE  saved[g] = "yield" \/ \E v \in Worker : pc'[v] = "hold" /\ cur'[v] = g
    <3>1. CASE g = f
      BY <1>0, <2>1, <3>1
    <3>2. CASE g # f
      BY <1>0, <2>1, <3>2 DEF Truth, HoldIsSaved
    <3> QED
      BY <3>1, <3>2
  <2> QED
    BY <2>1 DEF HoldIsSaved
<1>3. \A v \in Worker : pc'[v] \in (InJob \ {"hold"}) \cup {"switch"} => state'[cur'[v]] = "EXEC"
  BY <1>0, <1>u DEF Truth, InJob, UserPC, AddTaskPC
<1>4. \A v \in Worker : pc'[v] \in {"tail", "leave"} =>
         state'[cur'[v]] # "HOLD" /\ ~firstIn'[cur'[v]]
  BY <1>0, <1>u DEF Truth
<1>5. \A v \in Worker : pc'[v] = "claim" => state'[cur'[v]] = "HOLD"
  BY <1>0, <1>u DEF Truth
<1>6. \A v \in Worker : pc'[v] = "switch" /\ ~firstIn'[cur'[v]] => saved'[cur'[v]] = "yield"
  BY <1>0 DEF Truth
<1> QED
  BY <1>1, <1>2, <1>3, <1>4, <1>5, <1>6 DEF Truth

LEMMA TruthStep ==
    ASSUME Calm, Next, ~raced, ~raced'
    PROVE  Truth'
<1>0. TypeOK /\ OnePlace /\ Placed /\ Tokens /\ Stacks /\ Truth /\ Exclusive
  BY DEF Calm, Core
<1>t. /\ pc \in [Thread -> ThreadPC] /\ cur \in [Worker -> 0..MaxJob]
      /\ state \in [Fiber -> FiberState] /\ firstIn \in [Fiber -> BOOLEAN]
      /\ saved \in [Fiber -> {"nowhere", "yield", "end"}]
      /\ Worker \subseteq Thread
  BY <1>0 DEF TypeOK, Thread
<1>r. registry \subseteq Fiber /\ lastId + 1 \notin registry /\ Made \subseteq Fiber
  BY <1>0, SchedulerAssumption DEF OnePlace, TypeOK, Fiber, Made
<1>p. /\ \A t \in Thread : pc[t] = "reuse" => hand[t] \in Fiber \ registry
      /\ \A w \in Worker : pc[w] # "idle" => cur[w] \in Fiber
  BY <1>0, <1>r DEF Placed, OnePlace, Held
<1>s. /\ \A w \in Worker : pc[w] \in InJob \cup {"switch"} => cur[w] \in registry
      /\ \A w \in Worker : pc[w] \in InJob => ~firstIn[cur[w]]
      /\ \A w \in Worker : pc[w] = "start" => firstIn[cur[w]]
  BY <1>0 DEF Stacks, Tokens
<1>e. /\ \A w \in Worker : pc[w] \in (InJob \ {"hold"}) \cup {"switch"} => state[cur[w]] = "EXEC"
      /\ \A w \in Worker : pc[w] = "claim" => state[cur[w]] = "HOLD"
      /\ \A f \in Fiber : state[f] = "HOLD" => f \in registry /\ ~firstIn[f]
  BY <1>0 DEF Truth
<1>u. /\ \A v \in Worker : pc[v] \in InJob \cup {"switch", "claim", "tail", "leave"} => Using(v)
      /\ \A v \in Worker : Using(v) => cur[v] \in Fiber
      /\ \A v, w \in Worker : Using(v) /\ Using(w) /\ cur[v] = cur[w] => v = w
      /\ \A t \in Thread, w \in Worker : pc[t] = "reuse" /\ Using(w) => cur[w] # hand[t]
  BY <1>0, <1>p DEF Exclusive, Using, InJob, StackPC, UserPC, AddTaskPC
<1>1. ASSUME NEW t \in Thread, TakeFree(t) \/ Register(t) \/ Enqueue(t)
      PROVE  Truth'
  <2>1. PICK q \in AddTaskPC \cup {"user", "idle"} :
           /\ pc' = [pc EXCEPT ![t] = q]
           /\ t \in Worker => q # "idle" /\ pc[t] \in UserPC
    BY <1>1 DEF TakeFree, AtHome, Register, Enqueue, Home, AddTaskPC, UserPC
  <2>2. /\ registry \subseteq registry'
        /\ UNCHANGED <<state, saved, firstIn, cur>>
    BY <1>1 DEF TakeFree, Register, Enqueue, tableVars, fiberVars
  <2>3. t \in Worker => q \in UserPC /\ state[cur[t]] = "EXEC" /\ pc[t] # "hold"
    BY <1>e, <2>1 DEF InJob, UserPC, AddTaskPC
  <2> QED
    BY <1>0, <1>t, <2>1, <2>2, <2>3, TruthFrame
<1>2. ASSUME NEW t \in Thread, NEW f \in Fiber \ registry, Reuse(t) \/ Create(t),
             \A w \in Worker : Using(w) => cur[w] # f,
             state' = [state EXCEPT ![f] = "READY"], firstIn' = [firstIn EXCEPT ![f] = TRUE],
             UNCHANGED <<registry, saved, cur>>
      PROVE  Truth'
  <2>1. pc' = [pc EXCEPT ![t] = "register"] /\ pc[t] \in {"reuse", "create"}
    BY <1>2 DEF Reuse, Create
  <2>2. /\ state'[f] = "READY"
        /\ \A g \in Fiber \ {f} : state'[g] = state[g] /\ firstIn'[g] = firstIn[g]
    BY <1>2, <1>t
  <2>3. \A w \in Worker : \/ pc'[w] = pc[w]
                          \/ pc[w] \in InJob \ {"hold"} /\ pc'[w] = "register"
    BY <1>t, <2>1 DEF InJob, UserPC, AddTaskPC
  <2>4. \A w \in Worker : pc'[w] \in InJob \cup {"switch", "claim"} => cur[w] # f
    BY <1>2, <1>s, <1>e, <1>p, <2>3 DEF InJob, UserPC, AddTaskPC
  <2>5. \A g \in Fiber : state'[g] = "HOLD" =>
           state[g] = "HOLD" /\ g \in registry /\ ~firstIn'[g]
    BY <1>2, <1>e, <2>2
  <2>6. HoldIsSaved'
    BY <1>0, <1>2, <2>3, <2>5 DEF Truth, HoldIsSaved
  <2>7. \A w \in Worker : pc'[w] \in (InJob \ {"hold"}) \cup {"switch"} => state'[cur[w]] = "EXEC"
    BY <1>e, <1>p, <2>2, <2>3, <2>4 DEF InJob, UserPC, AddTaskPC
  <2>8. \A w \in Worker : pc'[w] \in {"tail", "leave"} =>
           state'[cur[w]] # "HOLD" /\ ~firstIn'[cur[w]]
    BY <1>0, <1>2, <1>p, <1>u, <2>2, <2>3 DEF Truth
  <2>9. \A w \in Worker : pc'[w] = "claim" => state'[cur[w]] = "HOLD"
    BY <1>e, <1>p, <2>2, <2>3, <2>4
  <2>10. \A w \in Worker : pc'[w] = "switch" /\ ~firstIn'[cur[w]] => saved[cur[w]] = "yield"
    BY <1>0, <1>p, <2>2, <2>3, <2>4 DEF Truth
  <2> QED
    BY <1>2, <2>5, <2>6, <2>7, <2>8, <2>9, <2>10 DEF Truth
<1>3. ASSUME NEW t \in Thread, Reuse(t) \/ Create(t)
      PROVE  Truth'
  <2>1. CASE Reuse(t)
    <3>1. pc[t] = "reuse"
      BY <2>1 DEF Reuse
    <3> QED
      BY <1>2, <1>p, <1>u, <2>1, <3>1 DEF Reuse, tableVars
  <2>2. CASE Create(t)
    <3>1. \A w \in Worker : Using(w) => cur[w] # lastId + 1
      <4>1. \A w \in Worker : Using(w) => cur[w] \in Made
        BY <1>0 DEF Placed, Using, StackPC, UserPC, AddTaskPC
      <4>2. lastId \in Nat
        BY <1>0, SchedulerAssumption DEF TypeOK
      <4> QED
        BY <4>1, <4>2 DEF Made
    <3> QED
      BY <1>2, <1>r, <2>2, <3>1 DEF Create
  <2> QED
    BY <1>3, <2>1, <2>2
<1>4. ASSUME NEW w \in Worker, Pop(w) \/ ResumeTest(w) \/ Watch(w) \/ Unwatch(w)
                                \/ YieldTest(w) \/ Return(w)
      PROVE  Truth'
  <2>1. /\ UNCHANGED <<registry, state, saved, firstIn>>
        /\ pc[w] # "hold"
        /\ \A v \in Worker \ {w} : pc'[v] = pc[v] /\ cur'[v] = cur[v]
    BY <1>4, <1>t DEF Pop, ResumeTest, Watch, Unwatch, YieldTest, Return, tableVars, fiberVars,
       threadVars
  <2>2. CASE Pop(w)
    <3>1. Head(tasks).op \in {"start", "resume"}
      BY <1>0, <2>2, QueuePop DEF Pop, PoolTask, TypeOK
    <3>2. pc'[w] \in {"start", "resume"}
      BY <1>t, <2>2, <3>1 DEF Pop
    <3> QED
      BY <1>0, <2>1, <3>2, TruthFrame
  <2>3. CASE ResumeTest(w)
    <3>1. \/ pc'[w] = "idle"
          \/ pc[w] = "resume" /\ pc'[w] = "claim" /\ cur'[w] = cur[w] /\ state[cur[w]] = "HOLD"
      BY <1>t, <2>3 DEF ResumeTest
    <3> QED
      BY <1>0, <2>1, <3>1, TruthFrame
  <2>4. CASE Watch(w) \/ Unwatch(w) \/ YieldTest(w) \/ Return(w)
    <3>1. pc[w] = "user" /\ pc'[w] \in UserPC \cup {"yield", "exit"} /\ cur'[w] = cur[w]
      BY <1>t, <2>4 DEF Watch, Unwatch, YieldTest, Return, threadVars, UserPC
    <3>2. state[cur[w]] = "EXEC"
      BY <1>e, <3>1 DEF InJob, UserPC
    <3> QED
      BY <1>0, <2>1, <3>1, <3>2, TruthFrame
  <2> QED
    BY <1>4, <2>2, <2>3, <2>4
<1>5. ASSUME NEW w \in Worker, Start(w) \/ ResumeClaim(w) \/ YieldHold(w) \/ Throw(w)
                                \/ Terminate(w)
      PROVE  Truth'
  <2>1. /\ UNCHANGED <<registry, firstIn, cur>>
        /\ cur[w] \in Fiber /\ pc[w] # "hold" /\ UNCHANGED saved
    BY <1>5, <1>p, <1>t DEF Start, ResumeClaim, YieldHold, Throw, Terminate, tableVars
  <2>u. Using(w) => \A v \in Worker \ {w} : Using(v) => cur[v] # cur[w] /\ cur[v] \in Fiber
    BY <1>u
  <2>2. CASE Start(w)
    <3>1. pc[w] = "start" /\ firstIn[cur[w]] /\ cur[w] \in Made /\ state[cur[w]] # "HOLD"
      BY <1>0, <1>s, <1>e, <2>1, <2>2 DEF Start, Placed
    <3>2. ASSUME NEW v \in Worker \ {w}, Using(v), cur[v] = cur[w]
          PROVE  FALSE
      <4>1. ~Enters(v, cur[w])
        BY <1>0, <3>1, <3>2 DEF Tokens, Enters
      <4>2. pc[v] # "switch" /\ pc[v] # "claim"
        BY <1>e, <3>1, <3>2, <4>1 DEF Enters
      <4>3. pc[v] \in InJob \cup {"tail", "leave"}
        BY <3>2, <4>2 DEF Using, InJob, StackPC
      <4>4. ~firstIn[cur[v]]
        BY <1>0, <1>s, <4>3 DEF Truth
      <4> QED
        BY <3>1, <3>2, <4>4
    <3> QED
      BY <1>0, <1>u, <2>1, <2>2, <3>1, <3>2, TruthOwn DEF Start
  <2>3. CASE ResumeClaim(w)
    <3>1. saved[cur[w]] = "yield"
      <4>1. /\ state[cur[w]] = "HOLD"
            /\ \A v \in Worker : pc[v] = "hold" => cur[v] # cur[w]
        BY <1>e, <1>u, <2>3 DEF ResumeClaim, InJob
      <4> QED
        BY <1>0, <2>1, <4>1 DEF Truth, HoldIsSaved
    <3> QED
      BY <1>0, <1>u, <2>u, <2>1, <2>3, <3>1, TruthOwn DEF ResumeClaim
  <2>4. CASE YieldHold(w)
    <3>1. cur[w] \in registry /\ ~firstIn[cur[w]]
      BY <1>s, <2>4 DEF YieldHold, InJob
    <3> QED
      BY <1>0, <1>u, <2>u, <2>1, <2>4, <3>1, TruthOwn DEF YieldHold, InJob
  <2>5. CASE Throw(w) \/ Terminate(w)
    <3>1. Using(w) /\ ~firstIn[cur[w]]
      BY <1>0, <1>s, <1>u, <2>5 DEF Throw, Terminate, Truth, InJob, UserPC
    <3> QED
      BY <1>0, <2>u, <2>1, <2>5, <3>1, TruthOwn DEF Throw, Terminate
  <2> QED
    BY <1>5, <2>2, <2>3, <2>4, <2>5
<1>6. ASSUME NEW w \in Worker, SwitchIn(w)
      PROVE  Truth'
  <2>1. /\ UNCHANGED <<registry, state, saved, cur>> /\ pc[w] = "switch"
        /\ pc' = [pc EXCEPT ![w] = "user"]
        /\ firstIn' = [firstIn EXCEPT ![cur[w]] = FALSE]
    BY <1>6 DEF SwitchIn, tableVars
  <2>2. pc'[w] = "user" /\ state[cur[w]] = "EXEC" /\ cur[w] \in Fiber
    BY <1>e, <1>p, <1>t, <2>1
  <2>3. \A f \in Fiber : firstIn'[f] => firstIn[f]
    BY <1>t, <2>1
  <2>4. ASSUME NEW v \in Worker \ {w}
        PROVE  \/ pc'[v] \in {"idle", "start", "resume"} /\ pc[v] # "hold"
               \/ pc'[v] = pc[v] /\ cur'[v] = cur[v] /\ firstIn'[cur[v]] = firstIn[cur[v]]
    <3>1. pc'[v] = pc[v] /\ cur'[v] = cur[v]
      BY <1>t, <2>1
    <3>2. CASE Using(v)
      <4>1. cur[v] # cur[w] /\ cur[v] \in Fiber
        BY <1>u, <2>1, <3>2
      <4> QED
        BY <1>t, <2>1, <3>1, <4>1
    <3>3. CASE ~Using(v)
      <4>1. pc[v] \in {"idle", "start", "resume"}
        BY <1>t, <3>3 DEF Using, ThreadPC
      <4> QED
        BY <3>1, <4>1
    <3> QED
      BY <3>2, <3>3
  <2>5. \A f \in registry : f \in registry' /\ (firstIn'[f] => firstIn[f])
    BY <1>r, <2>1, <2>3
  <2> QED
    BY <1>0, <2>1, <2>2, <2>4, <2>5, TruthFrame DEF UserPC
<1>7. ASSUME NEW w \in Worker, YieldSwitch(w) \/ Leave(w)
      PROVE  Truth'
  <2>1. /\ UNCHANGED <<registry, state, firstIn>>
        /\ cur[w] \in Fiber
        /\ pc'[w] = "idle" /\ pc[w] \in {"hold", "leave"}
        /\ \A v \in Worker \ {w} : pc'[v] = pc[v] /\ cur'[v] = cur[v]
        /\ \A f \in Fiber \ {cur[w]} : saved'[f] = saved[f]
    BY <1>7, <1>p, <1>t DEF YieldSwitch, Leave, SwitchOut, tableVars
  <2>2. HoldIsSaved'
    <3>1. CASE YieldSwitch(w)
      <4>1. saved'[cur[w]] = "yield"
        BY <1>t, <2>1, <3>1 DEF YieldSwitch, SwitchOut
      <4> QED
        BY <1>0, <2>1, <4>1 DEF Truth, HoldIsSaved
    <3>2. CASE Leave(w)
      <4>1. state[cur[w]] # "HOLD" /\ pc[w] = "leave"
        BY <1>0, <2>1, <3>2 DEF Leave, Truth
      <4> QED
        BY <1>0, <2>1, <4>1 DEF Truth, HoldIsSaved
    <3> QED
      BY <1>7, <3>1, <3>2
  <2>3. \A v \in Worker \ {w} : Using(v) => saved'[cur[v]] = saved[cur[v]]
    BY <1>u, <2>1 DEF InJob
  <2>4. \A v \in Worker : pc'[v] \in (InJob \ {"hold"}) \cup {"switch"} => state'[cur'[v]] = "EXEC"
    BY <1>e, <2>1 DEF InJob, UserPC, AddTaskPC
  <2>5. \A v \in Worker : pc'[v] \in {"tail", "leave"} =>
           state'[cur'[v]] # "HOLD" /\ ~firstIn'[cur'[v]]
    BY <1>0, <2>1 DEF Truth
  <2>6. \A v \in Worker : pc'[v] = "claim" => state'[cur'[v]] = "HOLD"
    BY <1>e, <2>1
  <2>7. \A v \in Worker : pc'[v] = "switch" /\ ~firstIn'[cur'[v]] => saved'[cur'[v]] = "yield"
    BY <1>0, <1>u, <2>1, <2>3 DEF Truth
  <2>8. \A f \in Fiber : state'[f] = "HOLD" => f \in registry' /\ ~firstIn'[f]
    BY <1>e, <2>1
  <2> QED
    BY <2>2, <2>4, <2>5, <2>6, <2>7, <2>8 DEF Truth
<1>8. ASSUME NEW w \in Worker, Exit(w)
      PROVE  Truth'
  <2>1. /\ UNCHANGED <<state, saved, firstIn, cur>> /\ pc[w] = "exit"
        /\ pc' = [pc EXCEPT ![w] = "tail"]
        /\ registry' = registry \ {cur[w]}
    BY <1>8 DEF Exit, fiberVars
  <2>2. /\ pc'[w] = "tail" /\ state[cur[w]] = "EXEC" /\ ~firstIn[cur[w]]
        /\ \A v \in Worker \ {w} : pc'[v] = pc[v]
    BY <1>e, <1>s, <1>t, <2>1 DEF InJob
  <2>3. \A f \in Fiber : state[f] = "HOLD" => f \in registry' /\ ~firstIn[f]
    BY <1>e, <2>1, <2>2
  <2>4. HoldIsSaved'
    BY <1>0, <2>1, <2>2 DEF Truth, HoldIsSaved
  <2>5. \A v \in Worker : pc'[v] \in (InJob \ {"hold"}) \cup {"switch"} => state[cur[v]] = "EXEC"
    BY <1>e, <2>2 DEF InJob, UserPC, AddTaskPC
  <2>6. \A v \in Worker : pc'[v] \in {"tail", "leave"} =>
           state[cur[v]] # "HOLD" /\ ~firstIn[cur[v]]
    BY <1>0, <2>2 DEF Truth
  <2>7. \A v \in Worker : pc'[v] = "claim" => state[cur[v]] = "HOLD"
    BY <1>e, <2>2
  <2>8. \A v \in Worker : pc'[v] = "switch" /\ ~firstIn[cur[v]] => saved[cur[v]] = "yield"
    BY <1>0, <2>2 DEF Truth
  <2> QED
    BY <2>1, <2>3, <2>4, <2>5, <2>6, <2>7, <2>8 DEF Truth
<1>9. ASSUME UNCHANGED <<registry, state, saved, firstIn, pc, cur>>
      PROVE  Truth'
  BY <1>0, <1>9, TruthFrame
<1>10. (EpollWait \/ EpollDispatch \/ \E f \in Fiber : EpollCheck(f)) => Truth'
  BY <1>9 DEF EpollWait, EpollDispatch, EpollCheck, tableVars, fiberVars
<1>11. (Break \/ Quiet) => Truth'
  BY <1>9 DEF Break, BadSwitch, EpollThrow, EpollStale, Quiet, vars, tableVars, fiberVars,
     threadVars
<1> QED
  BY <1>1, <1>3, <1>4, <1>5, <1>6, <1>7, <1>8, <1>10, <1>11
  DEF Next, Proceed, AddTask, WorkerStep, JobStep

LEMMA ExclusiveFrame ==
    ASSUME Exclusive,
           \A w \in Worker : pc'[w] \in {"claim", "switch"} \cup StackPC =>
              Using(w) /\ cur'[w] = cur[w],
           \A t \in Thread : pc'[t] = "reuse" => pc[t] = "reuse" /\ hand'[t] = hand[t]
    PROVE  Exclusive'
BY DEF Exclusive, Using

(* A worker begins to use a fiber that is registered and that no other     *)
(* worker uses.                                                            *)
LEMMA ExclusiveOwn ==
    ASSUME Exclusive, NEW w \in Worker, UNCHANGED <<cur, hand>>,
           \A v \in Worker \ {w} : Using(v) => cur[v] # cur[w],
           \A t \in Thread : pc[t] = "reuse" => hand[t] # cur[w],
           \A t \in Thread : pc'[t] = "reuse" => pc[t] = "reuse",
           \A v \in Worker \ {w} : pc'[v] = pc[v]
    PROVE  Exclusive'
BY DEF Exclusive, Using

LEMMA ExclusiveStep ==
    ASSUME Calm, Next, ~raced, ~raced'
    PROVE  Exclusive'
<1>0. TypeOK /\ OnePlace /\ Placed /\ Tokens /\ Stacks /\ Truth /\ Exclusive
  BY DEF Calm, Core
<1>t. /\ pc \in [Thread -> ThreadPC] /\ cur \in [Worker -> 0..MaxJob]
      /\ hand \in [Thread -> 0..MaxJob] /\ Worker \subseteq Thread
  BY <1>0 DEF TypeOK, Thread
<1>r. registry \subseteq Fiber /\ Made \subseteq Fiber
  BY <1>0, SchedulerAssumption DEF OnePlace, TypeOK, Fiber, Made
<1>p. /\ \A t \in Thread : pc[t] = "reuse" => hand[t] \in Fiber \ registry
      /\ \A w \in Worker : pc[w] # "idle" => cur[w] \in Fiber
  BY <1>0, <1>r DEF Placed, OnePlace, Held
<1>s. StackPC = {"user", "reuse", "create", "register", "enqueue", "yield", "hold", "exit",
                 "tail", "leave"}
  BY DEF StackPC, UserPC, AddTaskPC
<1>i. InJob = StackPC \ {"tail", "leave"}
  BY <1>s DEF InJob, UserPC, AddTaskPC
<1>n. Sound => ~Racing
  BY Zenon DEF Sound
<1>u. /\ \A v, w \in Worker : Using(v) /\ Using(w) /\ cur[v] = cur[w] => v = w
      /\ \A t \in Thread, w \in Worker : pc[t] = "reuse" /\ Using(w) => cur[w] # hand[t]
  BY <1>0 DEF Exclusive
<1>1. ASSUME NEW t \in Thread, TakeFree(t), Sound
      PROVE  Exclusive'
  <2>1. PICK q \in {"reuse", "create"} : /\ pc' = [pc EXCEPT ![t] = q]
                                         /\ q = "reuse" <=> freeFibers # <<>>
    BY <1>1 DEF TakeFree
  <2>2. /\ UNCHANGED cur /\ \A u \in Thread \ {t} : hand'[u] = hand[u]
        /\ q = "reuse" => hand'[t] = Last(freeFibers)
    BY <1>1, <1>t, <2>1 DEF TakeFree
  <2>3. \A w \in Worker : pc'[w] \in {"claim", "switch"} \cup StackPC => Using(w)
    BY <1>1, <1>t, <1>s, <2>1 DEF TakeFree, AtHome, Home, Using
  <2>4. ASSUME q = "reuse", NEW w \in Worker, Using(w)
        PROVE  cur[w] # Last(freeFibers)
    <3>1. Last(freeFibers) \in Free
      BY <1>0, <2>1, <2>4, RangeOfFront DEF OnePlace, TypeOK, Free
    <3>2. Last(freeFibers) \notin registry
      BY <1>0, <3>1 DEF OnePlace
    <3>3. CASE OnStack(w)
      BY <1>1, <1>n, <2>1, <2>4, <3>3 DEF Racing, TakesUnleft
    <3>4. CASE pc[w] = "switch"
      BY <1>0, <3>2, <3>4 DEF Stacks
    <3>5. CASE pc[w] = "claim"
      BY <1>0, <1>p, <3>2, <3>5 DEF Truth
    <3> QED
      BY <2>4, <3>3, <3>4, <3>5 DEF Using, OnStack
  <2>5. \A v, w \in Worker : Using(v)' /\ Using(w)' /\ cur'[v] = cur'[w] => v = w
    BY <1>u, <2>2, <2>3 DEF Using
  <2>6. ASSUME NEW u \in Thread, NEW w \in Worker, pc'[u] = "reuse",
               pc'[w] \in {"claim", "switch"} \cup StackPC
        PROVE  cur'[w] # hand'[u]
    <3>1. CASE u = t
      BY <1>t, <2>1, <2>2, <2>3, <2>4, <2>6, <3>1
    <3>2. CASE u # t
      BY <1>t, <1>u, <2>1, <2>2, <2>3, <2>6, <3>2
    <3> QED
      BY <3>1, <3>2
  <2> QED
    BY <2>5, <2>6 DEF Exclusive, Using
<1>2. ASSUME NEW t \in Thread, Reuse(t) \/ Create(t) \/ Register(t) \/ Enqueue(t)
      PROVE  Exclusive'
  <2>1. PICK q \in {"register", "enqueue", "user", "idle"} :
           /\ pc' = [pc EXCEPT ![t] = q]
           /\ pc[t] \in AddTaskPC
    BY <1>2 DEF Reuse, Create, Register, Enqueue, Home, AddTaskPC
  <2>2. UNCHANGED cur /\ \A u \in Thread \ {t} : hand'[u] = hand[u]
    BY <1>2, <1>t DEF Reuse, Create, Register, Enqueue
  <2>3. \A w \in Worker : pc'[w] \in {"claim", "switch"} \cup StackPC => Using(w)
    BY <1>t, <1>s, <2>1 DEF Using, AddTaskPC
  <2>4. \A u \in Thread : pc'[u] = "reuse" => pc[u] = "reuse" /\ hand'[u] = hand[u]
    BY <1>t, <2>1, <2>2
  <2> QED
    BY <1>0, <2>2, <2>3, <2>4, ExclusiveFrame
<1>3. ASSUME NEW w \in Worker, Pop(w)
      PROVE  Exclusive'
  <2>1. /\ pc' = [pc EXCEPT ![w] = Head(tasks).op] /\ Head(tasks).op \in {"start", "resume"}
        /\ UNCHANGED hand /\ \A v \in Worker \ {w} : cur'[v] = cur[v]
    BY <1>0, <1>3, <1>t, QueuePop DEF Pop, PoolTask
  <2>2. \A v \in Worker : pc'[v] \in {"claim", "switch"} \cup StackPC =>
           Using(v) /\ cur'[v] = cur[v]
    BY <1>t, <1>s, <2>1 DEF Using
  <2>3. \A u \in Thread : pc'[u] = "reuse" => pc[u] = "reuse" /\ hand'[u] = hand[u]
    BY <1>t, <2>1
  <2> QED
    BY <1>0, <2>2, <2>3, ExclusiveFrame
<1>4. ASSUME NEW w \in Worker, Start(w)
      PROVE  Exclusive'
  <2>1. /\ pc[w] = "start" /\ pc' = [pc EXCEPT ![w] = "switch"] /\ UNCHANGED <<cur, hand>>
    BY <1>4 DEF Start
  <2>2. /\ firstIn[cur[w]] /\ cur[w] \in registry /\ cur[w] \in Made /\ cur[w] \in Fiber
        /\ state[cur[w]] # "HOLD"
    BY <1>0, <1>p, <2>1 DEF Tokens, Truth, Placed
  <2>3. ASSUME NEW v \in Worker \ {w}, Using(v)
        PROVE  cur[v] # cur[w]
    <3>1. CASE pc[v] = "switch"
      <4>1. cur[v] = cur[w] => Enters(v, cur[w]) /\ Enters(w, cur[w])
        BY <2>1, <2>2, <3>1 DEF Enters
      <4> QED
        BY <1>0, <2>2, <4>1 DEF Tokens
    <3>2. CASE pc[v] = "claim"
      BY <1>0, <2>2, <3>2 DEF Truth
    <3>3. CASE pc[v] \in InJob
      BY <1>0, <2>2, <3>3 DEF Stacks
    <3>4. CASE pc[v] \in {"tail", "leave"}
      BY <1>0, <2>2, <3>4 DEF Truth
    <3> QED
      BY <1>i, <2>3, <3>1, <3>2, <3>3, <3>4 DEF Using
  <2>4. \A t \in Thread : pc[t] = "reuse" => hand[t] # cur[w]
    BY <1>p, <2>2
  <2>5. \A t \in Thread : pc'[t] = "reuse" => pc[t] = "reuse"
    BY <1>t, <2>1
  <2>6. \A v \in Worker \ {w} : pc'[v] = pc[v]
    BY <1>t, <2>1
  <2> QED
    BY <1>0, <2>1, <2>3, <2>4, <2>5, <2>6, ExclusiveOwn
<1>5. ASSUME NEW w \in Worker, ResumeTest(w), Sound
      PROVE  Exclusive'
  <2>1. CASE state[cur[w]] = "HOLD"
    <3>1. /\ pc[w] = "resume" /\ pc' = [pc EXCEPT ![w] = "claim"] /\ UNCHANGED <<cur, hand>>
          /\ cur[w] \in Fiber
      BY <1>5, <1>p, <2>1 DEF ResumeTest
    <3>2. cur[w] \in registry
      BY <1>0, <2>1, <3>1 DEF Truth
    <3>3. ASSUME NEW v \in Worker \ {w}, Using(v), cur[v] = cur[w]
          PROVE  FALSE
      <4>1. pc[v] \notin {"hold", "claim"}
        BY <1>5, <1>n, <2>1, <3>3 DEF Racing, FindsUnsettled
      <4>2. pc[v] \in (InJob \ {"hold"}) \cup {"switch", "tail", "leave"}
        BY <1>i, <3>3, <4>1 DEF Using
      <4> QED
        BY <1>0, <2>1, <3>3, <4>2 DEF Truth
    <3>4. \A t \in Thread : pc[t] = "reuse" => hand[t] # cur[w]
      BY <1>p, <3>2
    <3>5. \A t \in Thread : pc'[t] = "reuse" => pc[t] = "reuse"
      BY <1>t, <3>1
    <3>6. \A v \in Worker \ {w} : pc'[v] = pc[v]
      BY <1>t, <3>1
    <3> QED
      BY <1>0, <3>1, <3>3, <3>4, <3>5, <3>6, ExclusiveOwn
  <2>2. CASE state[cur[w]] # "HOLD"
    <3>1. /\ pc' = [pc EXCEPT ![w] = "idle"] /\ UNCHANGED hand
          /\ \A v \in Worker \ {w} : cur'[v] = cur[v]
      BY <1>5, <1>t, <2>2 DEF ResumeTest
    <3>2. \A v \in Worker : pc'[v] \in {"claim", "switch"} \cup StackPC =>
             Using(v) /\ cur'[v] = cur[v]
      BY <1>t, <1>s, <3>1 DEF Using
    <3>3. \A u \in Thread : pc'[u] = "reuse" => pc[u] = "reuse" /\ hand'[u] = hand[u]
      BY <1>t, <3>1
    <3> QED
      BY <1>0, <3>2, <3>3, ExclusiveFrame
  <2> QED
    BY <2>1, <2>2
<1>6. ASSUME NEW w \in Worker, SwitchIn(w) \/ Exit(w)
      PROVE  Exclusive'
  <2>1. /\ pc[w] \in {"switch", "exit"} /\ UNCHANGED <<cur, hand>>
        /\ \E q \in {"user", "tail"} : pc' = [pc EXCEPT ![w] = q]
    BY <1>6 DEF SwitchIn, Exit
  <2>2. \A v \in Worker : pc'[v] \in {"claim", "switch"} \cup StackPC =>
           Using(v) /\ cur'[v] = cur[v]
    BY <1>t, <1>s, <2>1 DEF Using
  <2>3. \A u \in Thread : pc'[u] = "reuse" => pc[u] = "reuse" /\ hand'[u] = hand[u]
    BY <1>t, <2>1
  <2> QED
    BY <1>0, <2>2, <2>3, ExclusiveFrame
<1>7. ASSUME NEW w \in Worker, PlainStep(w), ~Start(w), ~ResumeTest(w)
      PROVE  Exclusive'
  <2>1. PlainFrame(w)
    BY <1>0, <1>7, PlainSteps
  <2>2. /\ <<pc[w], pc'[w]>> \in PlainMove /\ UNCHANGED hand
        /\ \A v \in Worker \ {w} : cur'[v] = cur[v]
        /\ \A v \in Thread \ {w} : pc'[v] = pc[v]
        /\ pc'[w] # "idle" => cur'[w] = cur[w]
    BY <1>t, <2>1 DEF PlainFrame
  <2>3. pc[w] \notin {"start", "resume"}
    BY <1>7 DEF PlainStep, ResumeClaim, Watch, Unwatch, YieldTest, YieldHold, YieldSwitch,
       Return, Throw, Terminate, Leave
  <2>4. pc'[w] # "reuse" /\ (pc'[w] # "idle" => Using(w))
    BY <1>s, <2>2, <2>3 DEF PlainMove, Using
  <2>5. \A v \in Worker : pc'[v] \in {"claim", "switch"} \cup StackPC =>
           Using(v) /\ cur'[v] = cur[v]
    BY <1>s, <1>t, <2>2, <2>4 DEF Using
  <2>6. \A u \in Thread : pc'[u] = "reuse" => pc[u] = "reuse" /\ hand'[u] = hand[u]
    BY <2>2, <2>4
  <2> QED
    BY <1>0, <2>5, <2>6, ExclusiveFrame
<1>8. ASSUME UNCHANGED <<pc, cur, hand>>
      PROVE  Exclusive'
  BY <1>0, <1>8, ExclusiveFrame DEF Using
<1>9. ASSUME Proceed, Sound
      PROVE  Exclusive'
  <2>1. (EpollWait \/ EpollDispatch \/ \E f \in Fiber : EpollCheck(f)) => Exclusive'
    BY <1>8 DEF EpollWait, EpollDispatch, EpollCheck
  <2>2. ASSUME NEW w \in Worker, WorkerStep(w)
        PROVE  \/ Pop(w) \/ Start(w) \/ ResumeTest(w) \/ SwitchIn(w) \/ Exit(w)
               \/ PlainStep(w) /\ ~Start(w) /\ ~ResumeTest(w)
    BY <2>2 DEF WorkerStep, JobStep, PlainStep
  <2> QED
    BY <1>1, <1>2, <1>3, <1>4, <1>5, <1>6, <1>7, <1>9, <2>1, <2>2 DEF Proceed, AddTask
<1>10. (Break \/ Quiet) => Exclusive'
  BY <1>8 DEF Break, BadSwitch, EpollThrow, EpollStale, Quiet, vars, threadVars
<1> QED
  BY <1>9, <1>10 DEF Next

LEMMA CalmStep ==
    ASSUME CalmInv, [Next]_vars
    PROVE  CalmInv'
<1>0. OneThreadPerStack /\ (raced \/ Calm)
  BY DEF CalmInv
<1>1. CASE UNCHANGED vars
  <2>1. raced' = raced /\ OneThreadPerStack'
    BY <1>0, <1>1 DEF vars, OneThreadPerStack
  <2>2. ASSUME Calm
        PROVE  Calm'
    <3>1. Core'
      BY <1>1, <2>2, CalmOrderly, CoreStep DEF Calm
    <3>2. Truth' /\ Exclusive'
      BY <1>1, <2>2 DEF Calm, Truth, HoldIsSaved, Exclusive, Using, vars, tableVars, fiberVars,
         threadVars
    <3> QED
      BY <3>1, <3>2 DEF Calm
  <2> QED
    BY <1>0, <2>1, <2>2 DEF CalmInv
<1>2. CASE Next
  <2>1. raced => raced'
    BY <1>2 DEF Next, Sound, Quiet, vars
  <2>2. ASSUME Calm, ~raced, ~raced'
        PROVE  Calm'
    <3>1. Core'
      BY <1>2, <2>2, CalmOrderly, CoreStep DEF Calm
    <3> QED
      BY <1>2, <2>2, <3>1, TruthStep, ExclusiveStep DEF Calm
  <2>3. ASSUME NEW w \in Worker, BadSwitch(w), ~raced
        PROVE  FALSE
    <3>1. Calm /\ pc[w] = "switch" /\ ~CanEnter(w)
      BY <1>0, <2>3 DEF BadSwitch
    <3>2. firstIn[cur[w]] \/ saved[cur[w]] = "yield"
      BY <3>1 DEF Calm, Truth
    <3>3. ~Occupied(w)
      BY <3>1 DEF Calm, Exclusive, Occupied, Using, OnStack
    <3> QED
      BY <3>1, <3>2, <3>3 DEF CanEnter
  <2>4. OneThreadPerStack'
    <3>1. CASE UNCHANGED fault
      BY <1>0, <2>1, <3>1 DEF OneThreadPerStack
    <3>2. CASE Break /\ UNCHANGED raced
      BY <2>3, <3>2 DEF Break, EpollThrow, EpollStale, OneThreadPerStack
    <3> QED
      BY <1>2, <3>1, <3>2 DEF Next, Sound, Quiet, vars
  <2> QED
    BY <1>0, <2>1, <2>2, <2>4 DEF CalmInv
<1> QED
  BY <1>1, <1>2

LEMMA CalmAlways == Safety => []CalmInv
<1>1. CalmInv /\ [Next]_vars => CalmInv'
  BY CalmStep
<1> QED
  BY <1>1, CalmInit, PTL DEF Safety

-----------------------------------------------------------------------------
(* The results, for every number of workers, callers and jobs.             *)

(* The state keeps its types (IOScheduler's tables, each Fiber's fields,   *)
(* the queue): in particular lastId never names a fiber that addTask did   *)
(* not create.                                                             *)
THEOREM TypeCorrect ==
    ASSUME WatchersEndless
    PROVE  Safety => []TypeOK
<1>1. SchedulerInv => TypeOK
  BY DEF SchedulerInv, Core
<1> QED
  BY <1>1, InvAlways, PTL

(* addTask and exit (scheduler.h) keep every fiber in one place, and the   *)
(* fibers that are never used again are exactly those whose job threw:     *)
(* mainFunc (fiber.h) leaves them registered.                              *)
THEOREM FibersAccounted ==
    ASSUME WatchersEndless
    PROVE  Safety => []FiberAccounted
<1>1. Core => FiberAccounted
  <2>1. ASSUME Core, NEW f \in registry
        PROVE  Alive(f) \/ job[f] \in failed
    <3>1. \A w \in Worker : pc[w] \in InJob => OnStack(w) /\ pc[w] \notin {"tail", "leave"}
      BY DEF InJob, OnStack, StackPC, UserPC, AddTaskPC
    <3> QED
      BY <2>1, <3>1 DEF Core, Failures, Alive
  <2>2. ASSUME Core, NEW f \in 1..lastId, job[f] \in failed
        PROVE  f \in registry /\ ~firstIn[f]
    BY <2>2 DEF Core, Failures, Jobs, Made
  <2> QED
    BY <2>1, <2>2 DEF Core, FiberAccounted
<1>2. SchedulerInv => Core
  BY DEF SchedulerInv
<1> QED
  BY <1>1, <1>2, InvAlways, PTL

(* A job given to addTask is held by a fiber that exactly one thread or    *)
(* task will start, until the job is entered, and by none afterwards.      *)
THEOREM JobsEnteredOnce ==
    ASSUME WatchersEndless
    PROVE  Safety => []JobEnteredOnce
<1>1. SchedulerInv => Core
  BY DEF SchedulerInv
<1> QED
  BY <1>1, InvEntered, InvAlways, PTL

(* IOScheduler::run never throws for an event without a fiber and never    *)
(* dereferences the end of Registry, also for the events of a batch that   *)
(* is handled long after epoll_wait has returned it.                       *)
THEOREM EventsFindFibers ==
    ASSUME WatchersEndless
    PROVE  Safety => []EventsFindTheirFiber
<1>1. SchedulerInv => EventsFindTheirFiber
  BY DEF SchedulerInv
<1> QED
  BY <1>1, InvAlways, PTL

(* No stack is entered by two threads, and none past its end, whatever     *)
(* resume tasks a fiber's earlier life has left in the queue and whenever  *)
(* addTask reuses the fiber, unless addTask has taken a fiber that is      *)
(* still on a stack or resume has found HOLD between a yield's two steps   *)
(* or beside another resume's two.                                         *)
THEOREM OneThreadPerStackAlways == Safety => []OneThreadPerStack
<1>1. CalmInv => OneThreadPerStack
  BY DEF CalmInv
<1> QED
  BY <1>1, CalmAlways, PTL

(* Up to such a step m_state tells the truth: a fiber that executes is     *)
(* EXEC, so that its yield waits, and one on HOLD has a context to resume. *)
THEOREM StateMatchesStackAlways == Safety => []StateMatchesStack
<1>1. CalmInv => StateMatchesStack
  BY DEF CalmInv, Calm, Truth, StateMatchesStack, ExecutingIsExec, InJob, UserPC, AddTaskPC
<1> QED
  BY <1>1, CalmAlways, PTL
=============================================================================
