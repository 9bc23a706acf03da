--------------------------- MODULE FiberScheduler ---------------------------
(***************************************************************************)
(* The life of a fiber in mjber: IOScheduler::addTask and exit             *)
(* (mjber/scheduler.h), Fiber::start, resume, yield and mainFunc           *)
(* (mjber/fiber.h) on the swap of contexts (mjber/context.h), driven by    *)
(* the pool's workers and by the epoll thread.                             *)
(*                                                                         *)
(* The pool is used through what TaskPool promises: a task is appended and *)
(* taken atomically.  Sections under registryMutex are one step; m_state,  *)
(* m_task and m_ctx are protected by no lock, so each access of start,     *)
(* resume, yield and mainFunc to them is a step that any other thread may  *)
(* precede or follow.  The writes of reuse are one step: the only thread   *)
(* that may be in the fiber's fields meanwhile is the one leaving it, and  *)
(* that reads none of them and writes m_state once, or saves m_ctx once,   *)
(* so that before or after all of reuse are the only outcomes.  The        *)
(* sockets appear only through `watched': the fibers named by some entry   *)
(* of the epoll set.  EventLoop.tla models addEvent, rmEvent and the       *)
(* readiness rules.                                                        *)
(*                                                                         *)
(* Once the code's behaviour is undefined, or std::terminate is called,    *)
(* `fault' records why and the model stops there: everything stated below  *)
(* is about the behaviour up to that point.                                *)
(***************************************************************************)
EXTENDS Naturals, FiniteSets, SequencesExt

CONSTANTS Worker,    \* the threads of the pool
          Caller,    \* threads outside the pool that call addTask
          MaxJob,    \* bound: number of addTask calls in one behaviour
          MaxWake,   \* bound: length of the pool's queue when an event is taken
          Watching,  \* the jobs that wait for a non-blocking socket
          Endless    \* the jobs that never return (they may throw)

Job == 1..MaxJob
Fiber == 1..MaxJob     \* every job may need a new fiber

ASSUME SchedulerAssumption == /\ IsFiniteSet(Worker)
                              /\ IsFiniteSet(Caller)
                              /\ Worker \cap Caller = {}
                              /\ MaxJob \in Nat
                              /\ MaxWake \in Nat
                              /\ Watching \subseteq Job
                              /\ Endless \subseteq Job

VARIABLES
    tasks,       \* the pool's queue of start and resume tasks
    registry,    \* Registry: the fibers with a FiberDes
    freeFibers,  \* freeFibers: fibers whose job has returned, last in first out
    lastId,      \* s_Fiber_id
    state,       \* m_state of each fiber
    firstIn,     \* m_ctx.firstIn of each fiber
    saved,       \* where m_ctx continues: in yield, past the end, or nowhere
    job,         \* the job whose closure m_task holds, 0 for none
    submitted,   \* number of jobs given to addTask; job n is the n-th stored
    watched,     \* fibers named by an entry of the epoll set
    pc,          \* where each thread is
    cur,         \* the fiber a worker starts, resumes or executes
    hand,        \* work_fiber of an addTask in progress
    batch,       \* the fibers of the events epoll_wait returned, still to handle
    polled,      \* the fiber whose event the epoll thread is handling, or 0
    started,     \* history: the jobs whose function was entered
    failed,      \* history: the jobs that threw
    raced,       \* history: a step was taken inside a window without a lock
    fault        \* why the behaviour ended

epollVars == <<batch, polled>>
threadVars == <<pc, cur, hand, epollVars>>
fiberVars == <<state, firstIn, saved>>
jobVars == <<job, submitted, started, failed>>
tableVars == <<registry, freeFibers, lastId>>
vars == <<tasks, tableVars, fiberVars, jobVars, watched, threadVars, raced, fault>>

Thread == Worker \cup Caller
FiberState == {"INIT", "READY", "EXEC", "HOLD", "TERM", "ERROR"}
PoolTask == [op : {"start", "resume"}, fid : Fiber]

AddTaskPC == {"reuse", "create", "register", "enqueue"}
UserPC == {"user"} \cup AddTaskPC
StackPC == UserPC \cup {"yield", "hold", "exit", "tail", "leave"}
ThreadPC == StackPC \cup {"idle", "start", "resume", "claim", "switch"}

TypeOK == /\ tasks \in Seq(PoolTask)
          /\ registry \in SUBSET Fiber
          /\ freeFibers \in Seq(Fiber)
          /\ lastId \in 0..MaxJob
          /\ state \in [Fiber -> FiberState]
          /\ firstIn \in [Fiber -> BOOLEAN]
          /\ saved \in [Fiber -> {"nowhere", "yield", "end"}]
          /\ job \in [Fiber -> 0..MaxJob]
          /\ submitted \in 0..MaxJob
          /\ watched \in SUBSET Fiber
          /\ pc \in [Thread -> ThreadPC]
          /\ cur \in [Worker -> 0..MaxJob]
          /\ hand \in [Thread -> 0..MaxJob]
          /\ batch \in SUBSET Fiber
          /\ polled \in 0..MaxJob
          /\ started \in SUBSET Job
          /\ failed \in SUBSET Job
          /\ raced \in BOOLEAN
          /\ fault \in {"none", "stack", "terminate", "stale"}

Init == /\ tasks = <<>>
        /\ registry = {}
        /\ freeFibers = <<>>
        /\ lastId = 0
        /\ state = [f \in Fiber |-> "INIT"]
        /\ firstIn = [f \in Fiber |-> FALSE]
        /\ saved = [f \in Fiber |-> "nowhere"]
        /\ job = [f \in Fiber |-> 0]
        /\ submitted = 0
        /\ watched = {}
        /\ pc = [t \in Thread |-> "idle"]
        /\ cur = [w \in Worker |-> 0]
        /\ hand = [t \in Thread |-> 0]
        /\ batch = {}
        /\ polled = 0
        /\ started = {}
        /\ failed = {}
        /\ raced = FALSE
        /\ fault = "none"

-----------------------------------------------------------------------------
(* addTask, called outside the pool or by the job a worker executes.       *)

Home(t) == IF t \in Worker THEN "user" ELSE "idle"
AtHome(t) == pc[t] = Home(t)
Deciding == {t \in Thread : pc[t] \in {"reuse", "create"}}

(* Mutant: the fiber is taken from freeFibers but not removed.             *)
TakeFreeKeeps(t) ==
    /\ AtHome(t)
    /\ submitted + Cardinality(Deciding) < MaxJob
    /\ IF freeFibers # <<>>
       THEN /\ hand' = [hand EXCEPT ![t] = Last(freeFibers)]
            /\ pc' = [pc EXCEPT ![t] = "reuse"]
       ELSE /\ pc' = [pc EXCEPT ![t] = "create"]
            /\ UNCHANGED hand
    /\ UNCHANGED <<tasks, tableVars, fiberVars, jobVars, watched, cur, epollVars>>

(* The section under registryMutex that looks for a free fiber.            *)
TakeFree(t) ==
    /\ AtHome(t)
    /\ submitted + Cardinality(Deciding) < MaxJob
    /\ IF freeFibers # <<>>
       THEN /\ hand' = [hand EXCEPT ![t] = Last(freeFibers)]
            /\ freeFibers' = Front(freeFibers)
            /\ pc' = [pc EXCEPT ![t] = "reuse"]
       ELSE /\ pc' = [pc EXCEPT ![t] = "create"]
            /\ UNCHANGED <<hand, freeFibers>>
    /\ UNCHANGED <<tasks, registry, lastId, fiberVars, jobVars, watched, cur, epollVars>>

(* Mutant: reuse does not set firstIn.                                     *)
ReuseOldEntry(t) ==
    /\ pc[t] = "reuse"
    /\ job' = [job EXCEPT ![hand[t]] = submitted + 1]
    /\ submitted' = submitted + 1
    /\ state' = [state EXCEPT ![hand[t]] = "READY"]
    /\ watched' = watched \ {hand[t]}
    /\ pc' = [pc EXCEPT ![t] = "register"]
    /\ UNCHANGED <<tasks, tableVars, firstIn, saved, started, failed, cur, hand, epollVars>>

(* Fiber::reuse and setCallBack.  Assigning m_task destroys the closure of *)
(* the previous job, and with it the socket the closure held.              *)
Reuse(t) ==
    /\ pc[t] = "reuse"
    /\ job' = [job EXCEPT ![hand[t]] = submitted + 1]
    /\ submitted' = submitted + 1
    /\ firstIn' = [firstIn EXCEPT ![hand[t]] = TRUE]
    /\ state' = [state EXCEPT ![hand[t]] = "READY"]
    /\ watched' = watched \ {hand[t]}
    /\ pc' = [pc EXCEPT ![t] = "register"]
    /\ UNCHANGED <<tasks, tableVars, saved, started, failed, cur, hand, epollVars>>

(* Fiber::Create and setCallBack: the next value of s_Fiber_id.            *)
Create(t) ==
    /\ pc[t] = "create"
    /\ LET f == lastId + 1
       IN  /\ f \in Fiber
           /\ lastId' = f
           /\ hand' = [hand EXCEPT ![t] = f]
           /\ job' = [job EXCEPT ![f] = submitted + 1]
           /\ firstIn' = [firstIn EXCEPT ![f] = TRUE]
           /\ state' = [state EXCEPT ![f] = "READY"]
    /\ submitted' = submitted + 1
    /\ pc' = [pc EXCEPT ![t] = "register"]
    /\ UNCHANGED <<tasks, registry, freeFibers, saved, started, failed, watched, cur, epollVars>>

Register(t) ==
    /\ pc[t] = "register"
    /\ registry' = registry \cup {hand[t]}
    /\ pc' = [pc EXCEPT ![t] = "enqueue"]
    /\ UNCHANGED <<tasks, freeFibers, lastId, fiberVars, jobVars, watched, cur, hand, epollVars>>

Enqueue(t) ==
    /\ pc[t] = "enqueue"
    /\ tasks' = Append(tasks, [op |-> "start", fid |-> hand[t]])
    /\ hand' = [hand EXCEPT ![t] = 0]
    /\ pc' = [pc EXCEPT ![t] = Home(t)]
    /\ UNCHANGED <<tableVars, fiberVars, jobVars, watched, cur, epollVars>>

AddTask(t) == \/ TakeFree(t)
              \/ Reuse(t)
              \/ Create(t)
              \/ Register(t)
              \/ Enqueue(t)

-----------------------------------------------------------------------------
(* A worker of the pool: it takes a task and calls start or resume.        *)

(* The worker executes on the stack of its fiber.                          *)
OnStack(w) == pc[w] \in StackPC

Pop(w) ==
    /\ pc[w] = "idle"
    /\ tasks # <<>>
    /\ cur' = [cur EXCEPT ![w] = Head(tasks).fid]
    /\ pc' = [pc EXCEPT ![w] = Head(tasks).op]
    /\ tasks' = Tail(tasks)
    /\ UNCHANGED <<tableVars, fiberVars, jobVars, watched, hand, epollVars>>

(* Mutant: start does not set m_state.                                     *)
StartKeepsState(w) ==
    /\ pc[w] = "start"
    /\ pc' = [pc EXCEPT ![w] = "switch"]
    /\ UNCHANGED <<tasks, tableVars, fiberVars, jobVars, watched, cur, hand, epollVars>>

Start(w) ==
    /\ pc[w] = "start"
    /\ state' = [state EXCEPT ![cur[w]] = "EXEC"]
    /\ pc' = [pc EXCEPT ![w] = "switch"]
    /\ UNCHANGED <<tasks, tableVars, firstIn, saved, jobVars, watched, cur, hand, epollVars>>

(* Mutant: resume does not look at m_state.                                *)
ResumeAnyState(w) ==
    /\ pc[w] = "resume"
    /\ pc' = [pc EXCEPT ![w] = "claim"]
    /\ UNCHANGED <<tasks, tableVars, fiberVars, jobVars, watched, cur, hand, epollVars>>

(* resume reads m_state: only a fiber on HOLD is resumed, the call is      *)
(* otherwise without effect.                                               *)
ResumeTest(w) ==
    /\ pc[w] = "resume"
    /\ IF state[cur[w]] = "HOLD"
       THEN /\ pc' = [pc EXCEPT ![w] = "claim"]
            /\ UNCHANGED cur
       ELSE /\ pc' = [pc EXCEPT ![w] = "idle"]
            /\ cur' = [cur EXCEPT ![w] = 0]
    /\ UNCHANGED <<tasks, tableVars, fiberVars, jobVars, watched, hand, epollVars>>

(* ... and then writes it.                                                 *)
ResumeClaim(w) ==
    /\ pc[w] = "claim"
    /\ state' = [state EXCEPT ![cur[w]] = "EXEC"]
    /\ pc' = [pc EXCEPT ![w] = "switch"]
    /\ UNCHANGED <<tasks, tableVars, firstIn, saved, jobVars, watched, cur, hand, epollVars>>

(* ctx_swap to the fiber can continue where the fiber last left its stack. *)
Occupied(w) == \E v \in Worker \ {w} : OnStack(v) /\ cur[v] = cur[w]
CanEnter(w) == ~Occupied(w) /\ (firstIn[cur[w]] \/ saved[cur[w]] = "yield")

SwitchIn(w) ==
    /\ pc[w] = "switch"
    /\ CanEnter(w)
    /\ firstIn' = [firstIn EXCEPT ![cur[w]] = FALSE]
    /\ started' = IF firstIn[cur[w]] THEN started \cup {job[cur[w]]} ELSE started
    /\ pc' = [pc EXCEPT ![w] = "user"]
    /\ UNCHANGED <<tasks, tableVars, state, saved, job, submitted, failed, watched, cur, hand, epollVars>>

(* Two threads on one stack, or a return past the end of mainFunc.         *)
BadSwitch(w) ==
    /\ pc[w] = "switch"
    /\ ~CanEnter(w)
    /\ fault' = "stack"
    /\ UNCHANGED <<tasks, tableVars, fiberVars, jobVars, watched, threadVars>>

-----------------------------------------------------------------------------
(* The job, on the stack of its fiber.                                     *)

(* The job registers its socket with the epoll set (addEvent) ...          *)
Watch(w) ==
    /\ pc[w] = "user"
    /\ job[cur[w]] \in Watching
    /\ cur[w] \in registry
    /\ watched' = watched \cup {cur[w]}
    /\ UNCHANGED <<tasks, tableVars, fiberVars, jobVars, threadVars>>

(* ... or drops its last reference to it, which closes it.                 *)
Unwatch(w) ==
    /\ pc[w] = "user"
    /\ watched' = watched \ {cur[w]}
    /\ UNCHANGED <<tasks, tableVars, fiberVars, jobVars, threadVars>>

(* yield reads m_state: it returns at once unless the fiber is executing.  *)
YieldTest(w) ==
    /\ pc[w] = "user"
    /\ IF state[cur[w]] = "EXEC"
       THEN pc' = [pc EXCEPT ![w] = "yield"]
       ELSE UNCHANGED pc
    /\ UNCHANGED <<tasks, tableVars, fiberVars, jobVars, watched, cur, hand, epollVars>>

YieldHold(w) ==
    /\ pc[w] = "yield"
    /\ state' = [state EXCEPT ![cur[w]] = "HOLD"]
    /\ pc' = [pc EXCEPT ![w] = "hold"]
    /\ UNCHANGED <<tasks, tableVars, firstIn, saved, jobVars, watched, cur, hand, epollVars>>

(* ctx_swap back to the worker's main context, saving the fiber's.         *)
SwitchOut(w, place) ==
    /\ saved' = [saved EXCEPT ![cur[w]] = place]
    /\ cur' = [cur EXCEPT ![w] = 0]
    /\ pc' = [pc EXCEPT ![w] = "idle"]
    /\ UNCHANGED <<tasks, tableVars, state, firstIn, jobVars, watched, hand, epollVars>>

(* Mutant: the context of the fiber that yields is not saved.              *)
YieldSwitchUnsaved(w) ==
    /\ pc[w] = "hold"
    /\ cur' = [cur EXCEPT ![w] = 0]
    /\ pc' = [pc EXCEPT ![w] = "idle"]
    /\ UNCHANGED <<tasks, tableVars, fiberVars, jobVars, watched, hand, epollVars>>

YieldSwitch(w) == pc[w] = "hold" /\ SwitchOut(w, "yield")

(* The job's function returns; mainFunc goes on to the call-back.          *)
Return(w) ==
    /\ pc[w] = "user"
    /\ job[cur[w]] \notin Endless
    /\ pc' = [pc EXCEPT ![w] = "exit"]
    /\ UNCHANGED <<tasks, tableVars, fiberVars, jobVars, watched, cur, hand, epollVars>>

(* Mutant: the fiber that failed is unregistered while its socket is still *)
(* watched.                                                                *)
ThrowErases(w) ==
    /\ pc[w] = "user"
    /\ state' = [state EXCEPT ![cur[w]] = "ERROR"]
    /\ failed' = failed \cup {job[cur[w]]}
    /\ registry' = registry \ {cur[w]}
    /\ pc' = [pc EXCEPT ![w] = "leave"]
    /\ UNCHANGED <<tasks, freeFibers, lastId, firstIn, saved, job, submitted, started,
                   watched, cur, hand, epollVars>>

(* The job throws: mainFunc records it and leaves without the call-back,   *)
(* so that the fiber stays registered.                                     *)
Throw(w) ==
    /\ pc[w] = "user"
    /\ state' = [state EXCEPT ![cur[w]] = "ERROR"]
    /\ failed' = failed \cup {job[cur[w]]}
    /\ pc' = [pc EXCEPT ![w] = "leave"]
    /\ UNCHANGED <<tasks, tableVars, firstIn, saved, job, submitted, started, watched,
                   cur, hand, epollVars>>

(* The call-back: IOScheduler::exit, one section under registryMutex.      *)
Exit(w) ==
    /\ pc[w] = "exit"
    /\ registry' = registry \ {cur[w]}
    /\ freeFibers' = Append(freeFibers, cur[w])
    /\ pc' = [pc EXCEPT ![w] = "tail"]
    /\ UNCHANGED <<tasks, lastId, fiberVars, jobVars, watched, cur, hand, epollVars>>

(* mainFunc after the call-back: the fiber is free already, yet its        *)
(* m_state is still to be written and its stack still to be left.          *)
Terminate(w) ==
    /\ pc[w] = "tail"
    /\ state' = [state EXCEPT ![cur[w]] = "TERM"]
    /\ pc' = [pc EXCEPT ![w] = "leave"]
    /\ UNCHANGED <<tasks, tableVars, firstIn, saved, jobVars, watched, cur, hand, epollVars>>

Leave(w) == pc[w] = "leave" /\ SwitchOut(w, "end")

JobStep(w) == \/ Watch(w)
              \/ Unwatch(w)
              \/ YieldTest(w)
              \/ YieldHold(w)
              \/ YieldSwitch(w)
              \/ Return(w)
              \/ Throw(w)
              \/ Exit(w)
              \/ Terminate(w)
              \/ Leave(w)

WorkerStep(w) == \/ Pop(w)
                 \/ Start(w)
                 \/ ResumeTest(w)
                 \/ ResumeClaim(w)
                 \/ SwitchIn(w)
                 \/ JobStep(w)

-----------------------------------------------------------------------------
(* The epoll thread: epoll_wait returns a batch of events, each naming a   *)
(* fiber, which is looked up twice, the first time under registryMutex     *)
(* (checkFiber), the second time not.  What the batch names may have left  *)
(* the epoll set, or the registry, by the time it is handled.              *)

EpollWait ==
    /\ batch = {} /\ polled = 0
    /\ batch' \in SUBSET watched \ {{}}
    /\ UNCHANGED <<tasks, tableVars, fiberVars, jobVars, watched, pc, cur, hand, polled>>

(* A fiber with several sockets may have another event in the batch.       *)
EpollCheck(f) ==
    /\ polled = 0
    /\ f \in batch
    /\ f \in registry
    /\ polled' = f
    /\ batch' \in {batch, batch \ {f}}
    /\ UNCHANGED <<tasks, tableVars, fiberVars, jobVars, watched, pc, cur, hand>>

(* The exception leaves the thread's function: std::terminate.             *)
EpollThrow(f) ==
    /\ polled = 0
    /\ f \in batch
    /\ f \notin registry
    /\ fault' = "terminate"
    /\ UNCHANGED <<tasks, tableVars, fiberVars, jobVars, watched, threadVars>>

(* The event wakes the fiber, or is not the one it waits for.              *)
EpollDispatch ==
    /\ polled # 0
    /\ polled \in registry
    /\ \/ /\ Len(tasks) < MaxWake
          /\ tasks' = Append(tasks, [op |-> "resume", fid |-> polled])
       \/ UNCHANGED tasks
    /\ polled' = 0
    /\ UNCHANGED <<tableVars, fiberVars, jobVars, watched, pc, cur, hand, batch>>

(* The second find returns end(), which is dereferenced.                   *)
EpollStale ==
    /\ polled # 0
    /\ polled \notin registry
    /\ fault' = "stale"
    /\ UNCHANGED <<tasks, tableVars, fiberVars, jobVars, watched, threadVars>>

-----------------------------------------------------------------------------
(* The two windows that no lock closes.  addTask takes a fiber from        *)
(* freeFibers that a worker has freed in exit but whose stack it has still *)
(* to leave.                                                               *)
TakesUnleft(t) == /\ TakeFree(t)
                  /\ freeFibers # <<>>
                  /\ \E w \in Worker : OnStack(w) /\ cur[w] = Last(freeFibers)

(* resume finds HOLD on a fiber whose yield has still to save the context, *)
(* or that another resume has found on HOLD and is about to continue.      *)
FindsUnsettled(w) == /\ ResumeTest(w)
                     /\ state[cur[w]] = "HOLD"
                     /\ \E v \in Worker \ {w} : pc[v] \in {"hold", "claim"} /\ cur[v] = cur[w]

Racing == \/ \E t \in Thread : TakesUnleft(t)
          \/ \E w \in Worker : FindsUnsettled(w)

-----------------------------------------------------------------------------
Proceed == \/ \E t \in Thread : AddTask(t)
           \/ \E w \in Worker : WorkerStep(w)
           \/ EpollWait
           \/ \E f \in Fiber : EpollCheck(f)
           \/ EpollDispatch

Break == \/ \E w \in Worker : BadSwitch(w)
         \/ \E f \in Fiber : EpollThrow(f)
         \/ EpollStale

(* The program has ended, or waits for the next addTask or event.          *)
Quiet == /\ \/ fault # "none"
            \/ tasks = <<>> /\ \A t \in Thread : pc[t] = "idle"
         /\ UNCHANGED vars

(* A step of a program whose behaviour is still defined.                   *)
Sound == fault = "none" /\ raced' = (raced \/ Racing) /\ UNCHANGED fault

Next == \/ fault = "none" /\ Proceed /\ Sound
        \/ fault = "none" /\ Break /\ UNCHANGED raced
        \/ Quiet

Safety == Init /\ [][Next]_vars

YieldBegins(w) == YieldTest(w) /\ pc'[w] = "yield"

(* The threads that are able to run do, and a job returns, throws or waits *)
(* for I/O sooner or later.                                                *)
Fairness ==
    /\ \A t \in Thread : WF_vars((Reuse(t) \/ Create(t) \/ Register(t) \/ Enqueue(t)) /\ Sound)
    /\ \A w \in Worker :
          /\ WF_vars((Pop(w) \/ Start(w) \/ ResumeTest(w) \/ ResumeClaim(w) \/ SwitchIn(w)) /\ Sound)
          /\ WF_vars((Return(w) \/ Throw(w) \/ YieldBegins(w)) /\ Sound)
          /\ WF_vars((YieldHold(w) \/ YieldSwitch(w) \/ Exit(w) \/ Terminate(w) \/ Leave(w)) /\ Sound)

Spec == Safety /\ Fairness

-----------------------------------------------------------------------------
Queued(f) == {i \in 1..Len(tasks) : tasks[i] = [op |-> "start", fid |-> f]}
Held == {hand[t] : t \in {u \in Thread : pc[u] \in {"reuse", "register"}}}
Free == Range(freeFibers)

(* Every fiber ever created is in exactly one place: registered, free for  *)
(* reuse, or in the hand of one addTask.                                   *)
OnePlace ==
    /\ registry \cup Free \cup Held = 1..lastId
    /\ registry \cap (Free \cup Held) = {}
    /\ Free \cap Held = {}
    /\ \A i, j \in 1..Len(freeFibers) : freeFibers[i] = freeFibers[j] => i = j
    /\ \A t, u \in Thread :
          pc[t] \in {"reuse", "register"} /\ pc[u] \in {"reuse", "register"}
             /\ hand[t] = hand[u] => t = u

(* A fiber that is still to enter its job, is inside it, or waits in it.   *)
Alive(f) == \/ firstIn[f]
            \/ \E w \in Worker : OnStack(w) /\ pc[w] \notin {"tail", "leave"} /\ cur[w] = f
            \/ saved[f] = "yield"

(* addTask and exit lose no fiber, register none that is free and hand     *)
(* none to two callers; and the fibers that stay registered although their *)
(* job is over, never to be used again, are those whose job threw, all of  *)
(* them and no others.                                                     *)
FiberAccounted ==
    /\ OnePlace
    /\ \A f \in registry : Alive(f) \/ job[f] \in failed
    /\ \A f \in 1..lastId : job[f] \in failed => f \in registry /\ ~firstIn[f]

(* The places that will make a fiber enter its job for the first time.     *)
Adding(f) == {t \in Thread : pc[t] \in {"register", "enqueue"} /\ hand[t] = f}
Entering(f) == {w \in Worker : pc[w] \in {"start", "switch"} /\ cur[w] = f /\ firstIn[f]}

(* A job that addTask has stored is not lost and not entered twice: until  *)
(* it is entered some fiber holds it and exactly one addTask, start task   *)
(* or worker will enter that fiber; once it is entered there is none.      *)
JobEnteredOnce ==
    /\ \A n \in 1..submitted : n \in started \/ \E f \in 1..lastId : job[f] = n
    /\ \A f \in 1..lastId :
          IF job[f] \in started
          THEN Queued(f) = {} /\ Adding(f) = {} /\ Entering(f) = {}
          ELSE Cardinality(Queued(f)) + Cardinality(Adding(f)) + Cardinality(Entering(f)) = 1

(* Only one thread at a time executes on the stack of a fiber, and a       *)
(* thread continues a fiber only where the fiber left its stack, unless    *)
(* addTask or resume has met the fiber inside one of the two windows.      *)
OneThreadPerStack == fault = "stack" => raced

(* The fiber that a worker executes has m_state EXEC, so that its yield    *)
(* waits and a resume of it is refused.                                    *)
ExecutingIsExec == \A w \in Worker : pc[w] \in UserPC \cup {"yield"} => state[cur[w]] = "EXEC"

(* A fiber on HOLD can be resumed: its context has been saved.             *)
HoldIsSaved ==
    \A f \in Fiber : state[f] = "HOLD" =>
        \/ saved[f] = "yield"
        \/ \E w \in Worker : pc[w] = "hold" /\ cur[w] = f

(* m_state tells the truth about the stack, whatever order resume, yield,  *)
(* start and exit come in, as long as neither window has been met.         *)
StateMatchesStack == raced \/ (ExecutingIsExec /\ HoldIsSaved)

(* An event never finds its fiber gone.                                    *)
EventsFindTheirFiber == fault \notin {"terminate", "stale"}

(* Every job given to addTask is entered, unless the process ends before.  *)
EveryJobStarts == \A n \in Job : submitted >= n ~> n \in started \/ fault # "none"
=============================================================================
