------------------------------- MODULE Timer --------------------------------
(***************************************************************************)
(* The timer of mjber/timer.h: a map from due times to tasks under         *)
(* map_mutex, and a thread that takes every task that is due, runs them    *)
(* with the mutex released and sleeps for v.  addTask reads the clock      *)
(* before it takes the mutex.  The clock is finer than a millisecond, and  *)
(* duration_cast cuts what it reads down to whole milliseconds.            *)
(*                                                                         *)
(* A system_clock that is set back is not modelled.                        *)
(***************************************************************************)
EXTENDS Naturals, Sequences, FiniteSets

CONSTANTS Caller,    \* threads that call addTask
          V,         \* v, the interval of the thread
          Parts,     \* bound: the steps of the clock in a millisecond
          Delay,     \* the delays callers ask for
          MaxTask,   \* bound: number of addTask calls
          MaxTime    \* bound: the clock stops here

ASSUME TimerAssumption == V \in Nat \ {0} /\ Parts \in Nat \ {0}
                          /\ Delay \subseteq Nat /\ MaxTask \in Nat /\ MaxTime \in Nat

VARIABLES now,       \* the milliseconds of the clock
          part,      \* what it is past the millisecond
          aborted,   \* ~Timer has called std::terminate
          tasks,     \* the map: due time -> task
          adding,    \* the task each caller is inserting, and its due time
          c_time,    \* the time the thread read in this round
          temp,      \* the tasks it has taken and not yet run
          tpc,       \* the thread: "clock", "look", "run" or "sleep"
          wakeAt,
          asked,     \* history: when each task was asked for, and its delay
          ran,       \* history: the tasks that were run, with the time
          replaced   \* history: tasks whose entry was overwritten

clock == <<now, part>>
thread == <<c_time, temp, tpc, wakeAt, ran>>
vars == <<clock, aborted, tasks, adding, asked, replaced, thread>>

Task == 1..Len(asked)
None == [task |-> 0, due |-> 0]
Due == 0..(MaxTime + V)

Part == 0..(Parts - 1)
Epoch == [at |-> 0, part |-> 0]
TypeOK == /\ now \in 0..MaxTime
          /\ part \in Part
          /\ aborted \in BOOLEAN
          /\ DOMAIN tasks \subseteq Due
          /\ \A k \in DOMAIN tasks : tasks[k] \in Task
          /\ adding \in [Caller -> [task : 0..Len(asked), due : Due]]
          /\ c_time \in 0..now
          /\ temp \in Seq(Task)
          /\ tpc \in {"clock", "look", "run", "sleep"}
          /\ wakeAt \in [at : Due, part : Part]
          /\ asked \in Seq([at : 0..MaxTime, part : Part, delay : Delay])
          /\ ran \in Seq([task : Task, at : 0..MaxTime, part : Part])
          /\ replaced \subseteq Task

Init == /\ now = 0 /\ part = 0
        /\ aborted = FALSE
        /\ tasks = <<>>
        /\ adding = [c \in Caller |-> None]
        /\ c_time = 0
        /\ temp = <<>>
        /\ tpc = "clock"
        /\ wakeAt = Epoch
        /\ asked = <<>>
        /\ ran = <<>>
        /\ replaced = {}

Tick == /\ now < MaxTime
        /\ \/ part < Parts - 1 /\ part' = part + 1 /\ UNCHANGED now
           \/ part = Parts - 1 /\ part' = 0 /\ now' = now + 1
        /\ UNCHANGED <<aborted, tasks, adding, asked, replaced, thread>>

Later(a, b) == a.at > b.at \/ (a.at = b.at /\ a.part >= b.part)
-----------------------------------------------------------------------------
(* addTask rounds the delay to a greater multiple of v, and adds it to the *)
(* milliseconds the clock shows, cut down; then it puts the task into the  *)
(* map, where another task with the same due time is overwritten.          *)
(* Mutant: a multiple of v is left as it is.                               *)
RoundedUpOnly(w) == IF w <= V THEN V ELSE ((w - 1) \div V) * V + V
Rounded(w) == IF w <= V THEN V ELSE (w \div V) * V + V

addTask(c) == /\ adding[c] = None
              /\ Len(asked) < MaxTask
              /\ \E w \in Delay :
                    /\ now + Rounded(w) <= MaxTime
                    /\ asked' = Append(asked, [at |-> now, part |-> part, delay |-> w])
                    /\ adding' = [adding EXCEPT ![c] = [task |-> Len(asked) + 1, due |-> now + Rounded(w)]]
              /\ UNCHANGED <<clock, aborted, tasks, replaced, thread>>

(* Mutant: the map has one place for each interval of the thread.          *)
Put(t, due) == /\ tasks' = [k \in DOMAIN tasks \cup {due} |-> IF k = due THEN t ELSE tasks[k]]
               /\ replaced' = IF due \in DOMAIN tasks THEN replaced \cup {tasks[due]} ELSE replaced

InsertByInterval(c) == /\ adding[c] # None
                       /\ Put(adding[c].task, (adding[c].due \div V) * V)
                       /\ adding' = [adding EXCEPT ![c] = None]
                       /\ UNCHANGED <<clock, aborted, asked, thread>>

Insert(c) == /\ adding[c] # None
             /\ Put(adding[c].task, adding[c].due)
             /\ adding' = [adding EXCEPT ![c] = None]
             /\ UNCHANGED <<clock, aborted, asked, thread>>

(* myFunc: the clock is read; then, under the mutex, every task that is    *)
(* due by that time is moved to temp, in the order of the map.             *)
(* Mutant: only the tasks due at that very time are.                       *)
ReadClock == /\ tpc = "clock"
             /\ c_time' = now
             /\ tpc' = "look"
             /\ UNCHANGED <<clock, aborted, tasks, adding, asked, replaced, temp, wakeAt, ran>>

RipeNow == {k \in DOMAIN tasks : k = c_time}
Ripe == {k \in DOMAIN tasks : k <= c_time}

InOrder(S) == [i \in 1..Cardinality(S) |->
                 CHOOSE k \in S : Cardinality({j \in S : j <= k}) = i]
Look == /\ tpc = "look"
        /\ temp' = [i \in 1..Cardinality(Ripe) |-> tasks[InOrder(Ripe)[i]]]
        /\ tasks' = [k \in DOMAIN tasks \ Ripe |-> tasks[k]]
        /\ tpc' = "run"
        /\ UNCHANGED <<clock, aborted, adding, asked, replaced, c_time, wakeAt, ran>>

Run == /\ tpc = "run" /\ temp # <<>>
       /\ ran' = Append(ran, [task |-> Head(temp), at |-> now, part |-> part])
       /\ temp' = Tail(temp)
       /\ UNCHANGED <<clock, aborted, tasks, adding, asked, replaced, c_time, tpc, wakeAt>>

(* sleep_for(v); c_time and temp end with the round.  Mutant: it sleeps    *)
(* twice as long.                                                          *)
SleepTwice == /\ tpc = "run" /\ temp = <<>>
              /\ tpc' = "sleep"
              /\ wakeAt' = [at |-> now + 2 * V, part |-> part]
              /\ c_time' = 0
              /\ UNCHANGED <<clock, aborted, tasks, adding, asked, replaced, temp, ran>>

Sleep == /\ tpc = "run" /\ temp = <<>>
         /\ tpc' = "sleep"
         /\ wakeAt' = [at |-> now + V, part |-> part]
         /\ c_time' = 0
         /\ UNCHANGED <<clock, aborted, tasks, adding, asked, replaced, temp, ran>>

(* sleep_for sleeps at least that long; at the bound of the clock it ends. *)
Wake == /\ tpc = "sleep"
        /\ Later([at |-> now, part |-> part], wakeAt) \/ now = MaxTime
        /\ tpc' = "clock"
        /\ wakeAt' = Epoch
        /\ UNCHANGED <<clock, aborted, tasks, adding, asked, replaced, c_time, temp, ran>>

(* ~Timer: the thread is neither joined nor detached, so the destructor of *)
(* worker calls std::terminate, whether the last pointer is dropped or the *)
(* program exits.                                                          *)
Destroy == aborted' = TRUE /\ UNCHANGED <<clock, tasks, adding, asked, replaced, thread>>

Thread == ReadClock \/ Look \/ Run \/ Sleep \/ Wake
Next == /\ ~aborted
        /\ \/ Tick \/ Thread \/ Destroy
           \/ \E c \in Caller : addTask(c) \/ Insert(c)

(* The clock and the thread go on, and a caller leaves addTask.            *)
Spec == /\ Init /\ [][Next]_vars
        /\ WF_vars(~aborted /\ Tick) /\ WF_vars(~aborted /\ Thread)
        /\ \A c \in Caller : WF_vars(~aborted /\ Insert(c))
-----------------------------------------------------------------------------
Ran == {ran[i].task : i \in 1..Len(ran)}

(* No task runs before the delay its caller asked for has passed, although *)
(* both readings of the clock are cut down to milliseconds and the caller  *)
(* may be late with the map (timer.h:41-42, 54-58, 73, 82): a delay other  *)
(* than v is made longer by a millisecond at least.  A delay of v is not   *)
(* and may end early, by less than a millisecond.                          *)
NeverEarly == \A i \in 1..Len(ran) :
    LET a == asked[ran[i].task]
        end == a.at + a.delay
    IN  \/ Later(ran[i], [at |-> end, part |-> a.part])
        \/ a.delay = V /\ Later(ran[i], [at |-> end, part |-> 0])

(* A task is in one place: being added, in the map, taken by the thread,   *)
(* run, or overwritten by a task with the same due time; and it runs at    *)
(* most once (timer.h:62, 83-93).                                          *)
Places(t) == Cardinality({c \in Caller : adding[c].task = t})
               + Cardinality({k \in DOMAIN tasks : tasks[k] = t})
               + Cardinality({i \in 1..Len(temp) : temp[i] = t})
               + Cardinality({i \in 1..Len(ran) : ran[i].task = t})
               + Cardinality({t} \cap replaced)
OnePlaceEach == \A t \in Task : Places(t) = 1

(* Tasks are overwritten only by those that fall due at the same time, by  *)
(* however different delays, and one of them is always left (timer.h:62).  *)
DueOf(t) == asked[t].at + Rounded(asked[t].delay)
OneOfEachDueLeft == \A t \in replaced : \E u \in Task \ replaced : DueOf(t) = DueOf(u)

(* No task is lost for another reason, and none runs twice.                *)
TasksAccounted == OnePlaceEach /\ OneOfEachDueLeft

(* Every other task runs, unless the timer is destroyed first              *)
(* (timer.h:20, 69-97).                                                    *)
EveryTaskRuns == \A t \in 1..MaxTask : t \in Task ~> t \in Ran \cup replaced \/ aborted
=============================================================================
