-------------------------- MODULE EventLoopProofs ---------------------------
(***************************************************************************)
(* Proofs about EventLoop (mjber/scheduler.h, mjber/socket_wrapper.h), for *)
(* any number of fibers, descriptors, sockets and arrivals:                *)
(*                                                                         *)
(*   a wait is answered once, until a connection is reset;                 *)
(*   EpollRegitry agrees with the epoll set, but for the fibers whose      *)
(*   descriptor had been closed and not yet passed to rmEvent when its     *)
(*   number was given out again, and for writers that wait twice.          *)
(*                                                                         *)
(* Nothing is assumed of the number of workers.                            *)
(***************************************************************************)
EXTENDS EventLoop, FiniteSetTheorems, TLAPS

-----------------------------------------------------------------------------
(* Types.                                                                  *)

(* What TypeOK needs to be inductive: a job past its start has a socket,   *)
(* and what is available on one has arrived, but for the room in a new     *)
(* send buffer.                                                            *)
Based == /\ \A f \in Fiber : pc[f] # "none" => fd[f] \in Fd
         /\ \A d \in Fd : avail[d] <= arrived + 1

TypeInv == TypeOK /\ Based

USE DEF Fd, NoFd

LEMMA TypeInvInit == Init => TypeInv
<1> SUFFICES ASSUME Init PROVE TypeInv
    OBVIOUS
<1>1. early \subseteq Fiber /\ dropped \subseteq Fiber /\ hung \in BOOLEAN
    BY Zenon DEF Init
<1> QED BY <1>1, EventLoopAssumption DEF EventLoopAssumption, Init, TypeInv, TypeOK, Based, RunningPC

(* What epoll_wait reports are flags of events, never the trigger mode.    *)
LEMMA ReventsAreFlags ==
    ASSUME NEW e \in interest
    PROVE  Revents(e) \subseteq Flag
BY DEF Revents, Level, Direction, Flag

(* addTask and the calls of a job keep the types.                          *)
LEMMA TypeInvJob ==
    ASSUME TypeInv, NEW f \in Fiber,
           Open(f) \/ Job(f) \/ AcceptFails(f) \/ Finish(f)
    PROVE  TypeInv'
<1> USE EventLoopAssumption DEF EventLoopAssumption, TypeInv, TypeOK, Based, RunningPC,
        fiberVars, kernelVars, netVars, loopVars, historyVars
<1>1. CASE Open(f)
    BY <1>1 DEF Open
<1>2. CASE Call(f)
    <2>1. /\ \E p \in {"call", "close", "add"} : pc' = [pc EXCEPT ![f] = p]
          /\ \/ UNCHANGED avail
             \/ avail[fd[f]] > 0 /\ avail' = [avail EXCEPT ![fd[f]] = @ - 1]
          /\ pc[f] = "call"
          /\ UNCHANGED <<fd, opened, type, EpollRegitry, interest, edge, peer, arrived, polled, pending,
                         early, dropped, hung>>
        <3>1. pc = [pc EXCEPT ![f] = "call"]
            BY <1>2 DEF Call
        <3> QED BY <1>2, <3>1 DEF Call
    <2>2. fd[f] \in Fd
        BY <2>1
    <2>3. CASE avail[fd[f]] > 0 /\ avail' = [avail EXCEPT ![fd[f]] = @ - 1]
        <3>1. avail[fd[f]] - 1 \in 0..MaxArrive + 1 /\ avail[fd[f]] - 1 <= arrived + 1
            BY <2>2, <2>3
        <3> QED BY <2>1, <2>2, <2>3, <3>1
    <2>4. CASE UNCHANGED avail
        BY <2>1, <2>4
    <2> QED BY <2>1, <2>3, <2>4
<1>3. CASE AddEvent(f)
    <2>1. fd[f] \in Fd /\ pc[f] = "add"
        BY <1>3 DEF AddEvent
    <2>2. Asked(f) \subseteq Flag /\ Recorded(f, Asked(f)) \in {"READ", "WRITE", "NONE"}
        BY DEF Asked, Recorded, Flag
    <2>3. [fd |-> fd[f], fid |-> f, ev |-> Asked(f)] \in Entry
        BY <2>1, <2>2 DEF Entry
    <2>4. \/ UNCHANGED <<interest, edge, EpollRegitry>>
          \/ /\ interest' = interest \cup {[fd |-> fd[f], fid |-> f, ev |-> Asked(f)]}
             /\ edge' = edge \cup {fd[f]}
             /\ EpollRegitry' = [EpollRegitry EXCEPT ![fd[f]] = @ \cup Asked(f)]
        BY <1>3, Zenon DEF AddEvent
    <2>5. /\ interest' \in SUBSET Entry
          /\ edge' \in SUBSET Fd
          /\ EpollRegitry' \in [Fd -> SUBSET Flag]
        <3>1. EpollRegitry[fd[f]] \cup Asked(f) \in SUBSET Flag
            BY <2>1, <2>2
        <3>2. [EpollRegitry EXCEPT ![fd[f]] = @ \cup Asked(f)] \in [Fd -> SUBSET Flag]
            BY <3>1
        <3>3. edge \cup {fd[f]} \in SUBSET Fd
            BY <2>1
        <3>4. interest \cup {[fd |-> fd[f], fid |-> f, ev |-> Asked(f)]} \in SUBSET Entry
            BY <2>3
        <3> HIDE DEF TypeInv
        <3>5. TypeOK
            BY DEF TypeInv
        <3>6. CASE UNCHANGED <<interest, edge, EpollRegitry>>
            BY <3>5, <3>6
        <3> QED BY <2>4, <3>2, <3>3, <3>4, <3>6
    <2>6. type' \in [Fiber -> {"READ", "WRITE", "NONE"}]
        BY <1>3, <2>2 DEF AddEvent
    <2>7. \E p \in {"yield", "refused"} : pc' = [pc EXCEPT ![f] = p]
        BY <1>3 DEF AddEvent
    <2>8. UNCHANGED <<fd, opened, avail, peer, arrived, polled, pending, early, hung>>
        BY <1>3 DEF AddEvent
    <2>9. dropped' \subseteq Fiber
        BY <1>3 DEF AddEvent
    <2> QED BY <2>1, <2>5, <2>6, <2>7, <2>8, <2>9
<1>4. CASE Yield(f)
    BY <1>4 DEF Yield
<1>5. CASE CloseSocket(f)
    <2>1. fd[f] \in Fd /\ arrived \in Nat
        BY <1>5 DEF CloseSocket
    <2>2. avail' \in [Fd -> 0..MaxArrive + 1] /\ \A d \in Fd : avail'[d] <= arrived + 1
        BY <1>5, <2>1 DEF CloseSocket
    <2>3. interest' \in SUBSET Entry
        BY <1>5 DEF CloseSocket
    <2> QED BY <1>5, <2>1, <2>2, <2>3 DEF CloseSocket
<1>6. CASE RmEvent(f)
    BY <1>6 DEF RmEvent
<1>7. CASE AcceptFails(f)
    BY <1>7 DEF AcceptFails
<1>8. CASE Finish(f)
    BY <1>8 DEF Finish
<1> QED BY <1>1, <1>2, <1>3, <1>4, <1>5, <1>6, <1>7, <1>8 DEF Job

(* So do the pool's worker, the epoll thread and the network.              *)
LEMMA TypeInvLoop ==
    ASSUME TypeInv,
           \/ \E f \in Fiber : Resume(f) \/ Hangup(f)
           \/ EpollWait
           \/ \E r \in polled : Handle(r)
           \/ \E d \in OpenFds : Arrive(d)
    PROVE  TypeInv'
<1> USE EventLoopAssumption DEF EventLoopAssumption, TypeInv, TypeOK, Based, RunningPC,
        fiberVars, kernelVars, netVars, loopVars, historyVars
<1>1. ASSUME NEW f \in Fiber, Resume(f) PROVE TypeInv'
    BY <1>1 DEF Resume
<1>2. ASSUME NEW f \in Fiber, Hangup(f) PROVE TypeInv'
    <2>1. fd[f] \in Fd
        BY <1>2 DEF Hangup, IsOpen
    <2>2. peer' \in [Fd -> {"up", "eof", "hup"}]
        BY <1>2, <2>1 DEF Hangup
    <2>3. edge' \in SUBSET Fd
        BY <1>2, <2>1 DEF Hangup
    <2> QED BY <1>2, <2>2, <2>3 DEF Hangup
<1>3. CASE EpollWait
    <2>1. polled' \in SUBSET Event
        BY <1>3, ReventsAreFlags DEF EpollWait, Deliverable, Entry, Event
    <2> QED BY <1>3, <2>1 DEF EpollWait
<1>4. ASSUME NEW r \in polled, Handle(r) PROVE TypeInv'
    <2>1. r.fid \in Fiber
        BY DEF Event
    <2>2. Enqueued(r.fid) \in 0..MaxWake
        BY <2>1 DEF Enqueued
    <2> QED BY <1>4, <2>1, <2>2 DEF Handle
<1>5. ASSUME NEW d \in OpenFds, Arrive(d) PROVE TypeInv'
    <2>1. d \in Fd
        BY DEF OpenFds, IsOpen
    <2> QED BY <1>5, <2>1 DEF Arrive
<1> QED BY <1>1, <1>2, <1>3, <1>4, <1>5

LEMMA TypeInvStep == TypeInv /\ [Next]_vars => TypeInv'
<1> SUFFICES ASSUME TypeInv, [Next]_vars PROVE TypeInv'
    OBVIOUS
<1>1. CASE UNCHANGED vars
    BY <1>1 DEF TypeInv, TypeOK, Based, vars, fiberVars, kernelVars, netVars, loopVars, historyVars
<1> QED BY <1>1, TypeInvJob, TypeInvLoop DEF Next, HandleNext, Quiet

LEMMA TypeInvAlways == Safety => []TypeInv
BY TypeInvInit, TypeInvStep, PTL DEF Safety

(* Every variable of the event loop keeps its type: no resume task is      *)
(* taken that was not queued, and a registered descriptor is one.          *)
THEOREM TypeCorrect == Safety => []TypeOK
<1>1. TypeInv => TypeOK
    BY DEF TypeInv
<1> QED BY <1>1, TypeInvAlways, PTL

-----------------------------------------------------------------------------
(* A wait is answered once.                                                *)

(* No connection has been reset, and no report says so.                    *)
Calm == /\ \A d \in Fd : peer[d] # "hup"
        /\ \A r \in polled : "HUP" \notin r.ev /\ "ERR" \notin r.ev

(* OneWakePerWait for one fiber, without arithmetic.                       *)
OneWake(f) == IF pc[f] \in {"yield", "held"}
              THEN pending[f] = 0 \/ (pending[f] = 1 /\ type[f] = "NONE")
              ELSE pending[f] = 0 /\ type[f] = "NONE"

Answered == Calm /\ \A f \in Fiber : OneWake(f)

WakeInv == TypeInv /\ (hung \/ Answered)

LEMMA OneWakeMeans == WakeInv => OneWakePerWait
<1> SUFFICES ASSUME TypeInv, Answered, NEW f \in Fiber
             PROVE  pending[f] + (IF type[f] = "NONE" THEN 0 ELSE 1)
                       <= (IF pc[f] \in {"yield", "held"} THEN 1 ELSE 0)
    BY DEF OneWakePerWait, WakeInv
<1>1. OneWake(f)
    BY DEF Answered
<1>2. CASE pc[f] \in {"yield", "held"}
    <2>1. pending[f] + (IF type[f] = "NONE" THEN 0 ELSE 1) <= 1
        BY <1>1, <1>2 DEF OneWake
    <2> QED BY <1>2, <2>1
<1>3. CASE pc[f] \notin {"yield", "held"}
    BY <1>1, <1>3 DEF OneWake
<1> QED BY <1>2, <1>3

LEMMA WakeInvInit == Init => WakeInv
BY TypeInvInit DEF Init, WakeInv, Answered, Calm, OneWake

(* The kernel reports hang-ups and errors only of a connection that has.   *)
LEMMA CalmReports ==
    ASSUME TypeInv, Calm, NEW e \in interest
    PROVE  "HUP" \notin Revents(e) /\ "ERR" \notin Revents(e)
<1>1. ASSUME NEW f \in Fiber, IsOpen(f), NEW x \in {"HUP", "ERR"} PROVE x \notin Level(f)
    <2>1. fd[f] \in Fd
        BY <1>1 DEF TypeInv, TypeOK, IsOpen
    <2>2. peer[fd[f]] # "hup"
        BY <2>1 DEF Calm
    <2> QED BY <2>2 DEF Level, Direction
<1> QED BY <1>1 DEF Revents

LEMMA AnsweredStep ==
    ASSUME TypeInv, Answered, [Next]_vars, ~hung'
    PROVE  Calm' /\ \A g \in Fiber : OneWake(g)'
<1> USE EventLoopAssumption DEF EventLoopAssumption, fiberVars, kernelVars, netVars, loopVars, historyVars
<1>0. TypeOK
    BY DEF TypeInv
<1>1. ASSUME NEW f \in Fiber, Open(f) \/ Job(f) \/ AcceptFails(f) \/ Finish(f)
      PROVE  Calm' /\ \A g \in Fiber : OneWake(g)'
    <2>1. Calm'
        <3>1. UNCHANGED polled
            BY <1>1 DEF Open, Job, Call, AddEvent, Yield, CloseSocket, RmEvent, AcceptFails, Finish
        <3>2. UNCHANGED peer \/ peer' = [peer EXCEPT ![fd[f]] = "up"]
            BY <1>1 DEF Open, Job, Call, AddEvent, Yield, CloseSocket, RmEvent, AcceptFails, Finish
        <3> QED BY <1>0, <3>1, <3>2 DEF Answered, Calm, TypeOK
    <2>2. UNCHANGED pending
        BY <1>1 DEF Open, Job, Call, AddEvent, Yield, CloseSocket, RmEvent, AcceptFails, Finish
    <2>3. ASSUME NEW g \in Fiber, g # f PROVE OneWake(g)'
        <3>1. pc'[g] = pc[g] /\ type'[g] = type[g]
            BY <1>0, <1>1, <2>3 DEF TypeOK, Open, Job, Call, AddEvent, Yield, CloseSocket,
               RmEvent, AcceptFails, Finish
        <3> QED BY <2>2, <3>1 DEF Answered, OneWake
    <2>4. CASE AddEvent(f)
        <3>1. pending[f] = 0 /\ type[f] = "NONE"
            BY <2>4 DEF AddEvent, Answered, OneWake
        <3>2. \/ pc' = [pc EXCEPT ![f] = "yield"]
              \/ (pc' = [pc EXCEPT ![f] = "refused"] /\ UNCHANGED type)
            BY <2>4 DEF AddEvent
        <3>3. pc'[f] = "yield" \/ (pc'[f] = "refused" /\ type'[f] = "NONE")
            BY <1>0, <3>1, <3>2 DEF TypeOK
        <3>4. OneWake(f)'
            BY <2>2, <3>1, <3>3 DEF OneWake
        <3> QED BY <2>1, <2>3, <3>4
    <2>5. CASE Yield(f)
        BY <1>0, <2>1, <2>2, <2>3, <2>5 DEF Yield, TypeOK, OneWake, Answered
    <2>6. CASE Open(f) \/ Call(f) \/ CloseSocket(f) \/ RmEvent(f) \/ AcceptFails(f) \/ Finish(f)
        <3>1. pc[f] \notin {"yield", "held"} /\ pc'[f] \notin {"yield", "held"}
            BY <1>0, <2>6 DEF TypeOK, Open, Call, CloseSocket, RmEvent, AcceptFails, Finish
        <3>2. pending[f] = 0 /\ type[f] = "NONE"
            BY <3>1 DEF Answered, OneWake
        <3>3. type'[f] = "NONE"
            BY <1>0, <2>6, <3>2 DEF TypeOK, Open, Call, CloseSocket, RmEvent, AcceptFails, Finish
        <3> QED BY <2>1, <2>2, <2>3, <3>1, <3>2, <3>3 DEF OneWake
    <2> QED BY <1>1, <2>4, <2>5, <2>6 DEF Job
<1>2. ASSUME NEW f \in Fiber, Resume(f) PROVE Calm' /\ \A g \in Fiber : OneWake(g)'
    <2>1. pending[f] = 1 /\ type[f] = "NONE" /\ pc[f] \in {"yield", "held"}
        BY <1>0, <1>2 DEF Resume, Answered, OneWake, TypeOK
    <2>2. pending' = [pending EXCEPT ![f] = 0] /\ UNCHANGED <<type, peer, polled>>
        BY <1>2, <2>1 DEF Resume
    <2>3. UNCHANGED pc \/ pc' = [pc EXCEPT ![f] = "call"]
        BY <1>2 DEF Resume
    <2>4. ASSUME NEW g \in Fiber, g # f PROVE OneWake(g)'
        BY <1>0, <2>2, <2>3, <2>4 DEF OneWake, Answered, TypeOK
    <2>5. OneWake(f)'
        BY <1>0, <2>1, <2>2, <2>3 DEF OneWake, TypeOK
    <2> QED BY <2>2, <2>4, <2>5 DEF Answered, Calm
<1>3. CASE EpollWait
    <2>1. UNCHANGED <<pc, type, peer, pending>>
        BY <1>3 DEF EpollWait
    <2>2. Calm'
        BY <1>3, <2>1, CalmReports DEF EpollWait, Deliverable, Calm, Answered
    <2> QED BY <2>1, <2>2 DEF Answered, OneWake
<1>4. ASSUME NEW r \in polled, Handle(r) PROVE Calm' /\ \A g \in Fiber : OneWake(g)'
    <2>1. r.fid \in Fiber
        BY <1>0 DEF TypeOK, Event
    <2>2. Calm'
        BY <1>4 DEF Handle, Answered, Calm
    <2>3. CASE Wakes(r)
        <3>1. type[r.fid] # "NONE"
            BY <2>3 DEF Wakes, Answered, Calm
        <3>2. pending[r.fid] = 0 /\ pc[r.fid] \in {"yield", "held"}
            BY <2>1, <3>1 DEF Answered, OneWake
        <3>3. Enqueued(r.fid) = 1
            BY <3>2 DEF Enqueued
        <3>4. /\ type' = [type EXCEPT ![r.fid] = "NONE"]
              /\ pending' = [pending EXCEPT ![r.fid] = 1]
              /\ UNCHANGED pc
            BY <1>4, <2>3, <3>3 DEF Handle
        <3> QED BY <1>0, <2>1, <2>2, <3>2, <3>4 DEF TypeOK, OneWake, Answered
    <2>4. CASE ~Wakes(r)
        BY <1>4, <2>2, <2>4 DEF Handle, Answered, OneWake
    <2> QED BY <2>3, <2>4
<1>5. ASSUME NEW d \in OpenFds, Arrive(d) PROVE Calm' /\ \A g \in Fiber : OneWake(g)'
    BY <1>5 DEF Arrive, Answered, Calm, OneWake
<1>6. ASSUME NEW f \in Fiber, Hangup(f) PROVE Calm' /\ \A g \in Fiber : OneWake(g)'
    <2>1. peer' = [peer EXCEPT ![fd[f]] = "eof"]
        BY <1>6 DEF Hangup
    <2> QED BY <1>0, <1>6, <2>1 DEF Hangup, Answered, Calm, OneWake, TypeOK
<1>7. CASE UNCHANGED vars
    BY <1>7 DEF vars, Answered, Calm, OneWake
<1> QED BY <1>1, <1>2, <1>3, <1>4, <1>5, <1>6, <1>7 DEF Next, HandleNext, Quiet

LEMMA WakeInvStep == WakeInv /\ [Next]_vars => WakeInv'
<1> SUFFICES ASSUME WakeInv, [Next]_vars, ~hung' PROVE Answered'
    BY TypeInvStep DEF WakeInv
<1>1. hung = hung' \/ \E f \in Fiber : Hangup(f)
    BY DEF Next, Job, Open, Call, AddEvent, Yield, CloseSocket, RmEvent, AcceptFails, Finish, Resume,
           EpollWait, HandleNext, Handle, Arrive, Quiet, vars, historyVars
<1>2. ~hung
    BY <1>1 DEF Hangup
<1> QED BY <1>2, AnsweredStep DEF WakeInv, Answered

(* On any number of workers, and until a connection is reset, a fiber     *)
(* waits for an event or has one resume task on its way, never both, and   *)
(* neither unless it is between addEvent and its next call: run            *)
(* (scheduler.h:297-332) queues no resume task that an earlier wait leaves *)
(* to a later one.                                                         *)
THEOREM WaitsAnsweredOnce == Safety => []OneWakePerWait
<1>1. Safety => []WakeInv
    BY WakeInvInit, WakeInvStep, PTL DEF Safety
<1> QED BY <1>1, OneWakeMeans, PTL

-----------------------------------------------------------------------------
(* EpollRegitry agrees with the epoll set.                                 *)

Watched(f) == \E e \in interest : e.fd = fd[f] /\ e.fid = f

(* An open descriptor has one holder, and nobody else has still to call    *)
(* rmEvent for its number, unless the number came early.                   *)
Unshared ==
    /\ \A f \in Fiber : IF pc[f] = "none" THEN fd[f] = NoFd ELSE fd[f] \in Fd
    /\ \A f, g \in Fiber : IsOpen(f) /\ IsOpen(g) /\ fd[f] = fd[g] => f = g
    /\ \A f, g \in Fiber : IsOpen(f) /\ f \notin early /\ fd[f] = fd[g] => f = g

(* The two tables: what the kernel watches belongs to the holder of the    *)
(* descriptor, what is registered has a holder, and the two agree about a  *)
(* descriptor that did not come early.                                     *)
Tables ==
    /\ \A e \in interest : IsOpen(e.fid) /\ fd[e.fid] = e.fd
    /\ \A e \in interest : e.fid \notin early /\ Role[e.fid] # "write" => "IN" \in EpollRegitry[e.fd]
    /\ \A d \in Fd : "IN" \in EpollRegitry[d] => \E f \in Fiber : fd[f] = d
    /\ \A f \in Fiber \ early : IsOpen(f) /\ "IN" \in EpollRegitry[fd[f]] => Watched(f)

(* A fiber that waits is watched, and addEvent is refused to no other      *)
(* fibers than those AddEventSucceeds names.                               *)
Waits == /\ \A f \in Fiber \ early : pc[f] \in {"yield", "held"} => Watched(f)
         /\ AddEventSucceeds

AgreeInv == TypeInv /\ Unshared /\ Tables /\ Waits

LEMMA AgreeMeans == AgreeInv => AddEventSucceeds /\ HeldIsWatched
BY DEF AgreeInv, Waits, Watched, HeldIsWatched

LEMMA AgreeInvInit == Init => AgreeInv
<1> SUFFICES ASSUME Init PROVE AgreeInv
    OBVIOUS
<1>1. Unshared
    BY DEF Init, Unshared, IsOpen
<1>2. Tables
    BY DEF Init, Tables, IsOpen
<1>3. Waits
    BY DEF Init, Waits, AddEventSucceeds
<1> QED BY <1>1, <1>2, <1>3, TypeInvInit DEF AgreeInv

(* Steps that leave the descriptors and the two tables alone, and open no  *)
(* job, keep the agreement if nobody new waits.                            *)
LEMMA AgreeInvKept ==
    ASSUME AgreeInv, TypeInv', UNCHANGED <<fd, interest, EpollRegitry, early>>,
           \A g \in Fiber :
              \/ pc'[g] = pc[g]
              \/ /\ pc[g] \in {"call", "yield", "held"}
                 /\ pc'[g] \notin {"none", "rm", "refused"}
                 /\ pc'[g] \in {"yield", "held"} => pc[g] \in {"yield", "held"}
    PROVE  AgreeInv'
<1>1. \A g \in Fiber : (IsOpen(g)' <=> IsOpen(g)) /\ (Watched(g)' <=> Watched(g))
    BY DEF IsOpen, Watched
<1>2. \A e \in interest : e.fid \in Fiber
    BY DEF AgreeInv, TypeInv, TypeOK, Entry
<1>3. Unshared'
    BY <1>1 DEF AgreeInv, Unshared
<1>4. Tables'
    BY <1>1, <1>2 DEF AgreeInv, Tables
<1>5. Waits'
    BY <1>1 DEF AgreeInv, Waits, AddEventSucceeds
<1> QED BY <1>3, <1>4, <1>5 DEF AgreeInv

(* Open gives out a number that no open socket has; early records whether  *)
(* some fiber has still to pass it to rmEvent.                             *)
LEMMA AgreeInvOpen ==
    ASSUME AgreeInv, TypeInv', NEW f \in Fiber, Open(f)
    PROVE  AgreeInv'
<1>1. PICK d \in Fd \ OpenFds :
         /\ fd' = [fd EXCEPT ![f] = d]
         /\ early' = IF \E g \in Fiber : fd[g] = d THEN early \cup {f} ELSE early \ {f}
    BY DEF Open
<1>2. /\ pc[f] = "none" /\ pc' = [pc EXCEPT ![f] = "call"]
      /\ UNCHANGED <<interest, EpollRegitry>>
    BY DEF Open, kernelVars
<1>3. /\ \A e \in interest : e.fid \in Fiber /\ e.fd \in Fd
      /\ pc'[f] = "call" /\ fd'[f] = d
      /\ \A g \in Fiber : g # f => pc'[g] = pc[g] /\ fd'[g] = fd[g] /\ (g \in early' <=> g \in early)
    BY <1>1, <1>2 DEF AgreeInv, TypeInv, TypeOK, Entry
<1>4. fd[f] = NoFd /\ ~IsOpen(f)
    BY <1>2 DEF AgreeInv, Unshared, IsOpen
<1>5. /\ \A g \in Fiber : IsOpen(g) => fd[g] # d
      /\ \A g \in Fiber : fd[g] = d => f \in early'
      /\ (\A g \in Fiber : fd[g] # d) => f \notin early'
    BY <1>1 DEF OpenFds
<1>6. \A g \in Fiber : g # f => (IsOpen(g)' <=> IsOpen(g)) /\ (Watched(g)' <=> Watched(g))
    BY <1>2, <1>3 DEF IsOpen, Watched
<1>7. Unshared'
    <2>1. \A g \in Fiber : IF pc'[g] = "none" THEN fd'[g] = NoFd ELSE fd'[g] \in Fd
        BY <1>1, <1>3 DEF AgreeInv, Unshared
    <2>2. \A g, h \in Fiber : IsOpen(g)' /\ IsOpen(h)' /\ fd'[g] = fd'[h] => g = h
        BY <1>3, <1>5, <1>6 DEF AgreeInv, Unshared
    <2>3. \A g, h \in Fiber : IsOpen(g)' /\ g \notin early' /\ fd'[g] = fd'[h] => g = h
        BY <1>3, <1>5, <1>6 DEF AgreeInv, Unshared
    <2> QED BY <2>1, <2>2, <2>3 DEF Unshared
<1>8. Tables'
    <2>1. \A e \in interest : e.fid # f
        BY <1>4 DEF AgreeInv, Tables
    <2>2. \A x \in Fd : "IN" \in EpollRegitry[x] => \E g \in Fiber : fd'[g] = x
        BY <1>3, <1>4 DEF AgreeInv, Tables
    <2>3. f \notin early' => "IN" \notin EpollRegitry[d]
        BY <1>1, <1>5 DEF AgreeInv, Tables
    <2>4. \A e \in interest' : IsOpen(e.fid)' /\ fd'[e.fid] = e.fd
        BY <1>2, <1>3, <1>6, <2>1 DEF AgreeInv, Tables
    <2>5. \A e \in interest' : e.fid \notin early' /\ Role[e.fid] # "write" => "IN" \in EpollRegitry'[e.fd]
        BY <1>2, <1>3, <2>1 DEF AgreeInv, Tables
    <2>6. \A g \in Fiber \ early' : IsOpen(g)' /\ "IN" \in EpollRegitry'[fd'[g]] => Watched(g)'
        BY <1>2, <1>3, <1>6, <2>3 DEF AgreeInv, Tables
    <2> QED BY <1>2, <2>2, <2>4, <2>5, <2>6 DEF Tables
<1>9. Waits'
    BY <1>3, <1>6 DEF AgreeInv, Waits, AddEventSucceeds
<1> QED BY <1>7, <1>8, <1>9 DEF AgreeInv

(* addEvent: whether or not the descriptor is registered already, its      *)
(* holder is watched afterwards.                                           *)
LEMMA AgreeInvAddEvent ==
    ASSUME AgreeInv, TypeInv', NEW f \in Fiber, AddEvent(f)
    PROVE  AgreeInv'
<1> DEFINE new == [fd |-> fd[f], fid |-> f, ev |-> Asked(f)]
<1>1. /\ pc[f] = "add" /\ fd[f] \in Fd /\ IsOpen(f)
      /\ UNCHANGED <<fd, early>>
    BY DEF AddEvent, AgreeInv, Unshared, IsOpen
<1>2. \A e \in interest : e.fid \in Fiber /\ e.fd \in Fd
    BY DEF AgreeInv, TypeInv, TypeOK, Entry
<1>3. /\ pc'[f] \in {"yield", "refused"}
      /\ \A g \in Fiber : g # f => pc'[g] = pc[g]
    BY DEF AddEvent, AgreeInv, TypeInv, TypeOK
<1>4. \A g \in Fiber : IsOpen(g)' <=> IsOpen(g)
    BY <1>1, <1>3 DEF IsOpen
<1>5. Unshared'
    BY <1>1, <1>3, <1>4 DEF AgreeInv, Unshared
<1>6. CASE "IN" \in EpollRegitry[fd[f]]
    <2>1. pc'[f] = "yield" /\ UNCHANGED <<interest, EpollRegitry>>
        BY <1>6 DEF AddEvent, AgreeInv, TypeInv, TypeOK, kernelVars
    <2>2. \A g \in Fiber : Watched(g)' <=> Watched(g)
        BY <1>1, <2>1 DEF Watched
    <2>3. f \notin early => Watched(f)
        BY <1>1, <1>6 DEF AgreeInv, Tables
    <2>4. Tables'
        BY <1>1, <1>2, <1>4, <2>1, <2>2 DEF AgreeInv, Tables
    <2>5. Waits'
        BY <1>1, <1>3, <2>1, <2>2, <2>3 DEF AgreeInv, Waits, AddEventSucceeds
    <2> QED BY <1>5, <2>4, <2>5 DEF AgreeInv
<1>7. CASE "IN" \notin EpollRegitry[fd[f]] /\ \E e \in interest : e.fd = fd[f]
    <2>1. pc'[f] = "refused" /\ UNCHANGED <<interest, EpollRegitry>>
        BY <1>7 DEF AddEvent, AgreeInv, TypeInv, TypeOK, kernelVars
    <2>2. \A g \in Fiber : Watched(g)' <=> Watched(g)
        BY <1>1, <2>1 DEF Watched
    <2>3. f \in early \/ Role[f] = "write"
        <3>1. PICK e \in interest : e.fd = fd[f]
            BY <1>7
        <3>2. e.fid = f
            BY <1>1, <1>2, <3>1 DEF AgreeInv, Tables, Unshared
        <3> QED BY <1>7, <3>1, <3>2 DEF AgreeInv, Tables
    <2>4. Tables'
        BY <1>1, <1>2, <1>4, <2>1, <2>2 DEF AgreeInv, Tables
    <2>5. Waits'
        BY <1>1, <1>3, <2>1, <2>2, <2>3 DEF AgreeInv, Waits, AddEventSucceeds
    <2> QED BY <1>5, <2>4, <2>5 DEF AgreeInv
<1>8. CASE "IN" \notin EpollRegitry[fd[f]] /\ ~\E e \in interest : e.fd = fd[f]
    <2>1. /\ pc' = [pc EXCEPT ![f] = "yield"]
          /\ interest' = interest \cup {new}
          /\ EpollRegitry' = [EpollRegitry EXCEPT ![fd[f]] = @ \cup Asked(f)]
        BY <1>8 DEF AddEvent
    <2>2. Role[f] # "write" => "IN" \in Asked(f)
        BY EventLoopAssumption DEF Asked, EventLoopAssumption
    <2>3. new.fd = fd[f] /\ new.fid = f
        OBVIOUS
    <2> HIDE DEF new
    <2>4. Watched(f)'
        BY <1>1, <2>1, <2>3 DEF Watched
    <2>5. \A g \in Fiber : Watched(g) => Watched(g)'
        BY <1>1, <2>1 DEF Watched
    <2>6. \A d \in Fd : /\ "IN" \in EpollRegitry[d] => "IN" \in EpollRegitry'[d]
                        /\ "IN" \in EpollRegitry'[d] => d = fd[f] \/ "IN" \in EpollRegitry[d]
        BY <2>1 DEF AgreeInv, TypeInv, TypeOK
    <2>7. Role[f] # "write" => "IN" \in EpollRegitry'[fd[f]]
        BY <1>1, <2>1, <2>2 DEF AgreeInv, TypeInv, TypeOK
    <2>8. \A e \in interest' : e = new \/ e \in interest
        BY <2>1
    <2>9. \A e \in interest' : IsOpen(e.fid)' /\ fd'[e.fid] = e.fd
        BY <1>1, <1>2, <1>4, <2>3, <2>8 DEF AgreeInv, Tables
    <2>10. \A e \in interest' : e.fid \notin early' /\ Role[e.fid] # "write"
                                   => "IN" \in EpollRegitry'[e.fd]
        BY <1>1, <1>2, <2>3, <2>6, <2>7, <2>8 DEF AgreeInv, Tables
    <2>11. \A d \in Fd : "IN" \in EpollRegitry'[d] => \E g \in Fiber : fd'[g] = d
        BY <1>1, <2>6 DEF AgreeInv, Tables
    <2>12. \A g \in Fiber \ early' : IsOpen(g)' /\ "IN" \in EpollRegitry'[fd'[g]] => Watched(g)'
        <3> SUFFICES ASSUME NEW g \in Fiber, g \notin early, IsOpen(g), "IN" \in EpollRegitry'[fd[g]]
                     PROVE  Watched(g)'
            BY <1>1, <1>4
        <3>1. fd[g] \in Fd
            BY DEF AgreeInv, Unshared, IsOpen
        <3> QED BY <1>1, <2>4, <2>5, <2>6, <3>1 DEF AgreeInv, Tables, Unshared
    <2>13. Tables'
        BY <2>9, <2>10, <2>11, <2>12 DEF Tables
    <2>14. pc'[f] = "yield"
        BY <2>1 DEF AgreeInv, TypeInv, TypeOK
    <2>15. Waits'
        BY <1>1, <1>3, <2>4, <2>5, <2>14 DEF AgreeInv, Waits, AddEventSucceeds
    <2> QED BY <1>5, <2>13, <2>15 DEF AgreeInv
<1> QED BY <1>6, <1>7, <1>8

(* ~SocketWrapper: the kernel forgets the descriptor with close, the table *)
(* with rmEvent; whoever has the number by then came early.                *)
LEMMA AgreeInvClose ==
    ASSUME AgreeInv, TypeInv', NEW f \in Fiber, CloseSocket(f) \/ RmEvent(f)
    PROVE  AgreeInv'
<1>0. /\ \A e \in interest : e.fid \in Fiber /\ e.fd \in Fd
      /\ early' = early
    BY DEF CloseSocket, RmEvent, historyVars, AgreeInv, TypeInv, TypeOK, Entry
<1>1. CASE CloseSocket(f)
    <2>1. /\ pc[f] = "close" /\ fd[f] \in Fd /\ IsOpen(f)
          /\ interest' = {e \in interest : e.fd # fd[f]}
          /\ UNCHANGED <<fd, EpollRegitry>>
        BY <1>1 DEF CloseSocket, AgreeInv, Unshared, IsOpen
    <2>2. /\ pc'[f] = "rm"
          /\ \A g \in Fiber : g # f => pc'[g] = pc[g]
        BY <1>1 DEF CloseSocket, AgreeInv, TypeInv, TypeOK
    <2>3. ~IsOpen(f)' /\ \A g \in Fiber : g # f => (IsOpen(g)' <=> IsOpen(g))
        BY <2>1, <2>2 DEF IsOpen
    <2>4. \A g \in Fiber : g # f /\ IsOpen(g) => fd[g] # fd[f]
        BY <2>1 DEF AgreeInv, Unshared
    <2>5. \A g \in Fiber : g # f /\ IsOpen(g) /\ Watched(g) => Watched(g)'
        BY <2>1, <2>4 DEF Watched
    <2>6. Unshared'
        BY <1>0, <2>1, <2>2, <2>3 DEF AgreeInv, Unshared
    <2>7. Tables'
        <3>1. \A e \in interest' : e \in interest /\ e.fid # f
            BY <2>1 DEF AgreeInv, Tables
        <3>2. \A e \in interest' : IsOpen(e.fid)' /\ fd'[e.fid] = e.fd
            BY <1>0, <2>1, <2>3, <3>1 DEF AgreeInv, Tables
        <3>3. \A e \in interest' : e.fid \notin early' /\ Role[e.fid] # "write"
                                       => "IN" \in EpollRegitry'[e.fd]
            BY <1>0, <2>1, <3>1 DEF AgreeInv, Tables
        <3>4. \A g \in Fiber \ early' : IsOpen(g)' /\ "IN" \in EpollRegitry'[fd'[g]] => Watched(g)'
            BY <1>0, <2>1, <2>3, <2>5 DEF AgreeInv, Tables
        <3> QED BY <2>1, <3>2, <3>3, <3>4 DEF AgreeInv, Tables
    <2>8. Waits'
        <3>1. \A g \in Fiber : pc[g] \in {"yield", "held"} => IsOpen(g)
            BY DEF AgreeInv, Unshared, IsOpen
        <3> QED BY <1>0, <2>2, <2>5, <3>1 DEF AgreeInv, Waits, AddEventSucceeds
    <2> QED BY <2>6, <2>7, <2>8 DEF AgreeInv
<1>2. CASE RmEvent(f)
    <2>1. /\ pc[f] = "rm" /\ fd[f] \in Fd /\ ~IsOpen(f) /\ UNCHANGED interest
        BY <1>2 DEF RmEvent, AgreeInv, Unshared, IsOpen, kernelVars
    <2>2. /\ pc'[f] = "none" /\ fd'[f] = NoFd
          /\ \A g \in Fiber : g # f => pc'[g] = pc[g] /\ fd'[g] = fd[g]
          /\ \A d \in Fd : EpollRegitry'[d] = IF d = fd[f] THEN {} ELSE EpollRegitry[d]
        BY <1>2, <2>1 DEF RmEvent, AgreeInv, TypeInv, TypeOK
    <2>3. ~IsOpen(f)' /\ \A g \in Fiber : g # f => (IsOpen(g)' <=> IsOpen(g))
        BY <2>2 DEF IsOpen
    <2>4. \A g \in Fiber : g # f => (Watched(g)' <=> Watched(g))
        BY <2>1, <2>2 DEF Watched
    <2>5. \A g \in Fiber \ early : IsOpen(g) => fd[g] # fd[f]
        BY <2>1 DEF AgreeInv, Unshared
    <2>6. Unshared'
        <3>1. \A g \in Fiber : IF pc'[g] = "none" THEN fd'[g] = NoFd ELSE fd'[g] \in Fd
            BY <2>2 DEF AgreeInv, Unshared
        <3>2. \A g, h \in Fiber : IsOpen(g)' /\ IsOpen(h)' /\ fd'[g] = fd'[h] => g = h
            BY <2>2, <2>3 DEF AgreeInv, Unshared
        <3>3. ASSUME NEW g \in Fiber, NEW h \in Fiber, IsOpen(g)', g \notin early', fd'[g] = fd'[h]
              PROVE  g = h
            <4>1. fd'[g] # NoFd
                BY <3>3 DEF IsOpen
            <4> QED BY <1>0, <2>2, <2>3, <3>3, <4>1 DEF AgreeInv, Unshared
        <3> QED BY <3>1, <3>2, <3>3 DEF Unshared
    <2>7. Tables'
        <3>1. \A e \in interest' : e \in interest /\ e.fid # f
            BY <2>1 DEF AgreeInv, Tables
        <3>2. \A e \in interest' : IsOpen(e.fid)' /\ fd'[e.fid] = e.fd
            BY <1>0, <2>2, <2>3, <3>1 DEF AgreeInv, Tables
        <3>3. \A e \in interest' : e.fid \notin early' /\ Role[e.fid] # "write"
                                       => "IN" \in EpollRegitry'[e.fd]
            BY <1>0, <2>2, <2>5, <3>1 DEF AgreeInv, Tables
        <3>4. \A d \in Fd : "IN" \in EpollRegitry'[d] => \E g \in Fiber : fd'[g] = d
            BY <2>2 DEF AgreeInv, Tables
        <3>5. \A g \in Fiber \ early' : IsOpen(g)' /\ "IN" \in EpollRegitry'[fd'[g]] => Watched(g)'
            <4> SUFFICES ASSUME NEW g \in Fiber, g \notin early, g # f, IsOpen(g),
                                "IN" \in EpollRegitry'[fd[g]]
                         PROVE  Watched(g)
                BY <1>0, <2>2, <2>3, <2>4
            <4>1. fd[g] \in Fd
                BY DEF AgreeInv, Unshared, IsOpen
            <4> QED BY <2>2, <4>1 DEF AgreeInv, Tables
        <3> QED BY <3>2, <3>3, <3>4, <3>5 DEF Tables
    <2>8. Waits'
        BY <1>0, <2>2, <2>4 DEF AgreeInv, Waits, AddEventSucceeds
    <2> QED BY <2>6, <2>7, <2>8 DEF AgreeInv
<1> QED BY <1>1, <1>2

LEMMA AgreeInvStep == AgreeInv /\ [Next]_vars => AgreeInv'
<1> SUFFICES ASSUME AgreeInv, [Next]_vars PROVE AgreeInv'
    OBVIOUS
<1> USE DEF fiberVars, kernelVars, netVars, loopVars, historyVars
<1>0. TypeInv' /\ TypeOK
    BY TypeInvStep DEF AgreeInv, TypeInv
<1>1. ASSUME NEW f \in Fiber, Call(f) \/ AcceptFails(f) \/ Finish(f) \/ Yield(f) \/ Resume(f)
      PROVE  AgreeInv'
    <2>1. UNCHANGED <<fd, interest, EpollRegitry, early>>
        BY <1>1 DEF Call, AcceptFails, Finish, Yield, Resume
    <2>2. \/ UNCHANGED pc
          \/ /\ pc[f] = "call"
             /\ \E p \in {"close", "add", "failed"} : pc' = [pc EXCEPT ![f] = p]
          \/ pc[f] = "yield" /\ pc' = [pc EXCEPT ![f] = "held"]
          \/ pc[f] = "held" /\ pc' = [pc EXCEPT ![f] = "call"]
        BY <1>1 DEF Call, AcceptFails, Finish, Yield, Resume
    <2>3. \A g \in Fiber :
             \/ pc'[g] = pc[g]
             \/ /\ pc[g] \in {"call", "yield", "held"}
                /\ pc'[g] \notin {"none", "rm", "refused"}
                /\ pc'[g] \in {"yield", "held"} => pc[g] \in {"yield", "held"}
        BY <1>0, <2>2 DEF TypeOK
    <2> QED BY <1>0, <2>1, <2>3, AgreeInvKept
<1>2. ASSUME EpollWait \/ HandleNext \/ (\E d \in OpenFds : Arrive(d))
             \/ (\E f \in Fiber : Hangup(f)) \/ UNCHANGED vars
      PROVE  AgreeInv'
    <2>1. UNCHANGED <<pc, fd, interest, EpollRegitry, early>>
        BY <1>2 DEF EpollWait, HandleNext, Handle, Arrive, Hangup, vars
    <2> QED BY <1>0, <2>1, AgreeInvKept
<1> QED BY <1>0, <1>1, <1>2, AgreeInvOpen, AgreeInvAddEvent, AgreeInvClose DEF Next, Job, Quiet

LEMMA AgreeInvAlways == Safety => []AgreeInv
BY AgreeInvStep, AgreeInvInit, PTL DEF Safety

(* On any number of workers, however descriptor numbers are used again and *)
(* whatever the peers do, addEvent (scheduler.h:255-286) adds a descriptor *)
(* to the epoll set twice only for a writer, or for a fiber that got the   *)
(* number before its last user had called rmEvent.                         *)
THEOREM AddEventSeldomRefused == Safety => []AddEventSucceeds
BY AgreeInvAlways, AgreeMeans, PTL

(* A fiber that waits is named by the epoll entry of its own socket,       *)
(* unless the socket's number came to it early.                            *)
THEOREM HeldFibersWatched == Safety => []HeldIsWatched
BY AgreeInvAlways, AgreeMeans, PTL
=============================================================================
