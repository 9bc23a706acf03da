----------------------------- MODULE EventLoop ------------------------------
(***************************************************************************)
(* How a fiber of mjber waits for a non-blocking socket: accept, read and  *)
(* write of SocketWrapper (mjber/socket_wrapper.h), addEvent, rmEvent and  *)
(* the epoll thread of LinuxIOScheduler (mjber/scheduler.h).               *)
(*                                                                         *)
(* Each fiber runs jobs that open one socket, call it and close it again.  *)
(* That a fiber is found in Registry, and what two workers do to its stack *)
(* and state, is FiberScheduler's subject: here `yield' and `resume' are   *)
(* one step each.  The kernel's side (readiness, the epoll set, the choice *)
(* of descriptor numbers) is modelled from how the code uses it.           *)
(***************************************************************************)
EXTENDS Naturals, FiniteSets

CONSTANTS Fiber,      \* fibers whose jobs use a non-blocking socket
          Role,       \* the call that the jobs of a fiber make
          Workers,    \* number of threads of the pool
          CanHangUp,  \* whether peers may end or reset a connection
          MaxFd,      \* number of descriptors the process may open
          MaxOpen,    \* bound: number of sockets opened in one behaviour
          MaxArrive,  \* bound: arrivals from the network in one behaviour
          MaxWake     \* bound: resume tasks of one fiber in the pool

Fd == 1..MaxFd
NoFd == 0

ASSUME EventLoopAssumption == /\ IsFiniteSet(Fiber)
                              /\ Role \in [Fiber -> {"accept", "read", "write"}]
                              /\ Workers \in Nat \ {0}
                              /\ CanHangUp \in BOOLEAN
                              /\ MaxFd \in Nat
                              /\ MaxOpen \in Nat
                              /\ MaxArrive \in Nat
                              /\ MaxWake \in Nat \ {0}

Flag == {"IN", "OUT", "ERR", "HUP", "ET"}
Event == [fid : Fiber, ev : SUBSET Flag]
Entry == [fd : Fd, fid : Fiber, ev : SUBSET Flag]

VARIABLES
    pc,           \* where each fiber's job is
    fd,           \* fd_ of the socket the job holds
    type,         \* FiberDes::type_ of each fiber
    EpollRegitry, \* the flags registered for a descriptor, as addEvent recalls
    interest,     \* the kernel's epoll set
    edge,         \* descriptors in the epoll set with news since the last report
    avail,        \* what the next calls on a descriptor can take or fill
    peer,         \* the other end of the connection
    polled,       \* events epoll_wait returned that run has still to handle
    pending,      \* resume tasks of each fiber in the pool's queue
    opened,       \* number of sockets opened
    arrived,      \* number of arrivals
    early,        \* history: fibers that got their descriptor's number before
                  \*   rmEvent was called for the socket that had it last
    dropped,      \* history: fibers whose resume task came before their HOLD
    hung          \* history: a connection has been reset

fiberVars == <<pc, fd, opened>>
kernelVars == <<interest, edge>>
netVars == <<avail, peer, arrived>>
loopVars == <<polled, pending>>
historyVars == <<early, dropped, hung>>
vars == <<fiberVars, type, EpollRegitry, kernelVars, netVars, loopVars, historyVars>>

RunningPC == {"call", "add", "yield", "close", "rm"}

TypeOK == /\ pc \in [Fiber -> RunningPC \cup {"none", "held", "refused", "failed"}]
          /\ fd \in [Fiber -> Fd \cup {NoFd}]
          /\ type \in [Fiber -> {"READ", "WRITE", "NONE"}]
          /\ EpollRegitry \in [Fd -> SUBSET Flag]
          /\ interest \in SUBSET Entry
          /\ edge \in SUBSET Fd
          /\ avail \in [Fd -> 0..MaxArrive + 1]
          /\ peer \in [Fd -> {"up", "eof", "hup"}]
          /\ polled \in SUBSET Event
          /\ pending \in [Fiber -> 0..MaxWake]
          /\ opened \in 0..MaxOpen
          /\ arrived \in 0..MaxArrive
          /\ early \subseteq Fiber
          /\ dropped \subseteq Fiber
          /\ hung \in BOOLEAN

Init == /\ pc = [f \in Fiber |-> "none"]
        /\ fd = [f \in Fiber |-> NoFd]
        /\ type = [f \in Fiber |-> "NONE"]
        /\ EpollRegitry = [d \in Fd |-> {}]
        /\ interest = {}
        /\ edge = {}
        /\ avail = [d \in Fd |-> 0]
        /\ peer = [d \in Fd |-> "up"]
        /\ polled = {}
        /\ pending = [f \in Fiber |-> 0]
        /\ opened = 0
        /\ arrived = 0
        /\ early = {}
        /\ dropped = {}
        /\ hung = FALSE

-----------------------------------------------------------------------------
(* The kernel: open descriptors and what they are ready for.               *)

IsOpen(f) == fd[f] # NoFd /\ pc[f] # "rm"
OpenFds == {fd[f] : f \in {g \in Fiber : IsOpen(g)}}

Running == {f \in Fiber : pc[f] \in RunningPC}
WorkerIsFree == Cardinality(Running) < Workers

Direction(f) == IF Role[f] = "write" THEN "OUT" ELSE "IN"

(* A call would return at once with an error or, once the data has been    *)
(* read, with the end of the stream.                                       *)
Ended(f) == \/ peer[fd[f]] = "hup"
            \/ peer[fd[f]] = "eof" /\ Role[f] = "read" /\ avail[fd[f]] = 0

(* The call of f would not answer EAGAIN.                                  *)
Ready(f) == avail[fd[f]] > 0 \/ Ended(f)

Level(f) == {x \in {Direction(f)} : Ready(f)}
               \cup {x \in {"HUP", "ERR"} : peer[fd[f]] = "hup"}

(* What epoll_wait has to say about the entry e; ERR and HUP need not be   *)
(* asked for, an edge-triggered entry is silent until there is news.       *)
Revents(e) == UNION {Level(f) \cap (e.ev \cup {"ERR", "HUP"}) :
                       f \in {g \in Fiber : IsOpen(g) /\ fd[g] = e.fd}}
Deliverable == {e \in interest : Revents(e) # {} /\ ("ET" \in e.ev => e.fd \in edge)}

-----------------------------------------------------------------------------
(* The job.                                                                *)

(* A job starts on the fiber, with the fresh FiberDes of addTask, and      *)
(* opens a socket: the system gives out the lowest free number, which may  *)
(* be one that another thread has closed and not yet passed to rmEvent.  A *)
(* send buffer has room at first.                                          *)
Open(f) == \E d \in Fd \ OpenFds :
    /\ \A other \in Fd \ OpenFds : d <= other
    /\ pc[f] = "none"
    /\ WorkerIsFree
    /\ opened < MaxOpen
    /\ pc' = [pc EXCEPT ![f] = "call"]
    /\ fd' = [fd EXCEPT ![f] = d]
    /\ opened' = opened + 1
    /\ type' = [type EXCEPT ![f] = "NONE"]
    /\ avail' = [avail EXCEPT ![d] = IF Role[f] = "write" THEN 1 ELSE 0]
    /\ early' = IF \E g \in Fiber : fd[g] = d THEN early \cup {f} ELSE early \ {f}
    /\ dropped' = dropped \ {f}
    /\ UNCHANGED <<EpollRegitry, kernelVars, peer, arrived, loopVars, hung>>

(* ::accept, ::read or ::write.  On EAGAIN the loop goes on to addEvent.   *)
(* At the end of the stream, or on an error of the connection, read and    *)
(* write return and the job ends.                                          *)
Call(f) ==
    /\ pc[f] = "call"
    /\ IF Ended(f)
       THEN pc' = [pc EXCEPT ![f] = "close"] /\ UNCHANGED avail
       ELSE IF avail[fd[f]] > 0
       THEN avail' = [avail EXCEPT ![fd[f]] = @ - 1] /\ UNCHANGED pc
       ELSE pc' = [pc EXCEPT ![f] = "add"] /\ UNCHANGED avail
    /\ UNCHANGED <<fd, opened, type, EpollRegitry, kernelVars, peer, arrived, loopVars, historyVars>>

(* accept fails for another reason, such as a connection aborted in the    *)
(* queue: the exception ends the job.                                      *)
AcceptFails(f) ==
    /\ pc[f] = "call"
    /\ Role[f] = "accept"
    /\ avail[fd[f]] > 0
    /\ avail' = [avail EXCEPT ![fd[f]] = @ - 1]
    /\ pc' = [pc EXCEPT ![f] = "failed"]
    /\ UNCHANGED <<fd, opened, type, EpollRegitry, kernelVars, peer, arrived, loopVars, historyVars>>

(* The job has no more use for its socket.                                 *)
Finish(f) ==
    /\ pc[f] = "call"
    /\ Role[f] # "accept"
    /\ pc' = [pc EXCEPT ![f] = "close"]
    /\ UNCHANGED <<fd, opened, type, EpollRegitry, kernelVars, netVars, loopVars, historyVars>>

Asked(f) == CASE Role[f] = "accept" -> {"IN", "ET"}
              [] Role[f] = "read"   -> {"IN", "ERR", "HUP"}
              [] Role[f] = "write"  -> {"OUT", "ERR", "HUP"}

(* `events&EPOLLIN != 0' and `events&EPOLLOUT != 0' both compile to        *)
(* `events&1', which is EPOLLIN: first READ is assigned and then WRITE, or *)
(* nothing at all.  The test of EpollRegitry is for EPOLLIN as well.       *)
Recorded(f, asked) == IF "IN" \in asked THEN "WRITE" ELSE type[f]

(* Mutant: a descriptor that is registered already needs no type.          *)
AddEventKeepsType(f) ==
    LET d == fd[f] IN
    /\ pc[f] = "add"
    /\ IF "IN" \in EpollRegitry[d]
       THEN /\ pc' = [pc EXCEPT ![f] = "yield"]
            /\ UNCHANGED <<type, EpollRegitry, kernelVars>>
       ELSE /\ interest' = interest \cup {[fd |-> d, fid |-> f, ev |-> Asked(f)]}
            /\ edge' = edge \cup {d}
            /\ EpollRegitry' = [EpollRegitry EXCEPT ![d] = @ \cup Asked(f)]
            /\ type' = [type EXCEPT ![f] = Recorded(f, Asked(f))]
            /\ pc' = [pc EXCEPT ![f] = "yield"]
    /\ dropped' = dropped \ {f}
    /\ UNCHANGED <<fd, opened, netVars, loopVars, early, hung>>

(* Mutant: EpollRegitry is not updated.                                    *)
AddEventUnrecorded(f) ==
    LET d == fd[f] IN
    /\ pc[f] = "add"
    /\ IF \E e \in interest : e.fd = d
       THEN /\ pc' = [pc EXCEPT ![f] = "refused"]
            /\ UNCHANGED <<type, kernelVars>>
       ELSE /\ interest' = interest \cup {[fd |-> d, fid |-> f, ev |-> Asked(f)]}
            /\ edge' = edge \cup {d}
            /\ type' = [type EXCEPT ![f] = Recorded(f, Asked(f))]
            /\ pc' = [pc EXCEPT ![f] = "yield"]
    /\ dropped' = dropped \ {f}
    /\ UNCHANGED <<fd, opened, EpollRegitry, netVars, loopVars, early, hung>>

(* addEvent, under registryMutex.  EPOLL_CTL_ADD of a descriptor that is   *)
(* in the set fails with EEXIST, and the exception ends the job.  A new    *)
(* entry is reported at once if it is ready.                               *)
AddEvent(f) ==
    LET d == fd[f] IN
    /\ pc[f] = "add"
    /\ IF "IN" \in EpollRegitry[d]
       THEN /\ type' = [type EXCEPT ![f] = Recorded(f, Asked(f))]
            /\ pc' = [pc EXCEPT ![f] = "yield"]
            /\ UNCHANGED <<EpollRegitry, kernelVars>>
       ELSE IF \E e \in interest : e.fd = d
       THEN /\ pc' = [pc EXCEPT ![f] = "refused"]
            /\ UNCHANGED <<type, EpollRegitry, kernelVars>>
       ELSE /\ interest' = interest \cup {[fd |-> d, fid |-> f, ev |-> Asked(f)]}
            /\ edge' = edge \cup {d}
            /\ EpollRegitry' = [EpollRegitry EXCEPT ![d] = @ \cup Asked(f)]
            /\ type' = [type EXCEPT ![f] = Recorded(f, Asked(f))]
            /\ pc' = [pc EXCEPT ![f] = "yield"]
    /\ dropped' = dropped \ {f}
    /\ UNCHANGED <<fd, opened, netVars, loopVars, early, hung>>

(* wait: the fiber goes to HOLD and gives its worker back.                 *)
Yield(f) ==
    /\ pc[f] = "yield"
    /\ pc' = [pc EXCEPT ![f] = "held"]
    /\ UNCHANGED <<fd, opened, type, EpollRegitry, kernelVars, netVars, loopVars, historyVars>>

(* ~SocketWrapper, first half: closing a descriptor removes it from the    *)
(* epoll set and makes its number available.                               *)
CloseSocket(f) ==
    /\ pc[f] = "close"
    /\ interest' = {e \in interest : e.fd # fd[f]}
    /\ edge' = edge \ {fd[f]}
    /\ avail' = [avail EXCEPT ![fd[f]] = 0]
    /\ peer' = [peer EXCEPT ![fd[f]] = "up"]
    /\ pc' = [pc EXCEPT ![f] = "rm"]
    /\ UNCHANGED <<fd, opened, type, EpollRegitry, arrived, loopVars, historyVars>>

(* Mutant: the destructor does not call rmEvent.                           *)
RmEventSkipped(f) ==
    /\ pc[f] = "rm"
    /\ pc' = [pc EXCEPT ![f] = "none"]
    /\ fd' = [fd EXCEPT ![f] = NoFd]
    /\ UNCHANGED <<opened, type, EpollRegitry, kernelVars, netVars, loopVars, historyVars>>

(* ~SocketWrapper, second half: rmEvent under registryMutex.               *)
RmEvent(f) ==
    /\ pc[f] = "rm"
    /\ EpollRegitry' = [EpollRegitry EXCEPT ![fd[f]] = {}]
    /\ pc' = [pc EXCEPT ![f] = "none"]
    /\ fd' = [fd EXCEPT ![f] = NoFd]
    /\ UNCHANGED <<opened, type, kernelVars, netVars, loopVars, historyVars>>

Job(f) == Call(f) \/ AddEvent(f) \/ Yield(f) \/ CloseSocket(f) \/ RmEvent(f)

-----------------------------------------------------------------------------
(* The pool's worker and the epoll thread.                                 *)

(* A worker takes a resume task; Fiber::resume does nothing unless the     *)
(* fiber is on HOLD.  The socket's loop then tries its call again.         *)
Resume(f) ==
    /\ pending[f] > 0
    /\ WorkerIsFree
    /\ pending' = [pending EXCEPT ![f] = @ - 1]
    /\ pc' = IF pc[f] = "held" THEN [pc EXCEPT ![f] = "call"] ELSE pc
    /\ dropped' = IF pc[f] = "yield" THEN dropped \cup {f} ELSE dropped
    /\ UNCHANGED <<fd, opened, type, EpollRegitry, kernelVars, netVars, polled, early, hung>>

(* epoll_wait returns everything there is to report (ten at a time).       *)
EpollWait ==
    /\ polled = {}
    /\ Deliverable # {}
    /\ polled' = {[fid |-> e.fid, ev |-> Revents(e)] : e \in Deliverable}
    /\ edge' = edge \ {e.fd : e \in Deliverable}
    /\ UNCHANGED <<fiberVars, type, EpollRegitry, interest, netVars, pending, historyVars>>

(* The test of run: both `fiber_events&EPOLLIN != 0' and                   *)
(* `fiber_events&EPOLLOUT != 0' look at EPOLLIN.                           *)
Wakes(r) == \/ "IN" \in r.ev /\ type[r.fid] \in {"READ", "WRITE"}
            \/ "HUP" \in r.ev
            \/ "ERR" \in r.ev

Enqueued(f) == IF pending[f] < MaxWake THEN pending[f] + 1 ELSE pending[f]

(* Mutant: an event that wakes a fiber leaves its type as it is.           *)
HandleKeepsType(r) ==
    /\ r \in polled
    /\ polled' = polled \ {r}
    /\ pending' = IF Wakes(r) THEN [pending EXCEPT ![r.fid] = Enqueued(r.fid)] ELSE pending
    /\ UNCHANGED <<fiberVars, type, EpollRegitry, kernelVars, netVars, historyVars>>

(* The loop's body for one event: nothing remembers an event that does not *)
(* wake its fiber.                                                         *)
Handle(r) ==
    /\ r \in polled
    /\ polled' = polled \ {r}
    /\ IF Wakes(r)
       THEN /\ type' = [type EXCEPT ![r.fid] = "NONE"]
            /\ pending' = [pending EXCEPT ![r.fid] = Enqueued(r.fid)]
       ELSE UNCHANGED <<type, pending>>
    /\ UNCHANGED <<fiberVars, EpollRegitry, kernelVars, netVars, historyVars>>

HandleNext == \E r \in polled : Handle(r)

-----------------------------------------------------------------------------
(* The network.                                                            *)

(* A connection, some data, or room in a full send buffer.                 *)
Arrive(d) ==
    /\ arrived < MaxArrive
    /\ peer[d] = "up"
    /\ avail' = [avail EXCEPT ![d] = @ + 1]
    /\ arrived' = arrived + 1
    /\ edge' = edge \cup {d}
    /\ UNCHANGED <<fiberVars, type, EpollRegitry, interest, peer, loopVars, historyVars>>

(* The peer ends its half of the connection, or the connection is reset.   *)
Hangup(f) ==
    /\ CanHangUp
    /\ IsOpen(f)
    /\ Role[f] # "accept"
    /\ peer[fd[f]] # "hup"
    /\ \E p \in {"eof", "hup"} \ {peer[fd[f]]} :
          /\ peer' = [peer EXCEPT ![fd[f]] = p]
          /\ hung' = (hung \/ p = "hup")
    /\ edge' = edge \cup {fd[f]}
    /\ UNCHANGED <<fiberVars, type, EpollRegitry, interest, avail, arrived, loopVars, early, dropped>>

-----------------------------------------------------------------------------
(* Nobody is inside a call and no event is on its way.                     *)
Quiet == /\ Running = {}
         /\ polled = {}
         /\ \A f \in Fiber : pending[f] = 0
         /\ UNCHANGED vars

Next == \/ \E f \in Fiber : Open(f) \/ Job(f) \/ AcceptFails(f) \/ Finish(f) \/ Resume(f)
        \/ EpollWait
        \/ HandleNext
        \/ \E d \in OpenFds : Arrive(d)
        \/ \E f \in Fiber : Hangup(f)
        \/ Quiet

Safety == Init /\ [][Next]_vars

(* Workers and the epoll thread run.  The pool's queue is first in, first  *)
(* out, so a resume task is taken although a free worker may be found      *)
(* again and again by other tasks.                                         *)
Fairness == /\ \A f \in Fiber : WF_vars(Job(f)) /\ SF_vars(Resume(f))
            /\ WF_vars(EpollWait)
            /\ WF_vars(HandleNext)

Spec == Safety /\ Fairness

-----------------------------------------------------------------------------
(* addEvent, scheduler.h, has a table `to prevent duplicate registration'  *)
(* (lines 254 and 336): EPOLL_CTL_ADD is never called for a descriptor     *)
(* that is in the epoll set.                                               *)
NeverAddedTwice == \A f \in Fiber : pc[f] # "refused"

(* What the table does prevent, on any number of workers and whatever the  *)
(* peers do: addEvent fails only for a fiber whose socket got its number   *)
(* before the number's last user came to rmEvent, or for a writer that     *)
(* waits a second time, whom the test for EPOLLIN does not recognise.      *)
AddEventSucceeds ==
    \A f \in Fiber : pc[f] = "refused" => f \in early \/ Role[f] = "write"

(* A fiber that has given its worker back is named by the epoll entry of   *)
(* the very socket it waits for: EpollRegitry, which decides whether the   *)
(* socket is added, agrees with the kernel across descriptor reuse, but    *)
(* for the fibers whose number came to them early.                         *)
HeldIsWatched ==
    \A f \in Fiber \ early :
       pc[f] = "held" => \E e \in interest : e.fd = fd[f] /\ e.fid = f

(* Until a connection is reset, a wait is answered once: a fiber waits for *)
(* an event or has one resume task on its way, never both, and neither     *)
(* when it is not waiting.  So no resume task of an earlier wait ends a    *)
(* later one.                                                              *)
OneWakePerWait ==
    hung \/ \A f \in Fiber : pending[f] + (IF type[f] = "NONE" THEN 0 ELSE 1)
                                <= (IF pc[f] \in {"yield", "held"} THEN 1 ELSE 0)

(* A fiber does not wait for ever for a socket that stays ready: it        *)
(* returns the result of its call, or somebody else has emptied the socket.*)
Waiting(f) == pc[f] = "held" /\ Ready(f)
Served == \A f \in Fiber : Waiting(f) ~> ~Waiting(f)

(* For read, whose events are level-triggered, that is so on any number of *)
(* workers unless the resume task ran between addEvent and HOLD or the     *)
(* socket's number came early: a wait lost in another way, such as an      *)
(* event reported between EAGAIN and addEvent, would break it.             *)
ReadersServed ==
    \A f \in Fiber : Role[f] = "read" =>
       (Waiting(f) /\ f \notin early \cup dropped ~> ~Waiting(f))
=============================================================================
