----------------------------- MODULE HttpServer -----------------------------
(***************************************************************************)
(* HttpServer of mjber/http_server.h on its scheduler's pool: the accepter *)
(* is one fiber, which waits for the listening socket as EventLoop has it  *)
(* (mjber/socket_wrapper.h, mjber/scheduler.h), and each accepted          *)
(* connection is a task that reads requests from a BLOCKING socket, so it  *)
(* keeps its thread until its client closes.                               *)
(*                                                                         *)
(* The pool's queue and threads are abstracted to what ThreadPool shows of *)
(* them.  That a fiber may be resumed before it has left its stack is      *)
(* FiberScheduler's subject.                                               *)
(***************************************************************************)
EXTENDS HttpSocket, Sequences, FiniteSets

CONSTANTS Worker,      \* the pool's threads
          Talker,      \* clients that send requests
          Silent,      \* clients that connect and then do nothing at all
          Accepter,    \* the accepter's fiber, and the task that starts it
          Wake,        \* the task that resumes it
          Nobody,
          MaxAnswer,   \* bound: requests answered on a connection
          MaxError     \* bound: how often ::accept fails

ASSUME ServerAssumption == /\ IsFiniteSet(Worker) /\ IsFiniteSet(Client)
                           /\ Talker \subseteq Client /\ Silent \subseteq Client \ Talker
                           /\ Cardinality({Accepter, Wake, Nobody}) = 3
                           /\ {Accepter, Wake, Nobody} \cap Client = {}
                           /\ MaxAnswer \in Nat /\ MaxError \in Nat

VARIABLES backlog,  \* connections the kernel holds for accept
          tasks,    \* the pool's queue
          running,  \* what each thread executes
          accepter, \* where the accepter's fiber is
          type,     \* its FiberDes::type_: whether an event may wake it
          watched,  \* the listening socket is in the epoll set
          edge,     \* the socket has news since epoll_wait last reported it
          event,    \* epoll_wait has reported it, run has still to look
          missed,   \* history: the wake-up the accepter waits for came too soon
          job,      \* the connection's state
          answers,  \* history: responses written on each connection
          errors    \* history: how often ::accept failed

loopVars == <<type, watched, edge, event>>
srvvars == <<backlog, tasks, running, accepter, loopVars, missed, job, answers, errors>>
vars == <<sockvars, srvvars>>

TypeOK == /\ SocketTypeOK
          /\ backlog \in Seq(Client)
          /\ tasks \in Seq(Client \cup {Accepter, Wake})
          /\ running \in [Worker -> Client \cup {Accepter, Nobody}]
          /\ accepter \in {"new", "call", "add", "yield", "hold", "ended"}
          /\ type \in {"NONE", "WRITE"}
          /\ {watched, edge, event, missed} \subseteq BOOLEAN
          /\ job \in [Client -> {"away", "pending", "task", "ended"}]
          /\ answers \in [Client -> 0..MaxAnswer]
          /\ errors \in 0..MaxError

(* setup has enqueued the accepter.                                        *)
Init == /\ SocketInit
        /\ backlog = <<>>
        /\ tasks = <<Accepter>>
        /\ running = [w \in Worker |-> Nobody]
        /\ accepter = "new"
        /\ type = "NONE"
        /\ watched = FALSE /\ edge = FALSE /\ event = FALSE
        /\ missed = FALSE
        /\ job = [c \in Client |-> "away"]
        /\ answers = [c \in Client |-> 0]
        /\ errors = 0

Serving(c) == \E w \in Worker : running[w] = c
Leave(w) == running' = [running EXCEPT ![w] = Nobody]
-----------------------------------------------------------------------------
Connect(c) == /\ job[c] = "away"
              /\ job' = [job EXCEPT ![c] = "pending"]
              /\ backlog' = Append(backlog, c)
              /\ edge' = TRUE
              /\ UNCHANGED <<sockvars, tasks, running, accepter, type, watched, event, missed,
                             answers, errors>>

(* What a client does before its connection has a thread is the same to    *)
(* the server as what it does just after.                                  *)
ClientSends(c) == c \in Talker /\ Serving(c) /\ Send(c) /\ UNCHANGED srvvars
ClientCloses(c) == c \notin Silent /\ Serving(c) /\ Close(c) /\ UNCHANGED srvvars

(* A thread of the pool takes the oldest task: the accepter starts.        *)
Starts(w) == /\ running' = [running EXCEPT ![w] = Head(tasks)]
             /\ accepter' = IF Head(tasks) = Accepter THEN "call" ELSE accepter
             /\ missed' = missed

(* Fiber::resume does nothing unless the fiber is on HOLD.                 *)
Resumes(w) == IF accepter = "hold"
              THEN /\ running' = [running EXCEPT ![w] = Accepter]
                   /\ accepter' = "call"
                   /\ missed' = FALSE
              ELSE missed' = TRUE /\ UNCHANGED <<running, accepter>>

Dispatch(w) == /\ running[w] = Nobody /\ tasks # <<>>
               /\ tasks' = Tail(tasks)
               /\ IF Head(tasks) = Wake THEN Resumes(w) ELSE Starts(w)
               /\ UNCHANGED <<sockvars, backlog, loopVars, job, answers, errors>>

Accepting(w, where) == running[w] = Accepter /\ accepter = where

(* accepter: a task for the connection, EAGAIN when there is none, or the  *)
(* end of the accepter for any other error.                                *)
Accept(w) == /\ Accepting(w, "call") /\ backlog # <<>>
             /\ backlog' = Tail(backlog)
             /\ tasks' = Append(tasks, Head(backlog))
             /\ job' = [job EXCEPT ![Head(backlog)] = "task"]
             /\ UNCHANGED <<sockvars, running, accepter, loopVars, missed, answers, errors>>

(* Mutant: the accepter ends when nothing is pending.                      *)
NothingPendingEnds(w) == /\ Accepting(w, "call") /\ backlog = <<>>
                         /\ Leave(w)
                         /\ accepter' = "ended"
                         /\ UNCHANGED <<sockvars, backlog, tasks, loopVars, missed, job, answers, errors>>

NothingPending(w) == /\ Accepting(w, "call") /\ backlog = <<>>
                     /\ accepter' = "add"
                     /\ missed' = FALSE
                     /\ UNCHANGED <<sockvars, backlog, tasks, running, loopVars, job, answers, errors>>

AcceptFails(w) == /\ Accepting(w, "call") /\ errors < MaxError
                  /\ errors' = errors + 1
                  /\ Leave(w)
                  /\ accepter' = "ended"
                  /\ UNCHANGED <<sockvars, backlog, tasks, loopVars, missed, job, answers>>

(* addEvent: the socket joins the epoll set once, edge-triggered, and is   *)
(* reported if it is ready by then.                                        *)
AddEvent(w) == /\ Accepting(w, "add")
               /\ type' = "WRITE"
               /\ watched' = TRUE
               /\ edge' = (edge \/ ~watched)
               /\ accepter' = "yield"
               /\ UNCHANGED <<sockvars, backlog, tasks, running, event, missed, job, answers, errors>>

Yield(w) == /\ Accepting(w, "yield")
            /\ Leave(w)
            /\ accepter' = "hold"
            /\ UNCHANGED <<sockvars, backlog, tasks, loopVars, missed, job, answers, errors>>
-----------------------------------------------------------------------------
(* The epoll thread.                                                       *)
EpollWait == /\ watched /\ edge /\ backlog # <<>> /\ ~event
             /\ event' = TRUE /\ edge' = FALSE
             /\ UNCHANGED <<sockvars, backlog, tasks, running, accepter, type, watched, missed,
                            job, answers, errors>>

(* An event for which the accepter has not announced its wait is thrown    *)
(* away; it was the only one if the socket has no news since.              *)
TooSoon == missed' = (missed \/ (accepter = "add" /\ backlog # <<>> /\ ~edge))

(* Mutant: the type is not reset.                                          *)
EpollRunKeepsType ==
    /\ event /\ event' = FALSE
    /\ Len(tasks) < 4
    /\ IF type = "NONE" THEN TooSoon /\ UNCHANGED <<type, tasks>>
       ELSE /\ tasks' = Append(tasks, Wake)
            /\ UNCHANGED <<type, missed>>
    /\ UNCHANGED <<sockvars, backlog, running, accepter, watched, edge, job, answers, errors>>

(* The loop's body for the listening socket.                               *)
EpollRun ==
    /\ event /\ event' = FALSE
    /\ IF type = "NONE" THEN TooSoon /\ UNCHANGED <<type, tasks>>
       ELSE /\ type' = "NONE"
            /\ tasks' = Append(tasks, Wake)
            /\ UNCHANGED missed
    /\ UNCHANGED <<sockvars, backlog, running, accepter, watched, edge, job, answers, errors>>
-----------------------------------------------------------------------------
(* worker: read a request, write the response, until the read or the write *)
(* fails.                                                                  *)
JobReads(c) == Serving(c) /\ Read(c) /\ UNCHANGED srvvars

(* The connection's socket is closed with the last pointer to it.          *)
JobEnds(w, c) == /\ Leave(w)
                 /\ job' = [job EXCEPT ![c] = "ended"]
                 /\ UNCHANGED <<sockvars, backlog, tasks, accepter, loopVars, missed, answers, errors>>

Respond(w, c) ==
    /\ running[w] = c /\ phase[c] = "ok"
    /\ answers[c] < MaxAnswer
    /\ answers' = [answers EXCEPT ![c] = @ + 1]
    /\ NextRequest(c)
    /\ UNCHANGED <<backlog, tasks, running, accepter, loopVars, missed, job, errors>>

(* The handler throws, or the write fails because the client is gone: the  *)
(* job's own catch or return ends it.                                      *)
HandlerThrows(w, c) == running[w] = c /\ phase[c] = "ok" /\ JobEnds(w, c)
WriteFails(w, c) == running[w] = c /\ phase[c] = "ok" /\ c \in closed /\ JobEnds(w, c)

(* readRequest has returned 0 or -1, or has thrown.                        *)
Disconnect(w, c) == running[w] = c /\ phase[c] \in {"eof", "error"} /\ JobEnds(w, c)

Work(w) == \/ Dispatch(w) \/ Accept(w) \/ NothingPending(w) \/ AddEvent(w) \/ Yield(w)
           \/ \E c \in Client : Respond(w, c) \/ WriteFails(w, c) \/ Disconnect(w, c)

Next == \/ \E c \in Client : Connect(c) \/ ClientSends(c) \/ ClientCloses(c) \/ JobReads(c)
        \/ \E w \in Worker : Work(w) \/ AcceptFails(w) \/ (\E c \in Client : HandlerThrows(w, c))
        \/ EpollWait \/ EpollRun

(* Threads run, the event loop runs, and a client that is not silent       *)
(* closes its connection in the end.                                       *)
Spec == /\ Init /\ [][Next]_vars
        /\ \A w \in Worker : WF_vars(Work(w))
        /\ \A c \in Client : WF_vars(JobReads(c)) /\ WF_vars(ClientCloses(c))
        /\ WF_vars(EpollWait) /\ WF_vars(EpollRun)
-----------------------------------------------------------------------------
Queued(x) == Cardinality({i \in 1..Len(tasks) : tasks[i] = x})
Threads(x) == Cardinality({w \in Worker : running[w] = x})
One(p) == IF p THEN 1 ELSE 0

(* The accepter is on one thread while it runs and on none while it does   *)
(* not, and it is resumed once for a wait: there is a resume task or a     *)
(* type that lets run queue one, never both, and neither unless it waits.  *)
(* A connection that has been accepted is in one place, once, the queue or *)
(* a thread (http_server.h:231-240, 249, scheduler.h:297-332).             *)
OneTaskEach ==
    /\ Threads(Accepter) = One(accepter \in {"call", "add", "yield"})
    /\ Queued(Accepter) = One(accepter = "new")
    /\ Queued(Wake) + One(type # "NONE") <= One(accepter \in {"yield", "hold"})
    /\ \A c \in Client : Queued(c) + Threads(c) = One(job[c] = "task")

(* readRequest returns a request when all of its head has been received,   *)
(* and all of its body if it is a POST with a Content-Length; of any other *)
(* request the body stays unread, although line 230 of http_socket.h       *)
(* promises a complete one.  The count of what is missing never falls      *)
(* below it, so that it does not wrap (http_socket.h:231-285).             *)
AnswersWholeRequests ==
    \A c \in Client :
       /\ phase[c] = "ok" => got[c] >= req[c].head
       /\ phase[c] = "ok" /\ req[c].post /\ req[c].length = "sound" => got[c] = Size(c)
       /\ phase[c] = "body" => content[c] >= Unread(c)

(* readRequest does not wait for more when all of a request has been read, *)
(* in whatever pieces, unless they were ragged: the end of the head was    *)
(* split over two reads, or the body began in the read that ended the head *)
(* (http_socket.h:253-273).                                                *)
WholeRequestsAnswered ==
    \A c \in Client \ ragged : got[c] = Size(c) => phase[c] \notin {"head", "body"}

(* As long as fewer clients are silent than the pool has threads, every    *)
(* connection gets a thread, unless it stays pending for good because      *)
(* ::accept has failed and ended the accepter, or because the accepter     *)
(* lies on HOLD and its wake-up came too soon: before addEvent had set the *)
(* type, or before HOLD itself (socket_wrapper.h:146-169,                  *)
(* scheduler.h:315-327, http_server.h:233-239).                            *)
Stuck == \/ accepter = "ended" /\ errors > 0
         \/ accepter = "hold" /\ missed
EveryConnectionServed ==
    \A c \in Client : job[c] # "away" ~> \/ Serving(c) \/ job[c] = "ended"
                                          \/ [](job[c] = "pending" /\ Stuck)
=============================================================================
