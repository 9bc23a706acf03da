----------------------------- MODULE MySQLPool ------------------------------
(***************************************************************************)
(* The connection pool of mjber/tools/mysql_poll.h.  The database is       *)
(* external: a connection may break at any time and an attempt to open one *)
(* may fail.                                                               *)
(*                                                                         *)
(* Each of the pool's functions holds poolMutex_ from its lock to its end, *)
(* so the locked part is one step; the tests of initialized_ come before   *)
(* the lock and are steps of their own, and wait_for releases the mutex.   *)
(***************************************************************************)
EXTENDS Naturals, Sequences, FiniteSets

CONSTANTS Client,       \* threads that call the pool
          Conn,         \* bound: the connections that can be open at once
          Min, Max,     \* minConnections_, maxConnections_
          SizeMax,      \* the largest size_t
          MaxBreak,     \* bound: how often a connection breaks
          MaxShutdown,  \* bound: how often shutdown is called
          NoConn

ASSUME PoolAssumption ==
    /\ IsFiniteSet(Client) /\ IsFiniteSet(Conn) /\ NoConn \notin Conn
    /\ Min \in Nat /\ Max \in Nat \ {0} /\ SizeMax \in Nat
    /\ MaxBreak \in Nat /\ MaxShutdown \in Nat
    /\ Min <= Max /\ Max + MaxBreak < SizeMax

VARIABLES connections, active, initialized,
          pc,         \* where each client is
          asleep,     \* the waiting clients that nothing has woken
          held,       \* the connection each client uses
          broken,     \* connections the server has dropped
          aborted,    \* an exception has left a destructor: std::terminate
          uncounted,  \* history: broken connections released, still in active
          dropped,    \* history: connections lost by a failed replacement
          disturbed,  \* history: init or shutdown ran beside other calls, or
                      \* init again after an attempt that failed half-way
          breaks, shutdowns

pool == <<connections, active, initialized>>
bounds == <<breaks, shutdowns>>
history == <<uncounted, dropped, disturbed>>
vars == <<pool, pc, asleep, held, broken, aborted, history, bounds>>

Queued == {connections[i] : i \in 1..Len(connections)}
InUse == {c \in Client : held[c] # NoConn}
Open == Queued \cup {held[c] : c \in InUse}
Waiting == {c \in Client : pc[c] = "wait"}
Fresh == Conn \ Open

TypeOK == /\ connections \in Seq(Conn)
          /\ active \in 0..SizeMax
          /\ initialized \in BOOLEAN
          /\ pc \in [Client -> {"idle", "init", "get", "wait", "use", "return"}]
          /\ asleep \subseteq Waiting
          /\ held \in [Client -> Conn \cup {NoConn}]
          /\ broken \subseteq Open
          /\ aborted \in BOOLEAN
          /\ uncounted \in Nat /\ dropped \in Nat
          /\ disturbed \in BOOLEAN
          /\ breaks \in 0..MaxBreak /\ shutdowns \in 0..MaxShutdown

Init == /\ connections = <<>>
        /\ active = 0
        /\ initialized = FALSE
        /\ pc = [c \in Client |-> "idle"]
        /\ asleep = {}
        /\ held = [c \in Client |-> NoConn]
        /\ broken = {}
        /\ aborted = FALSE
        /\ uncounted = 0 /\ dropped = 0
        /\ disturbed = FALSE
        /\ breaks = 0 /\ shutdowns = 0

(* activeConnections_ is an atomic size_t.  Mutant: it is a signed number. *)
DecrementSigned(n) == n - 1
Increment(n) == IF n = SizeMax THEN 0 ELSE n + 1
Decrement(n) == IF n = 0 THEN SizeMax ELSE n - 1

Goto(c, place) == pc' = [pc EXCEPT ![c] = place]
Return(c) == Goto(c, "idle") /\ asleep' = asleep \ {c}
Quiet(c) == \A d \in Client \ {c} : pc[d] = "idle"
-----------------------------------------------------------------------------
(* init: initialized_ is read before the lock and not again after it.  An  *)
(* attempt that fails leaves the connections opened so far in the queue,   *)
(* and the next one opens minConnections_ more.  No waiter is notified.    *)
InitCheck(c) == /\ pc[c] = "idle" /\ ~initialized
                /\ Goto(c, "init")
                /\ UNCHANGED <<pool, asleep, held, broken, aborted, history, bounds>>

InitCreate(c) ==
    /\ pc[c] = "init"
    /\ \E n \in 0..Min : \E new \in [1..n -> Fresh] :
          /\ \A i, j \in 1..n : new[i] = new[j] => i = j
          /\ connections' = connections \o new
          /\ initialized' = (initialized \/ n = Min)
    /\ disturbed' = (disturbed \/ ~Quiet(c) \/ connections # <<>>)
    /\ Return(c)
    /\ UNCHANGED <<active, held, broken, aborted, uncounted, dropped, bounds>>

(* executeQuery and executeUpdate call getConnection first, which throws   *)
(* when the pool is not initialized: nothing changes then.                 *)
GetCheck(c) == /\ pc[c] = "idle" /\ initialized
               /\ Goto(c, "get")
               /\ UNCHANGED <<pool, asleep, held, broken, aborted, history, bounds>>

Use(c, conn) == /\ held' = [held EXCEPT ![c] = conn]
                /\ active' = Increment(active)
                /\ Goto(c, "use") /\ asleep' = asleep \ {c}

(* Mutant: the front stays in the queue.                                   *)
TakeKeepFront(c, q) == /\ connections' = q
                       /\ Head(q) \notin broken
                       /\ Use(c, Head(q))
                       /\ UNCHANGED <<broken, dropped>>

(* The end of getConnection, with q the queue: its front is replaced when  *)
(* it is broken; when that fails the call throws and the front is gone.    *)
Take(c, q) == /\ connections' = Tail(q)
              /\ broken' = broken \ {Head(q)}
              /\ \/ Head(q) \notin broken /\ Use(c, Head(q)) /\ UNCHANGED dropped
                 \/ /\ Head(q) \in broken
                    /\ \/ \E new \in Fresh : Use(c, new) /\ UNCHANGED dropped
                       \/ Return(c) /\ dropped' = dropped + 1 /\ UNCHANGED <<held, active>>

(* getConnection under the lock: open a connection, take one, or wait.     *)
(* Mutant: open one whenever the queue is empty.                           *)
MayOpenAlways == connections = <<>>
MayOpen == connections = <<>> /\ active < Max

Get(c) ==
    /\ pc[c] = "get"
    /\ \/ MayOpen /\ \E new \in Fresh : Take(c, <<new>>)
       \/ /\ MayOpen /\ Return(c)
          /\ UNCHANGED <<connections, active, held, broken, dropped>>
       \/ connections # <<>> /\ Take(c, connections)
       \/ /\ connections = <<>> /\ ~MayOpen
          /\ Goto(c, "wait") /\ asleep' = asleep \cup {c}
          /\ UNCHANGED <<connections, active, held, broken, dropped>>
    /\ UNCHANGED <<initialized, aborted, uncounted, disturbed, bounds>>

(* wait_for: a woken client looks again; at the timeout it looks for the   *)
(* last time and throws.  Mutant: it goes on waiting.                      *)
Wake(c) ==
    /\ pc[c] = "wait" /\ c \notin asleep
    /\ \/ connections # <<>> /\ Take(c, connections)
       \/ /\ connections = <<>> /\ asleep' = asleep \cup {c}
          /\ UNCHANGED <<connections, active, pc, held, broken, dropped>>
    /\ UNCHANGED <<initialized, aborted, uncounted, disturbed, bounds>>

TimeoutWaitsOn(c) ==
    /\ pc[c] = "wait" /\ connections # <<>>
    /\ Take(c, connections)
    /\ UNCHANGED <<initialized, aborted, uncounted, disturbed, bounds>>

Timeout(c) ==
    /\ pc[c] = "wait"
    /\ \/ connections # <<>> /\ Take(c, connections)
       \/ /\ connections = <<>> /\ Return(c)
          /\ UNCHANGED <<connections, active, held, broken, dropped>>
    /\ UNCHANGED <<initialized, aborted, uncounted, disturbed, bounds>>

(* The statement is executed, or its arguments are refused, or it throws:  *)
(* in each case the last pointer to the connection goes out of scope.      *)
Execute(c) == /\ pc[c] = "use"
              /\ Goto(c, "return")
              /\ UNCHANGED <<pool, asleep, held, broken, aborted, history, bounds>>

(* releaseConnection, the deleter of that pointer.  A broken connection is *)
(* not subtracted from active, and a failure to open its replacement       *)
(* leaves a destructor.                                                    *)
NotifyOne == \/ asleep = {} /\ UNCHANGED asleep
             \/ \E w \in asleep : asleep' = asleep \ {w}

GiveBack(c) == /\ pc[c] = "return"
               /\ Goto(c, "idle")
               /\ held' = [held EXCEPT ![c] = NoConn]
               /\ UNCHANGED <<initialized, dropped, disturbed, bounds>>

(* Mutant: no notification.                                                *)
ReleaseSilently(c) == /\ GiveBack(c) /\ held[c] \notin broken
                      /\ connections' = Append(connections, held[c])
                      /\ active' = Decrement(active)
                      /\ UNCHANGED <<asleep, broken, aborted, uncounted>>

ReleaseValid(c) == /\ GiveBack(c) /\ held[c] \notin broken
                   /\ connections' = Append(connections, held[c])
                   /\ active' = Decrement(active)
                   /\ NotifyOne
                   /\ UNCHANGED <<broken, aborted, uncounted>>

ReleaseBroken(c) ==
    /\ GiveBack(c) /\ held[c] \in broken
    /\ broken' = broken \ {held[c]}
    /\ uncounted' = uncounted + 1
    /\ UNCHANGED active
    /\ \/ /\ Len(connections) >= Min
          /\ NotifyOne
          /\ UNCHANGED <<connections, aborted>>
       \/ /\ Len(connections) < Min
          /\ \E new \in Fresh : connections' = Append(connections, new)
          /\ NotifyOne
          /\ UNCHANGED aborted
       \/ /\ Len(connections) < Min
          /\ aborted' = TRUE
          /\ UNCHANGED <<connections, asleep>>

(* shutdown: no waiter is notified, and connections in use stay in use.    *)
Shutdown == /\ shutdowns < MaxShutdown
            /\ shutdowns' = shutdowns + 1
            /\ connections' = <<>>
            /\ active' = 0
            /\ initialized' = FALSE
            /\ broken' = broken \ Queued
            /\ uncounted' = 0 /\ dropped' = 0
            /\ disturbed' = (disturbed \/ \E c \in Client : pc[c] # "idle")
            /\ UNCHANGED <<pc, asleep, held, aborted, breaks>>

(* The server drops a connection.                                          *)
Break == /\ breaks < MaxBreak
         /\ breaks' = breaks + 1
         /\ \E conn \in Open \ broken : broken' = broken \cup {conn}
         /\ UNCHANGED <<pool, pc, asleep, held, aborted, history, shutdowns>>

Step(c) == \/ InitCreate(c) \/ Get(c) \/ Wake(c) \/ Timeout(c)
           \/ Execute(c) \/ ReleaseValid(c) \/ ReleaseBroken(c)

Next == /\ ~aborted
        /\ \/ \E c \in Client : InitCheck(c) \/ GetCheck(c) \/ Step(c)
           \/ Shutdown
           \/ Break

(* A client in a call goes on, and wait_for is timed: its timeout comes    *)
(* however often the client has been woken for nothing.                    *)
Spec == /\ Init /\ [][Next]_vars
        /\ \A c \in Client : /\ WF_vars(~aborted /\ Step(c))
                             /\ WF_vars(~aborted /\ Timeout(c))
-----------------------------------------------------------------------------
(* A connection is in the queue once or used by one client                 *)
(* (mysql_poll.h:281-304, 390), whatever init and shutdown do meanwhile.   *)
OneOwner == /\ Cardinality(Queued) = Len(connections)
            /\ \A c \in InUse : held[c] \notin Queued
            /\ \A c, d \in InUse : held[c] = held[d] => c = d

(* No more than maxConnections_ are open, idle ones included, although     *)
(* only those in use are counted (mysql_poll.h:46, 268).                   *)
WithinMax == Len(connections) + Cardinality(InUse) <= Max

(* That holds, and the count is exact but for the broken connections that  *)
(* were released (mysql_poll.h:51, 296, 391-402), until init or shutdown   *)
(* runs beside other calls or init after an attempt that has left          *)
(* connections (245-248).                                                  *)
AtMostMax == ~disturbed => WithinMax /\ active = Cardinality(InUse) + uncounted

(* Who sleeps, sleeps for a reason.  A connection does not lie in the      *)
(* queue beside sleepers: as many clients are awake as there are           *)
(* connections for them (mysql_poll.h:274, 406).  With none in the queue   *)
(* all that the maximum still allows are in use (268): a breakage takes at *)
(* most one from it for good, by staying counted (391-402) or by a         *)
(* replacement that fails (287-292).  So without breakages clients sleep   *)
(* over an empty queue only when maxConnections_ are in use; after as many *)
(* breakages as that the code lets them sleep with nothing in use.         *)
Lost == uncounted + dropped
WaitOnlyAtReducedMax ==
    ~disturbed => /\ Lost <= breaks
                  /\ asleep # {} => /\ Len(connections) <= Cardinality(Waiting \ asleep)
                                    /\ connections = <<>> => Cardinality(InUse) + Lost >= Max

(* Every call returns or throws, if the program goes on                    *)
(* (mysql_poll.h:274-276).                                                 *)
CallsReturn == \A c \in Client : pc[c] # "idle" ~> pc[c] = "idle" \/ aborted
=============================================================================
