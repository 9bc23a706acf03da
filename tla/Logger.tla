------------------------------- MODULE Logger -------------------------------
(***************************************************************************)
(* The asynchronous logger of mjber/logger.h.  Callers of Logger::log push *)
(* an entry and notify; the worker of LoggerImpl waits on cv with a        *)
(* predicate that pops, and writes what it took to the appenders; the      *)
(* destructor sets stop, notifies and joins.                               *)
(*                                                                         *)
(* log notifies without the mutex of the wait, and the worker holds that   *)
(* mutex from its predicate to its block: the three are separate steps.    *)
(* Entries are numbered in the order of their push; level and text are     *)
(* left out.                                                               *)
(***************************************************************************)
EXTENDS RingBuffer

CONSTANTS Caller,     \* threads that log
          MaxEntry    \* bound: number of entries logged in one behaviour

ASSUME LoggerAssumption == MaxEntry \in Nat /\ Entry = 1..MaxEntry

VARIABLES stop,
          event,      \* the entry the worker has popped, 0 for none
          wpc,        \* where the worker is
          cpc,        \* where each caller is
          dtor,       \* progress of ~LoggerImpl
          pushed,     \* history: number of entries pushed
          written,    \* history: what the appenders got, in order
          atStop,     \* history: pushed when stop was set
          missed      \* history: a notification came before the last block

worker == <<event, wpc, written>>
main == <<stop, dtor, atStop>>
callers == <<cpc, pushed>>
vars == <<ring, worker, main, callers, missed>>

(* "test": about to take the mutex and evaluate the predicate; "block":    *)
(* holds the mutex, the predicate was false; "asleep": in cv.wait;         *)
(* "write": out of the wait with an entry; "check": without one.           *)
WorkerPC == {"test", "block", "asleep", "write", "check", "done"}

TypeOK == /\ RingTypeOK
          /\ stop \in BOOLEAN
          /\ event \in 0..MaxEntry
          /\ wpc \in WorkerPC
          /\ cpc \in [Caller -> {"idle", "notify"}]
          /\ dtor \in {"alive", "notify", "joining", "joined"}
          /\ pushed \in 0..MaxEntry
          /\ written \in Seq(Entry)
          /\ atStop \in 0..MaxEntry
          /\ missed \in BOOLEAN

Init == /\ RingInit
        /\ stop = FALSE
        /\ event = 0
        /\ wpc = "test"
        /\ cpc = [c \in Caller |-> "idle"]
        /\ dtor = "alive"
        /\ pushed = 0
        /\ written = <<>>
        /\ atStop = 0
        /\ missed = FALSE

MutexFree == wpc # "block"
NotifyOne == wpc' = IF wpc = "asleep" THEN "test" ELSE wpc
-----------------------------------------------------------------------------
(* Logger::log: push, then notify.  The logger is a static object: nobody  *)
(* logs once it has been destroyed.                                        *)
Log(c) == /\ cpc[c] = "idle"
          /\ dtor # "joined"
          /\ pushed < MaxEntry
          /\ push(pushed + 1)
          /\ pushed' = pushed + 1
          /\ cpc' = [cpc EXCEPT ![c] = "notify"]
          /\ UNCHANGED <<worker, main, missed>>

(* Mutant: log does not notify.                                            *)
NoNotify(c) == /\ cpc[c] = "notify"
               /\ cpc' = [cpc EXCEPT ![c] = "idle"]
               /\ UNCHANGED <<ring, worker, main, pushed, missed>>

Notify(c) == /\ cpc[c] = "notify"
             /\ cpc' = [cpc EXCEPT ![c] = "idle"]
             /\ NotifyOne
             /\ missed' = (missed \/ wpc = "block")
             /\ UNCHANGED <<ring, event, written, main, pushed>>

(* ~LoggerImpl: stop under the mutex, notify_one, join.                    *)
(* Mutant: stop is set without the mutex.                                  *)
SetStopUnlocked == /\ dtor = "alive"
                   /\ stop' = TRUE
                   /\ atStop' = pushed
                   /\ dtor' = "notify"
                   /\ UNCHANGED <<ring, worker, callers, missed>>

SetStop == /\ dtor = "alive"
           /\ MutexFree
           /\ stop' = TRUE
           /\ atStop' = pushed
           /\ dtor' = "notify"
           /\ UNCHANGED <<ring, worker, callers, missed>>

StopNotify == /\ dtor = "notify"
              /\ dtor' = "joining"
              /\ NotifyOne
              /\ UNCHANGED <<ring, event, written, stop, atStop, callers, missed>>

Join == /\ dtor = "joining"
        /\ wpc = "done"
        /\ dtor' = "joined"
        /\ UNCHANGED <<ring, worker, stop, atStop, callers, missed>>
-----------------------------------------------------------------------------
(* asyncWrite.  The predicate takes an entry: cv.wait returns with it.     *)
TakeEntry == /\ wpc = "test"
             /\ pop
             /\ event' = Oldest
             /\ wpc' = "write"
             /\ UNCHANGED <<written, missed>>

(* The predicate finds nothing: out of the wait only when stop is set.     *)
(* Mutant: the predicate forgets stop.                                     *)
TakeNothingForgetStop == /\ wpc = "test" /\ empty
                         /\ wpc' = "block"
                         /\ missed' = FALSE
                         /\ UNCHANGED <<ring, event, written>>

TakeNothing == /\ wpc = "test" /\ empty
               /\ wpc' = IF stop THEN "check" ELSE "block"
               /\ missed' = FALSE
               /\ UNCHANGED <<ring, event, written>>

Block == /\ wpc = "block"
         /\ wpc' = "asleep"
         /\ UNCHANGED <<ring, event, written, missed>>

(* Mutant: the loop ends after a write once stop is set.                   *)
WriteThenExit == /\ wpc = "write"
                 /\ written' = Append(written, event)
                 /\ event' = 0
                 /\ wpc' = IF stop THEN "done" ELSE "test"
                 /\ UNCHANGED <<ring, missed>>

Write == /\ wpc = "write"
         /\ written' = Append(written, event)
         /\ event' = 0
         /\ wpc' = "test"
         /\ UNCHANGED <<ring, missed>>

(* Out of the wait without an entry: the loop ends only when the buffer is *)
(* still empty, which is read again without the mutex.                     *)
CheckExit == /\ wpc = "check"
             /\ wpc' = IF stop /\ empty THEN "done" ELSE "test"
             /\ UNCHANGED <<ring, event, written, missed>>

Worker == /\ TakeEntry \/ TakeNothing \/ Block \/ Write \/ CheckExit
          /\ UNCHANGED <<main, callers>>

(* A condition variable may wake without a notification.                   *)
SpuriousWake == /\ wpc = "asleep"
                /\ wpc' = "test"
                /\ UNCHANGED <<ring, event, written, main, callers, missed>>

Next == \/ \E c \in Caller : Log(c) \/ Notify(c)
        \/ Worker
        \/ SetStop \/ StopNotify \/ Join
        \/ SpuriousWake

(* A thread that can run does run.  Nothing obliges a caller to log or the *)
(* program to end, nor a condition variable to wake without a reason.      *)
Fairness == /\ WF_vars(Worker)
            /\ WF_vars(StopNotify)
            /\ WF_vars(Join)
            /\ \A c \in Caller : WF_vars(Notify(c))

Spec == Init /\ [][Next]_vars /\ Fairness
-----------------------------------------------------------------------------
InRing == {Contents[i] : i \in 1..count}
Written == {written[i] : i \in 1..Len(written)}
Lost == (1..pushed) \ (InRing \cup Written \cup {event})

(* The positions of the ring stay consistent, and it holds the last pushes *)
(* in their order however often it has wrapped (logger.h:106-128).         *)
RingKeepsNewest == /\ Aligned
                   /\ \A i \in 1..count : Contents[i] = pushed - count + i

(* The appenders get every entry at most once and in the order of the      *)
(* pushes, over all callers (logger.h:219-243).                            *)
WrittenInOrder == \A i, j \in 1..Len(written) : i < j => written[i] < written[j]

(* An entry is lost only by being overwritten: N newer entries had been    *)
(* pushed before the worker came to it (logger.h:108).                     *)
OnlyOverwrittenLost == \A e \in Lost : e + N <= pushed

(* What the appenders get is what was logged, in its order, less what the  *)
(* ring has overwritten.                                                   *)
DeliveredInOrder == WrittenInOrder /\ OnlyOverwrittenLost

(* Nothing that was logged before the destructor set stop is left behind   *)
(* when the worker ends (logger.h:193-202, 239).                           *)
DrainedAtExit == wpc = "done" => \A e \in 1..atStop : e \notin InRing \cup {event}

(* The worker sleeps over an entry whose caller has notified only when the *)
(* notification came between its predicate and its block, the window that  *)
(* notify without the mutex leaves open (logger.h:204-205, 228).           *)
SleepsOnlyByLostWake ==
    wpc = "asleep" /\ ~empty /\ (\A c \in Caller : cpc[c] = "idle") => missed

(* The destructor's wake-up is never lost in that window: it returns       *)
(* (logger.h:193-202).                                                     *)
DestroyReturns == stop ~> dtor = "joined"

(* Slots, positions and count together are a bounded queue that forgets    *)
(* its oldest entry when it is full (logger.h:102-138).                    *)
LogSpec == INSTANCE BoundedLog WITH log <- Contents
ImplementsBoundedLog == LogSpec!Spec
=============================================================================
