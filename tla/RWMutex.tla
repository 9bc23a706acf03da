------------------------------ MODULE RWMutex -------------------------------
(***************************************************************************)
(* The reader-writer mutex of mjber/rw_mutex.h: two counters and two flags *)
(* under mtx_, and one condition variable for each of ReadLock, WriteLock  *)
(* and Lock, the "critical section" lock.                                  *)
(*                                                                         *)
(* Every operation holds mtx_ from its first to its last line and sends    *)
(* its notifications inside, so an operation is one step, and so is each   *)
(* evaluation of a wait's predicate after a wake-up.  A thread uses the    *)
(* locks through their guards; only Buffer (mjber/buffer.h) nests them: it *)
(* calls Lock with its read or its write lock held.                        *)
(***************************************************************************)
EXTENDS Naturals, FiniteSets

CONSTANTS Thread,
          Nesting  \* the threads that may call Lock with a lock held

ASSUME ThreadAssumption == IsFiniteSet(Thread) /\ Nesting \subseteq Thread

VARIABLES read_cnt, write_cnt, in_write, in_critical_section,
          holds,   \* the lock each thread has, or "none"
          waits,   \* the condition variable each thread is in the wait of
          asleep   \* the threads of those that no notification has woken

counters == <<read_cnt, write_cnt, in_write, in_critical_section>>
vars == <<counters, holds, waits, asleep>>

Kind == {"read", "write", "unique"}

TypeOK == /\ read_cnt \in Nat
          /\ write_cnt \in Nat
          /\ in_write \in BOOLEAN
          /\ in_critical_section \in BOOLEAN
          /\ holds \in [Thread -> Kind \cup {"none"}]
          /\ waits \in [Thread -> Kind \cup {"none"}]
          /\ asleep \in SUBSET Thread

Init == /\ read_cnt = 0
        /\ write_cnt = 0
        /\ in_write = FALSE
        /\ in_critical_section = FALSE
        /\ holds = [t \in Thread |-> "none"]
        /\ waits = [t \in Thread |-> "none"]
        /\ asleep = {}

Holders(k) == {t \in Thread : holds[t] = k}
Waiters(k) == {t \in Thread : waits[t] = k}
Sleepers(k) == Waiters(k) \cap asleep
Outside(t) == holds[t] = "none" /\ waits[t] = "none"

(* notify_one and notify_all: the threads that still sleep afterwards.     *)
NotifyOne(k) == IF Sleepers(k) = {} THEN {asleep}
                ELSE {asleep \ {t} : t \in Sleepers(k)}
NotifyAll(k) == asleep \ Sleepers(k)
-----------------------------------------------------------------------------
(* The predicates of the three waits.  Mutants: a reader looks only at     *)
(* writers that are in; a writer does not look at readers.                 *)
CanReadIfNotWritten == ~in_write /\ ~in_critical_section
CanWriteOverReaders == ~in_write
CanRead == write_cnt = 0 /\ ~in_critical_section
CanWrite == read_cnt = 0 /\ ~in_write
CanLock == read_cnt = 0 /\ write_cnt = 0

Enter(t, k) == /\ holds' = [holds EXCEPT ![t] = k]
               /\ waits' = [waits EXCEPT ![t] = "none"]
               /\ UNCHANGED asleep
Sleep(t, k) == /\ waits' = [waits EXCEPT ![t] = k]
               /\ asleep' = asleep \cup {t}
               /\ UNCHANGED holds

(* One evaluation of a wait's predicate and what follows it.               *)
TryRead(t) == IF CanRead
              THEN Enter(t, "read") /\ read_cnt' = read_cnt + 1
              ELSE Sleep(t, "read") /\ UNCHANGED read_cnt
TryWrite(t) == IF CanWrite
               THEN Enter(t, "write") /\ in_write' = TRUE
               ELSE Sleep(t, "write") /\ UNCHANGED in_write
TryLock(t) == IF CanLock
              THEN Enter(t, "unique") /\ in_critical_section' = TRUE
              ELSE Sleep(t, "unique") /\ UNCHANGED in_critical_section

ReadLock(t) == /\ Outside(t)
               /\ TryRead(t)
               /\ UNCHANGED <<write_cnt, in_write, in_critical_section>>

WriteLock(t) == /\ Outside(t)
                /\ write_cnt' = write_cnt + 1
                /\ TryWrite(t)
                /\ UNCHANGED <<read_cnt, in_critical_section>>

Lock(t) == /\ Outside(t)
           /\ TryLock(t)
           /\ UNCHANGED <<read_cnt, write_cnt, in_write>>

(* Buffer::read and Buffer::ensureWritable: Lock inside another lock.      *)
LockInside(t) == /\ t \in Nesting
                 /\ holds[t] \in {"read", "write"} /\ waits[t] = "none"
                 /\ TryLock(t)
                 /\ UNCHANGED <<read_cnt, write_cnt, in_write>>

(* A thread that was woken evaluates its predicate again.                  *)
Retry(t) == /\ t \notin asleep
            /\ \/ waits[t] = "read" /\ TryRead(t)
                  /\ UNCHANGED <<write_cnt, in_write, in_critical_section>>
               \/ waits[t] = "write" /\ TryWrite(t)
                  /\ UNCHANGED <<read_cnt, write_cnt, in_critical_section>>
               \/ waits[t] = "unique" /\ TryLock(t)
                  /\ UNCHANGED <<read_cnt, write_cnt, in_write>>

Leave(t, k) == /\ holds[t] = k /\ waits[t] = "none"
               /\ holds' = [holds EXCEPT ![t] = "none"]
               /\ UNCHANGED waits

(* Mutant: every reader that leaves wakes a writer, but not the last one.  *)
ReadUnlockForgetsLast(t) ==
    /\ Leave(t, "read")
    /\ read_cnt' = read_cnt - 1
    /\ asleep' \in IF read_cnt > 1 /\ write_cnt > 0 THEN NotifyOne("write") ELSE {asleep}
    /\ UNCHANGED <<write_cnt, in_write, in_critical_section>>

ReadUnlock(t) ==
    /\ Leave(t, "read")
    /\ read_cnt' = read_cnt - 1
    /\ asleep' \in IF read_cnt = 1 /\ write_cnt > 0 THEN NotifyOne("write") ELSE {asleep}
    /\ UNCHANGED <<write_cnt, in_write, in_critical_section>>

(* Mutant: the last writer wakes one reader only.                          *)
WriteUnlockOneReader(t) ==
    /\ Leave(t, "write")
    /\ in_write' = FALSE
    /\ write_cnt' = write_cnt - 1
    /\ asleep' \in NotifyOne(IF write_cnt = 1 THEN "read" ELSE "write")
    /\ UNCHANGED <<read_cnt, in_critical_section>>

WriteUnlock(t) ==
    /\ Leave(t, "write")
    /\ in_write' = FALSE
    /\ write_cnt' = write_cnt - 1
    /\ asleep' \in IF write_cnt = 1 THEN {NotifyAll("read")} ELSE NotifyOne("write")
    /\ UNCHANGED <<read_cnt, in_critical_section>>

Unlock(t) ==
    /\ Leave(t, "unique")
    /\ in_critical_section' = FALSE
    /\ \E u \in NotifyOne("unique"), w \in NotifyOne("write") :
          asleep' = u \cap w \cap NotifyAll("read")
    /\ UNCHANGED <<read_cnt, write_cnt, in_write>>

(* A condition variable may wake without a notification.                   *)
SpuriousWake(t) == /\ t \in asleep
                   /\ asleep' = asleep \ {t}
                   /\ UNCHANGED <<counters, holds, waits>>

Release(t) == ReadUnlock(t) \/ WriteUnlock(t) \/ Unlock(t)

Next == \E t \in Thread : \/ ReadLock(t) \/ WriteLock(t) \/ Lock(t) \/ LockInside(t)
                          \/ Retry(t) \/ Release(t) \/ SpuriousWake(t)

(* A guard is destroyed in the end, and a woken thread runs.               *)
Spec == /\ Init /\ [][Next]_vars
        /\ \A t \in Thread : WF_vars(Release(t)) /\ WF_vars(Retry(t))
-----------------------------------------------------------------------------
(* No writer is in beside a reader or beside another writer, whatever Lock *)
(* is used for meanwhile (rw_mutex.h:5-12, 53, 68).                        *)
Exclusion == /\ Holders("write") = {} \/ Holders("read") = {}
             /\ \A t, u \in Holders("write") : t = u

(* The counters count: write_cnt the writers that are in or queue, which   *)
(* is what holds new readers back (rw_mutex.h:54, 66, 75).                 *)
CountersExact == /\ read_cnt = Cardinality(Holders("read"))
                 /\ write_cnt = Cardinality(Holders("write") \cup Waiters("write"))
                 /\ in_write <=> Holders("write") # {}

(* notify_one is enough for writers: when a writer could enter and one     *)
(* sleeps, another has been woken and will be the next to try              *)
(* (rw_mutex.h:60, 79).                                                    *)
NoStrandedWriter == CanWrite /\ Sleepers("write") # {} => Waiters("write") \ asleep # {}

(* A reader sleeps only while writers queue or the critical section is     *)
(* taken: the notification that ends either is never missed                *)
(* (rw_mutex.h:53, 77, 94).                                                *)
NoStrandedReader == Sleepers("read") # {} => ~CanRead

(* No operation leaves behind a reader or a writer that could go on, and   *)
(* sleeps with no one on the way to wake it.  Nothing of the kind holds    *)
(* for the sleepers of Lock: ReadUnlock and WriteUnlock do not notify      *)
(* cond_unique_ (rw_mutex.h:57-85).                                        *)
NoStranded == NoStrandedWriter /\ NoStrandedReader

(* A thread in Lock waits for the lock it holds itself.                    *)
WaitsForItself(t) == holds[t] # "none" /\ waits[t] = "unique"

(* Where writers queue one of them gets in, however many readers and users *)
(* of Lock come meanwhile, unless a thread never gives its lock back since *)
(* it waits for itself (rw_mutex.h:65-70, buffer.h:50, 112-121).           *)
WritersProgress ==
    Waiters("write") # {} ~> Holders("write") # {} \/ \E t \in Nesting : WaitsForItself(t)
=============================================================================
