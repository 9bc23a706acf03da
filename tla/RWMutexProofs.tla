---------------------------- MODULE RWMutexProofs ----------------------------
(***************************************************************************)
(* Proofs about RWMutex (mjber/rw_mutex.h), for any finite set of threads. *)
(***************************************************************************)
EXTENDS RWMutex, FiniteSetTheorems, TLAPS

(* The writers that write_cnt counts.                                      *)
Writers == Holders("write") \cup Waiters("write")

LEMMA SetsFinite == \A S \in SUBSET Thread : IsFiniteSet(S) /\ Cardinality(S) \in Nat
BY ThreadAssumption, FS_Subset, FS_CardinalityType

LEMMA CountAdd ==
    ASSUME NEW S \in SUBSET Thread, NEW t \in Thread, t \notin S
    PROVE  Cardinality(S \cup {t}) = Cardinality(S) + 1
BY SetsFinite, FS_AddElement

LEMMA CountRemove ==
    ASSUME NEW S \in SUBSET Thread, NEW t \in S
    PROVE  Cardinality(S \ {t}) = Cardinality(S) - 1 /\ Cardinality(S) >= 1
<1>1. IsFiniteSet(S) /\ Cardinality(S) \in Nat /\ Cardinality(S \ {t}) \in Nat
  BY SetsFinite
<1>2. Cardinality(S \ {t}) = Cardinality(S) - 1
  BY <1>1, FS_RemoveElement
<1> QED
  BY <1>1, <1>2

LEMMA CountZero == \A S \in SUBSET Thread : Cardinality(S) = 0 <=> S = {}
BY SetsFinite, FS_EmptySet

LEMMA CountTwo ==
    ASSUME NEW S \in SUBSET Thread, NEW t \in S, NEW u \in S, t # u
    PROVE  Cardinality(S) >= 2
<1>1. Cardinality(S \ {t}) = Cardinality(S) - 1 /\ Cardinality(S \ {t}) >= 1
  <2>1. u \in S \ {t} /\ S \ {t} \in SUBSET Thread
    OBVIOUS
  <2> QED
    BY <2>1, CountRemove
<1> QED
  BY <1>1, SetsFinite

-----------------------------------------------------------------------------
(* A thread that waits to read or write holds nothing, one in Lock may     *)
(* hold the lock it nests in, and only threads in a wait sleep.            *)
WaitersApart == \A t \in Thread : /\ waits[t] \in {"read", "write"} => holds[t] = "none"
                                  /\ waits[t] = "unique" => holds[t] # "unique"
                                  /\ t \in asleep => waits[t] # "none"

(* The counters and the two halves of "no lost wake-up" need each other:   *)
(* a writer that leaves notifies the queue that its counter tells it of.   *)
Inv == /\ TypeOK
       /\ WaitersApart
       /\ CountersExact
       /\ Exclusion
       /\ NoStrandedWriter
       /\ NoStrandedReader

LEMMA InvInit == Init => Inv
<1> SUFFICES ASSUME Init PROVE Inv
  OBVIOUS
<1>1. TypeOK /\ WaitersApart
  BY DEF Init, TypeOK, WaitersApart, Kind
<1>2. Holders("read") = {} /\ Holders("write") = {} /\ Waiters("write") = {}
  BY DEF Init, Holders, Waiters
<1>3. Sleepers("read") = {} /\ Sleepers("write") = {}
  BY DEF Init, Sleepers
<1> QED
  BY <1>1, <1>2, <1>3, FS_EmptySet
     DEF Init, Inv, CountersExact, Exclusion, NoStrandedWriter, NoStrandedReader

(* What the three ways to change a thread's place do to the sets.          *)
LEMMA EnterSets ==
    ASSUME TypeOK, NEW t \in Thread, NEW k \in Kind, holds[t] = "none", Enter(t, k)
    PROVE  /\ Holders(k)' = Holders(k) \cup {t} /\ t \notin Holders(k)
           /\ \A j \in Kind \ {k} : Holders(j)' = Holders(j)
           /\ \A j \in Kind : /\ Waiters(j)' = Waiters(j) \ {t}
                              /\ Sleepers(j)' = Sleepers(j) \ {t}
BY DEF TypeOK, Enter, Holders, Waiters, Sleepers, Kind

LEMMA SleepSets ==
    ASSUME TypeOK, NEW t \in Thread, NEW k \in Kind, waits[t] \in {"none", k}, Sleep(t, k)
    PROVE  /\ \A j \in Kind : Holders(j)' = Holders(j)
           /\ Waiters(k)' = Waiters(k) \cup {t} /\ Sleepers(k)' = Sleepers(k) \cup {t}
           /\ \A j \in Kind \ {k} : Waiters(j)' = Waiters(j) /\ Sleepers(j)' = Sleepers(j)
BY DEF TypeOK, Sleep, Holders, Waiters, Sleepers, Kind

LEMMA LeaveSets ==
    ASSUME TypeOK, NEW t \in Thread, NEW k \in Kind, Leave(t, k), asleep' \subseteq asleep
    PROVE  /\ Holders(k)' = Holders(k) \ {t} /\ t \in Holders(k)
           /\ \A j \in Kind \ {k} : Holders(j)' = Holders(j)
           /\ \A j \in Kind : Waiters(j)' = Waiters(j) /\ Sleepers(j)' \subseteq Sleepers(j)
BY DEF TypeOK, Leave, Holders, Waiters, Sleepers, Kind

LEMMA NotifyOneFacts ==
    ASSUME NEW k \in Kind, NEW S \in NotifyOne(k)
    PROVE  /\ S \subseteq asleep
           /\ Sleepers(k) # {} => Waiters(k) \ S # {}
BY DEF NotifyOne, Sleepers, Waiters

-----------------------------------------------------------------------------
(* A reader that enters or goes to sleep, from ReadLock or from Retry.     *)
LEMMA ReadTry ==
    ASSUME Inv, NEW t \in Thread, holds[t] = "none", t \notin asleep,
           waits[t] \in {"none", "read"}, TryRead(t), UNCHANGED <<write_cnt, in_write, in_critical_section>>
    PROVE  Inv'
<1> USE DEF Inv
<1>K. {"read", "write", "unique"} = Kind
  BY DEF Kind
<1>S. Holders("read") \in SUBSET Thread
  BY DEF Holders
<1>1. CASE CanRead
  <2>1. Enter(t, "read") /\ read_cnt' = read_cnt + 1
    BY <1>1 DEF TryRead
  <2>2. /\ Holders("read")' = Holders("read") \cup {t} /\ t \notin Holders("read")
        /\ Holders("write")' = Holders("write")
        /\ Waiters("write")' = Waiters("write") \ {t}
        /\ Sleepers("write")' = Sleepers("write") \ {t}
        /\ Sleepers("read")' = Sleepers("read") \ {t}
    BY <1>K, <2>1, EnterSets
  <2>3. Waiters("write")' = Waiters("write")
    BY <2>2 DEF Waiters
  <2>4. TypeOK' /\ WaitersApart'
    BY <2>1 DEF TypeOK, WaitersApart, Enter, Kind
  <2>5. CountersExact'
    BY <1>S, <2>1, <2>2, <2>3, CountAdd DEF CountersExact
  <2>6. write_cnt = 0 /\ Holders("write") = {}
    <3>1. Cardinality(Writers) = 0 /\ Writers \in SUBSET Thread
      BY <1>1 DEF CanRead, CountersExact, Writers, Holders, Waiters
    <3> QED
      BY <1>1, <3>1, CountZero DEF Writers, CanRead
  <2>7. Exclusion'
    BY <2>2, <2>6 DEF Exclusion
  <2>8. read_cnt' # 0
    BY <2>1 DEF TypeOK
  <2>9. NoStrandedWriter'
    BY <2>8 DEF NoStrandedWriter, CanWrite
  <2>10. NoStrandedReader'
    BY <1>1, <2>2 DEF NoStrandedReader
  <2> QED
    BY <2>4, <2>5, <2>7, <2>9, <2>10
<1>2. CASE ~CanRead
  <2>1. Sleep(t, "read") /\ read_cnt' = read_cnt
    BY <1>2 DEF TryRead
  <2>2. /\ Holders("read")' = Holders("read")
        /\ Holders("write")' = Holders("write")
        /\ Waiters("write")' = Waiters("write") /\ Sleepers("write")' = Sleepers("write")
    BY <1>K, <2>1, SleepSets
  <2>3. TypeOK' /\ WaitersApart'
    BY <2>1 DEF TypeOK, WaitersApart, Sleep, Kind
  <2>4. CountersExact' /\ Exclusion'
    BY <2>1, <2>2 DEF CountersExact, Exclusion
  <2>5. CanWrite' = CanWrite /\ CanRead' = CanRead
    BY <2>1 DEF CanWrite, CanRead
  <2>6. Waiters("write")' \ asleep' = Waiters("write") \ asleep
    BY <2>2 DEF Sleepers
  <2>7. NoStrandedWriter'
    BY <2>2, <2>5, <2>6 DEF NoStrandedWriter
  <2>8. NoStrandedReader'
    BY <1>2, <2>5 DEF NoStrandedReader
  <2> QED
    BY <2>3, <2>4, <2>7, <2>8
<1> QED
  BY <1>1, <1>2

(* A writer that enters or goes to sleep: write_cnt has it in either case. *)
LEMMA WriteTry ==
    ASSUME Inv, NEW t \in Thread, holds[t] = "none", t \notin asleep,
           \/ waits[t] = "none" /\ write_cnt' = write_cnt + 1
           \/ waits[t] = "write" /\ write_cnt' = write_cnt,
           TryWrite(t), UNCHANGED <<read_cnt, in_critical_section>>
    PROVE  Inv'
<1> USE DEF Inv
<1>K. {"read", "write", "unique"} = Kind
  BY DEF Kind
<1>S. /\ Holders("read") \in SUBSET Thread /\ Holders("write") \in SUBSET Thread
      /\ Writers \in SUBSET Thread
  BY DEF Holders, Waiters, Writers
<1>W. ASSUME Writers' = Writers \cup {t} PROVE write_cnt' = Cardinality(Writers')
  <2>1. write_cnt = Cardinality(Writers)
    BY DEF CountersExact, Writers
  <2>2. CASE waits[t] = "none" /\ write_cnt' = write_cnt + 1
    <3>1. t \notin Writers
      BY <2>2 DEF Writers, Holders, Waiters
    <3> QED
      BY <1>S, <1>W, <2>1, <2>2, <3>1, CountAdd
  <2>3. CASE waits[t] = "write" /\ write_cnt' = write_cnt
    <3>1. Writers' = Writers
      BY <1>W, <2>3 DEF Writers, Waiters
    <3> QED
      BY <2>1, <2>3, <3>1
  <2> QED
    BY <2>2, <2>3
<1>P. write_cnt' \in Nat
  BY DEF TypeOK
<1>1. CASE CanWrite
  <2>1. Enter(t, "write") /\ in_write' = TRUE
    BY <1>1 DEF TryWrite
  <2>2. /\ Holders("write")' = Holders("write") \cup {t}
        /\ Holders("read")' = Holders("read")
        /\ Waiters("write")' = Waiters("write") \ {t}
        /\ Sleepers("read")' = Sleepers("read") \ {t}
    BY <1>K, <2>1, EnterSets
  <2>3. TypeOK' /\ WaitersApart'
    BY <1>P, <2>1 DEF TypeOK, WaitersApart, Enter, Kind
  <2>4. write_cnt' = Cardinality(Writers')
    BY <1>W, <2>2 DEF Writers
  <2>5. CountersExact'
    BY <2>1, <2>2, <2>4 DEF CountersExact, Writers
  <2>6. Holders("read") = {} /\ Holders("write") = {}
    BY <1>1, <1>S, CountZero DEF CanWrite, CountersExact
  <2>7. Exclusion'
    BY <2>2, <2>6 DEF Exclusion
  <2>8. NoStrandedWriter'
    BY <2>1 DEF NoStrandedWriter, CanWrite
  <2>9. write_cnt' # 0
    <3>1. Writers' # {} /\ Writers' \in SUBSET Thread
      BY <1>S, <2>2 DEF Writers
    <3> QED
      BY <2>4, <3>1, CountZero
  <2>10. NoStrandedReader'
    BY <2>9 DEF NoStrandedReader, CanRead
  <2> QED
    BY <2>3, <2>5, <2>7, <2>8, <2>10
<1>2. CASE ~CanWrite
  <2>1. Sleep(t, "write") /\ in_write' = in_write
    BY <1>2 DEF TryWrite
  <2>2. /\ Holders("write")' = Holders("write")
        /\ Holders("read")' = Holders("read")
        /\ Waiters("write")' = Waiters("write") \cup {t}
        /\ Sleepers("read")' = Sleepers("read")
    BY <1>K, <2>1, SleepSets
  <2>3. TypeOK' /\ WaitersApart'
    BY <1>P, <2>1 DEF TypeOK, WaitersApart, Sleep, Kind
  <2>4. write_cnt' = Cardinality(Writers')
    BY <1>W, <2>2 DEF Writers
  <2>5. CountersExact' /\ Exclusion'
    BY <2>1, <2>2, <2>4 DEF CountersExact, Writers, Exclusion
  <2>6. NoStrandedWriter'
    BY <1>2, <2>1 DEF NoStrandedWriter, CanWrite
  <2>7. write_cnt' # 0
    <3>1. Writers' # {} /\ Writers' \in SUBSET Thread
      BY <1>S, <2>2 DEF Writers
    <3> QED
      BY <2>4, <3>1, CountZero
  <2>8. NoStrandedReader'
    BY <2>7 DEF NoStrandedReader, CanRead
  <2> QED
    BY <2>3, <2>5, <2>6, <2>8
<1> QED
  BY <1>1, <1>2

(* A thread that calls Lock inside another lock does not get in: the       *)
(* counters count its own.                                                 *)
LEMMA NotInside ==
    ASSUME Inv, NEW t \in Thread, holds[t] # "unique", CanLock
    PROVE  holds[t] = "none"
<1>1. Cardinality(Holders("read")) = 0 /\ Cardinality(Writers) = 0
  BY DEF CanLock, Inv, CountersExact, Writers
<1>2. Holders("read") \in SUBSET Thread /\ Writers \in SUBSET Thread
  BY DEF Holders, Waiters, Writers
<1>3. Holders("read") = {} /\ Writers = {}
  BY <1>1, <1>2, CountZero
<1>4. holds[t] # "read" /\ holds[t] # "write"
  BY <1>3 DEF Writers, Holders
<1> QED
  BY <1>4 DEF Inv, TypeOK, Kind

(* The critical section disturbs neither readers nor writers: its flag     *)
(* only keeps readers out.                                                 *)
LEMMA LockTry ==
    ASSUME Inv, NEW t \in Thread, holds[t] # "unique", t \notin asleep,
           waits[t] \in {"none", "unique"}, TryLock(t), UNCHANGED <<read_cnt, write_cnt, in_write>>
    PROVE  Inv'
<1> USE DEF Inv
<1>K. {"read", "write", "unique"} = Kind
  BY DEF Kind
<1>1. \/ /\ Enter(t, "unique") /\ in_critical_section' = TRUE
         /\ holds[t] = "none"
      \/ Sleep(t, "unique") /\ in_critical_section' = in_critical_section
  <2>1. CanLock => holds[t] = "none"
    BY NotInside
  <2> QED
    BY <2>1 DEF TryLock
<1>2. /\ Holders("read")' = Holders("read") /\ Holders("write")' = Holders("write")
      /\ Waiters("write")' = Waiters("write")
      /\ Sleepers("write")' = Sleepers("write") /\ Sleepers("read")' = Sleepers("read")
  <2>1. \A j \in {"read", "write"} : Waiters(j) \ {t} = Waiters(j) /\ Sleepers(j) \ {t} = Sleepers(j)
    BY DEF Waiters, Sleepers
  <2> QED
    BY <1>1, <1>K, <2>1, EnterSets, SleepSets
<1>3. TypeOK' /\ WaitersApart'
  BY <1>1 DEF TypeOK, WaitersApart, Enter, Sleep, Kind
<1>4. CountersExact' /\ Exclusion'
  BY <1>2 DEF CountersExact, Exclusion
<1>5. Waiters("write")' \ asleep' = Waiters("write") \ asleep
  BY <1>2 DEF Sleepers
<1>6. NoStrandedWriter'
  BY <1>2, <1>5 DEF NoStrandedWriter, CanWrite
<1>7. CanRead' => CanRead
  BY <1>1 DEF CanRead, TypeOK
<1>8. NoStrandedReader'
  BY <1>2, <1>7 DEF NoStrandedReader
<1> QED
  BY <1>3, <1>4, <1>6, <1>8

-----------------------------------------------------------------------------
(* The last reader to leave wakes a writer when one sleeps.                *)
LEMMA ReadUnlockStep == ASSUME Inv, NEW t \in Thread, ReadUnlock(t) PROVE Inv'
<1> USE DEF Inv
<1>K. {"read", "write", "unique"} = Kind
  BY DEF Kind
<1>0. Leave(t, "read") /\ read_cnt' = read_cnt - 1 /\ UNCHANGED <<write_cnt, in_write, in_critical_section>>
  BY DEF ReadUnlock
<1>1. asleep' \subseteq asleep
  BY <1>K, NotifyOneFacts DEF ReadUnlock
<1>2. /\ Holders("read")' = Holders("read") \ {t} /\ t \in Holders("read")
      /\ Holders("write")' = Holders("write")
      /\ Waiters("write")' = Waiters("write")
      /\ Sleepers("write")' \subseteq Sleepers("write")
      /\ Sleepers("read")' \subseteq Sleepers("read")
  BY <1>K, <1>0, <1>1, LeaveSets
<1>3. Holders("read") \in SUBSET Thread
  BY DEF Holders
<1>4. read_cnt >= 1 /\ read_cnt' = Cardinality(Holders("read"))'
  BY <1>0, <1>2, <1>3, CountRemove DEF CountersExact
<1>5. TypeOK' /\ WaitersApart'
  BY <1>0, <1>1, <1>4 DEF TypeOK, WaitersApart, Leave, Kind
<1>6. CountersExact' /\ Exclusion'
  BY <1>0, <1>2, <1>4 DEF CountersExact, Exclusion
<1>7. NoStrandedReader'
  BY <1>0, <1>2 DEF NoStrandedReader, CanRead
<1>8. ASSUME CanWrite', Sleepers("write")' # {} PROVE Waiters("write")' \ asleep' # {}
  <2>1. read_cnt = 1
    BY <1>0, <1>8 DEF CanWrite, TypeOK
  <2>2. Writers # {} /\ Writers \in SUBSET Thread /\ Sleepers("write") # {}
    BY <1>2, <1>8 DEF Writers, Sleepers, Waiters, Holders
  <2>3. write_cnt > 0
    <3>1. write_cnt = Cardinality(Writers) /\ write_cnt \in Nat
      BY DEF CountersExact, Writers, TypeOK
    <3> QED
      BY <2>2, <3>1, CountZero
  <2>4. asleep' \in NotifyOne("write")
    BY <2>1, <2>3 DEF ReadUnlock
  <2> QED
    BY <1>2, <1>K, <2>2, <2>4, NotifyOneFacts
<1>9. NoStrandedWriter'
  BY <1>8 DEF NoStrandedWriter
<1> QED
  BY <1>5, <1>6, <1>7, <1>9

(* A writer that leaves wakes the next one, or, the last, all readers.     *)
LEMMA WriteUnlockStep == ASSUME Inv, NEW t \in Thread, WriteUnlock(t) PROVE Inv'
<1> USE DEF Inv
<1>K. {"read", "write", "unique"} = Kind
  BY DEF Kind
<1>0. /\ Leave(t, "write") /\ in_write' = FALSE /\ write_cnt' = write_cnt - 1
      /\ UNCHANGED <<read_cnt, in_critical_section>>
  BY DEF WriteUnlock
<1>1. asleep' \subseteq asleep
  BY <1>K, NotifyOneFacts DEF WriteUnlock, NotifyAll
<1>2. /\ Holders("write")' = Holders("write") \ {t} /\ t \in Holders("write")
      /\ Holders("read")' = Holders("read")
      /\ Waiters("write")' = Waiters("write")
      /\ Sleepers("write")' \subseteq Sleepers("write")
      /\ Sleepers("read")' \subseteq Sleepers("read")
  BY <1>K, <1>0, <1>1, LeaveSets
<1>3. Holders("write")' = {}
  BY <1>2 DEF Exclusion
<1>4. write_cnt >= 1 /\ write_cnt' = Cardinality(Writers')
  <2>1. t \in Writers /\ Writers \in SUBSET Thread /\ write_cnt = Cardinality(Writers)
    BY <1>2 DEF Writers, Holders, Waiters, CountersExact
  <2>2. t \notin Waiters("write")
    BY <1>2 DEF Holders, Waiters, WaitersApart
  <2>3. Writers' = Writers \ {t}
    BY <1>2, <2>2 DEF Writers
  <2> QED
    BY <1>0, <2>1, <2>3, CountRemove
<1>5. TypeOK' /\ WaitersApart'
  <2>1. write_cnt \in Nat /\ write_cnt >= 1 /\ write_cnt' = write_cnt - 1
    BY <1>0, <1>4 DEF TypeOK
  <2>2. write_cnt' \in Nat
    BY <2>1
  <2>3. TypeOK'
    BY <1>0, <1>1, <2>2 DEF TypeOK, Leave, Kind
  <2> QED
    BY <1>0, <1>1, <2>3 DEF TypeOK, WaitersApart, Leave, Kind
<1>6. CountersExact' /\ Exclusion'
  BY <1>0, <1>2, <1>3, <1>4 DEF CountersExact, Exclusion, Writers
<1>7. ASSUME CanRead' PROVE Sleepers("read")' = {}
  <2>1. write_cnt = 1
    BY <1>0, <1>7 DEF CanRead, TypeOK
  <2>2. asleep' = NotifyAll("read") /\ waits' = waits
    BY <1>0, <2>1 DEF WriteUnlock, Leave
  <2> QED
    BY <2>2 DEF NotifyAll, Sleepers, Waiters
<1>8. NoStrandedReader'
  BY <1>7 DEF NoStrandedReader
<1>9. ASSUME Sleepers("write")' # {} PROVE Waiters("write")' \ asleep' # {}
  <2>1. PICK u \in Sleepers("write") : TRUE
    BY <1>2, <1>9
  <2>2. t \in Writers /\ u \in Writers /\ t # u /\ Writers \in SUBSET Thread
    BY <1>2, <2>1 DEF Writers, Sleepers, Holders, Waiters, WaitersApart
  <2>3. write_cnt >= 2
    BY <2>2, CountTwo DEF CountersExact, Writers
  <2>4. asleep' \in NotifyOne("write")
    BY <2>3 DEF WriteUnlock
  <2> QED
    BY <1>2, <1>K, <2>1, <2>4, NotifyOneFacts
<1>10. NoStrandedWriter'
  BY <1>9 DEF NoStrandedWriter
<1> QED
  BY <1>5, <1>6, <1>8, <1>10

(* Leaving the critical section wakes all readers.                         *)
LEMMA UnlockStep == ASSUME Inv, NEW t \in Thread, Unlock(t) PROVE Inv'
<1> USE DEF Inv
<1>K. {"read", "write", "unique"} = Kind
  BY DEF Kind
<1>0. /\ Leave(t, "unique") /\ in_critical_section' = FALSE
      /\ UNCHANGED <<read_cnt, write_cnt, in_write>>
  BY DEF Unlock
<1>1. PICK u \in NotifyOne("unique"), w \in NotifyOne("write") :
                 asleep' = u \cap w \cap NotifyAll("read")
  BY DEF Unlock
<1>2. asleep' \subseteq asleep
  BY <1>1 DEF NotifyAll
<1>3. /\ Holders("read")' = Holders("read") /\ Holders("write")' = Holders("write")
      /\ Waiters("write")' = Waiters("write")
      /\ Sleepers("write")' \subseteq Sleepers("write")
  BY <1>K, <1>0, <1>2, LeaveSets
<1>4. TypeOK' /\ WaitersApart'
  BY <1>0, <1>2 DEF TypeOK, WaitersApart, Leave, Kind
<1>5. CountersExact' /\ Exclusion'
  BY <1>0, <1>3 DEF CountersExact, Exclusion
<1>6. Sleepers("read")' = {}
  BY <1>0, <1>1 DEF NotifyAll, Sleepers, Waiters, Leave
<1>7. NoStrandedReader'
  BY <1>6 DEF NoStrandedReader
<1>8. NoStrandedWriter'
  BY <1>0, <1>2, <1>3 DEF NoStrandedWriter, CanWrite
<1> QED
  BY <1>4, <1>5, <1>7, <1>8

LEMMA SpuriousWakeStep == ASSUME Inv, NEW t \in Thread, SpuriousWake(t) PROVE Inv'
<1> USE DEF Inv
<1>1. /\ Holders("read")' = Holders("read") /\ Holders("write")' = Holders("write")
      /\ Waiters("write")' = Waiters("write")
      /\ Sleepers("write")' \subseteq Sleepers("write")
      /\ Sleepers("read")' \subseteq Sleepers("read")
      /\ asleep' \subseteq asleep
  BY DEF SpuriousWake, Holders, Waiters, Sleepers
<1>2. TypeOK' /\ WaitersApart'
  BY DEF SpuriousWake, TypeOK, WaitersApart, counters
<1>3. CountersExact' /\ Exclusion'
  BY <1>1 DEF SpuriousWake, counters, CountersExact, Exclusion
<1>4. NoStrandedWriter' /\ NoStrandedReader'
  BY <1>1 DEF SpuriousWake, counters, NoStrandedWriter, NoStrandedReader, CanWrite, CanRead
<1> QED
  BY <1>2, <1>3, <1>4

-----------------------------------------------------------------------------
LEMMA InvStep == Inv /\ [Next]_vars => Inv'
<1> SUFFICES ASSUME Inv, [Next]_vars PROVE Inv'
  OBVIOUS
<1>1. CASE UNCHANGED vars
  BY <1>1 DEF vars, counters, Inv, TypeOK, WaitersApart, CountersExact, Exclusion,
              NoStrandedWriter, NoStrandedReader, CanWrite, CanRead,
              Holders, Waiters, Sleepers
<1>2. ASSUME NEW t \in Thread, ReadLock(t) PROVE Inv'
  BY <1>2, ReadTry DEF ReadLock, Outside, Inv, WaitersApart
<1>3. ASSUME NEW t \in Thread, WriteLock(t) PROVE Inv'
  BY <1>3, WriteTry DEF WriteLock, Outside, Inv, WaitersApart
<1>4. ASSUME NEW t \in Thread, Lock(t) PROVE Inv'
  BY <1>4, LockTry DEF Lock, Outside, Inv, WaitersApart
<1>8. ASSUME NEW t \in Thread, LockInside(t) PROVE Inv'
  BY <1>8, LockTry DEF LockInside, Inv, WaitersApart
<1>5. ASSUME NEW t \in Thread, Retry(t) PROVE Inv'
  <2>1. /\ waits[t] \in {"read", "write"} => holds[t] = "none"
        /\ waits[t] = "unique" => holds[t] # "unique"
    BY DEF Inv, WaitersApart
  <2>2. CASE waits[t] = "read" /\ TryRead(t) /\ UNCHANGED <<write_cnt, in_write, in_critical_section>>
    BY <1>5, <2>1, <2>2, ReadTry DEF Retry
  <2>3. CASE waits[t] = "write" /\ TryWrite(t) /\ UNCHANGED <<read_cnt, write_cnt, in_critical_section>>
    BY <1>5, <2>1, <2>3, WriteTry DEF Retry
  <2>4. CASE waits[t] = "unique" /\ TryLock(t) /\ UNCHANGED <<read_cnt, write_cnt, in_write>>
    BY <1>5, <2>1, <2>4, LockTry DEF Retry
  <2> QED
    BY <1>5, <2>2, <2>3, <2>4 DEF Retry
<1>6. ASSUME NEW t \in Thread, Release(t) PROVE Inv'
  BY <1>6, ReadUnlockStep, WriteUnlockStep, UnlockStep DEF Release
<1>7. ASSUME NEW t \in Thread, SpuriousWake(t) PROVE Inv'
  BY <1>7, SpuriousWakeStep
<1> QED
  BY <1>1, <1>2, <1>3, <1>4, <1>5, <1>6, <1>7, <1>8 DEF Next

(* The inductive invariant of the mutex holds in every reachable state:    *)
(* counters, exclusion, and a woken waiter wherever one could enter.       *)
THEOREM Invariance == Spec => []Inv
<1> QED
  BY InvInit, InvStep, PTL DEF Spec

(* The types hold, and with them no counter goes below zero                *)
(* (rw_mutex.h:59, 75).                                                    *)
THEOREM TypeCorrect == Spec => []TypeOK
BY Invariance, PTL DEF Inv

(* No writer is in beside a reader or another writer, whatever Lock does   *)
(* beside or inside their locks (rw_mutex.h:53, 68).                       *)
THEOREM ReadersOrOneWriter == Spec => []Exclusion
BY Invariance, PTL DEF Inv

(* The counters are exact: queued writers are counted (rw_mutex.h:54-75).  *)
THEOREM CountersAreExact == Spec => []CountersExact
BY Invariance, PTL DEF Inv

(* The notify_one of the last reader and of a writer that leaves are       *)
(* enough for writers, and no reader sleeps on a lock it could take,       *)
(* whatever Lock does beside them, also inside their own locks; of the     *)
(* sleepers of Lock it says nothing (rw_mutex.h:53, 60, 77, 79, 94).       *)
THEOREM NobodyIsStranded == Spec => []NoStranded
BY Invariance, PTL DEF Inv, NoStranded
=============================================================================
