---------------------------- MODULE LoggerProofs -----------------------------
(***************************************************************************)
(* Proofs about RingBuffer and Logger (mjber/logger.h), for any size of    *)
(* the ring and any number of callers and entries.                         *)
(***************************************************************************)
EXTENDS Logger, TLAPS

-----------------------------------------------------------------------------
(* The ring: positions wrap once at most, so that each slot is one of two  *)
(* sums, and % can be left behind.                                         *)
Wrapped(a) == IF a < N THEN a ELSE a - N

LEMMA Wrap == \A a \in 0..(2*N - 1) : a % N = Wrapped(a)
BY RingAssumption DEF Wrapped

SlotsWrap == \A i \in 1..N : Slot(i) = Wrapped(head + i - 1)
AlignedWrap == tail = Wrapped(head + count)

LEMMA PositionsWrap == RingTypeOK => SlotsWrap /\ (Aligned <=> AlignedWrap)
<1> SUFFICES ASSUME RingTypeOK PROVE SlotsWrap /\ (Aligned <=> AlignedWrap)
  OBVIOUS
<1>1. head + count \in 0..(2*N - 1) /\ \A i \in 1..N : head + i - 1 \in 0..(2*N - 1)
  BY RingAssumption DEF RingTypeOK
<1> QED
  BY <1>1, Wrap DEF SlotsWrap, AlignedWrap, Aligned, Slot

LEMMA SuccWrap == \A j \in 0..N-1 : Succ(j) = Wrapped(j + 1)
<1>1. \A j \in 0..N-1 : j + 1 \in 0..(2*N - 1)
  BY RingAssumption
<1> QED
  BY <1>1, Wrap DEF Succ

(* Contents, position by position.                                         *)
ContentsOK == /\ Contents \in Seq(Entry) /\ Len(Contents) = count
              /\ \A i \in 1..count : Contents[i] = buffer[Slot(i)]

LEMMA ContentsSeq == RingTypeOK => ContentsOK
<1> SUFFICES ASSUME RingTypeOK PROVE ContentsOK
  OBVIOUS
<1>1. count \in Nat /\ \A i \in 1..count : i \in 1..N
  BY RingAssumption DEF RingTypeOK
<1>2. \A i \in 1..N : Slot(i) \in 0..N-1
  BY RingAssumption, PositionsWrap DEF RingTypeOK, SlotsWrap, Wrapped
<1>3. \A i \in 1..count : buffer[Slot(i)] \in Entry
  BY <1>1, <1>2 DEF RingTypeOK
<1> QED
  BY <1>1, <1>3 DEF Contents, ContentsOK

(* push adds at the end, and a full ring loses its oldest entry.           *)
LEMMA PushKeepsType ==
    ASSUME RingTypeOK, Aligned, NEW e \in Entry, push(e)
    PROVE  RingTypeOK' /\ Aligned'
<1>1. /\ N \in Nat /\ N >= 1 /\ head \in 0..N-1 /\ tail \in 0..N-1 /\ count \in 0..N
      /\ buffer \in [0..N-1 -> Entry]
  BY RingAssumption DEF RingTypeOK
<1>2. tail = Wrapped(head + count)
  BY PositionsWrap DEF AlignedWrap
<1>3. /\ tail' = Wrapped(tail + 1) /\ buffer' = [buffer EXCEPT ![tail] = e]
      /\ count' = IF count = N THEN N ELSE count + 1
      /\ head' = IF count = N THEN Wrapped(head + 1) ELSE head
  BY <1>1, SuccWrap DEF push
<1>4. RingTypeOK'
  BY <1>1, <1>3 DEF RingTypeOK, Wrapped
<1>5. AlignedWrap'
  BY <1>1, <1>2, <1>3 DEF AlignedWrap, Wrapped
<1> QED
  BY <1>4, <1>5, PositionsWrap, PTL

LEMMA PushContents ==
    ASSUME RingTypeOK, Aligned, NEW e \in Entry, push(e)
    PROVE  Contents' = Append(IF count = N THEN Tail(Contents) ELSE Contents, e)
<1>1. /\ N \in Nat /\ N >= 1 /\ head \in 0..N-1 /\ tail \in 0..N-1 /\ count \in 0..N
      /\ buffer \in [0..N-1 -> Entry]
  BY RingAssumption DEF RingTypeOK
<1>2. tail = Wrapped(head + count) /\ \A i \in 1..N : Slot(i) = Wrapped(head + i - 1)
  BY PositionsWrap DEF AlignedWrap, SlotsWrap
<1>3. /\ buffer' = [buffer EXCEPT ![tail] = e]
      /\ count' = IF count = N THEN N ELSE count + 1
      /\ head' = IF count = N THEN Wrapped(head + 1) ELSE head
  BY <1>1, SuccWrap DEF push
<1>4. SlotsWrap' /\ ContentsOK'
  BY PushKeepsType, PositionsWrap, ContentsSeq, PTL
<1>5. \A i \in 1..N : Slot(i)' = Wrapped(head' + i - 1)
  BY <1>4 DEF SlotsWrap, Wrapped
<1>6. Contents \in Seq(Entry) /\ Len(Contents) = count
      /\ \A i \in 1..count : Contents[i] = buffer[Slot(i)]
  BY ContentsSeq DEF ContentsOK
<1>7. Contents' \in Seq(Entry) /\ Len(Contents') = count'
      /\ \A i \in 1..count' : Contents'[i] = buffer'[Slot(i)']
  BY <1>4 DEF ContentsOK
<1>8. CASE count # N
  <2>1. count' = count + 1 /\ head' = head
    BY <1>3, <1>8
  <2>2. \A i \in 1..N : i = count + 1 => Slot(i)' = tail
    BY <1>1, <1>2, <1>5, <1>8, <2>1
  <2>3. \A i \in 1..count : Slot(i)' = Slot(i) /\ Slot(i) # tail /\ Slot(i) \in 0..N-1
    BY <1>1, <1>2, <1>5, <1>8, <2>1 DEF Wrapped
  <2>4. Contents'[count + 1] = e
    BY <1>1, <1>3, <1>7, <2>1, <2>2
  <2>5. \A i \in 1..count : Contents'[i] = Contents[i]
    BY <1>1, <1>3, <1>6, <1>7, <2>1, <2>3
  <2>6. Contents' = Append(Contents, e)
    BY <1>1, <1>6, <1>7, <2>1, <2>4, <2>5
  <2> QED
    BY <1>8, <2>6
<1>9. CASE count = N
  <2>1. count' = N /\ head' = Wrapped(head + 1)
    BY <1>3, <1>9
  <2>2. Slot(N)' = tail
    BY <1>1, <1>2, <1>5, <1>9, <2>1 DEF Wrapped
  <2>3. \A i \in 1..(N-1) : /\ Slot(i)' = Slot(i + 1) /\ Slot(i + 1) # tail
                            /\ Slot(i + 1) \in 0..N-1
    BY <1>1, <1>2, <1>5, <1>9, <2>1 DEF Wrapped
  <2>4. Contents'[N] = e
    BY <1>1, <1>3, <1>7, <2>1, <2>2
  <2>5. \A i \in 1..(N-1) : Contents'[i] = Contents[i + 1]
    <3> SUFFICES ASSUME NEW i \in 1..(N-1) PROVE Contents'[i] = Contents[i + 1]
      OBVIOUS
    <3>1. Contents'[i] = buffer'[Slot(i + 1)] /\ Contents[i + 1] = buffer[Slot(i + 1)]
      BY <1>1, <1>6, <1>7, <1>9, <2>1, <2>3
    <3>2. buffer'[Slot(i + 1)] = buffer[Slot(i + 1)]
      BY <1>1, <1>3, <2>3
    <3> QED
      BY <3>1, <3>2
  <2>6. Tail(Contents) \in Seq(Entry) /\ Len(Tail(Contents)) = N - 1
        /\ \A i \in 1..(N-1) : Tail(Contents)[i] = Contents[i + 1]
    BY <1>1, <1>6, <1>9
  <2>7. Contents' = Append(Tail(Contents), e)
    BY <1>1, <1>7, <2>1, <2>4, <2>5, <2>6
  <2> QED
    BY <1>9, <2>7
<1> QED
  BY <1>8, <1>9

(* pop takes the oldest entry.                                             *)
LEMMA PopKeepsType ==
    ASSUME RingTypeOK, Aligned, pop
    PROVE  RingTypeOK' /\ Aligned'
<1>1. /\ N \in Nat /\ N >= 1 /\ head \in 0..N-1 /\ tail \in 0..N-1 /\ count \in 1..N
      /\ buffer \in [0..N-1 -> Entry]
  BY RingAssumption DEF RingTypeOK, pop
<1>2. tail = Wrapped(head + count)
  BY PositionsWrap DEF AlignedWrap
<1>3. /\ tail' = tail /\ buffer' = buffer /\ count' = count - 1 /\ head' = Wrapped(head + 1)
  BY <1>1, SuccWrap DEF pop
<1>4. RingTypeOK'
  BY <1>1, <1>3 DEF RingTypeOK, Wrapped
<1>5. AlignedWrap'
  BY <1>1, <1>2, <1>3 DEF AlignedWrap, Wrapped
<1> QED
  BY <1>4, <1>5, PositionsWrap, PTL

LEMMA PopContents ==
    ASSUME RingTypeOK, Aligned, pop
    PROVE  /\ count > 0 /\ Oldest = Contents[1] /\ Oldest \in Entry
           /\ Contents # <<>> /\ Contents' = Tail(Contents)
<1>1. /\ N \in Nat /\ N >= 1 /\ head \in 0..N-1 /\ count \in 1..N
      /\ buffer \in [0..N-1 -> Entry]
  BY RingAssumption DEF RingTypeOK, pop
<1>2. \A i \in 1..N : Slot(i) = Wrapped(head + i - 1)
  BY PositionsWrap DEF SlotsWrap
<1>3. /\ buffer' = buffer /\ count' = count - 1 /\ head' = Wrapped(head + 1)
  BY <1>1, SuccWrap DEF pop
<1>4. SlotsWrap' /\ ContentsOK'
  BY PopKeepsType, PositionsWrap, ContentsSeq, PTL
<1>5. \A i \in 1..(count - 1) : Slot(i)' = Slot(i + 1)
  BY <1>1, <1>2, <1>3, <1>4 DEF SlotsWrap, Wrapped
<1>6. Contents \in Seq(Entry) /\ Len(Contents) = count
      /\ \A i \in 1..count : Contents[i] = buffer[Slot(i)]
  BY ContentsSeq DEF ContentsOK
<1>7. Contents' \in Seq(Entry) /\ Len(Contents') = count'
      /\ \A i \in 1..count' : Contents'[i] = buffer'[Slot(i)']
  BY <1>4 DEF ContentsOK
<1>8. Oldest = Contents[1] /\ Oldest \in Entry
  <2>1. Slot(1) = head
    BY <1>1, <1>2 DEF Wrapped
  <2> QED
    BY <1>1, <1>6, <2>1 DEF Oldest
<1>9. \A i \in 1..(count - 1) : Contents'[i] = Contents[i + 1]
  BY <1>1, <1>3, <1>5, <1>6, <1>7
<1>10. Contents' = Tail(Contents) /\ Contents # <<>>
  BY <1>1, <1>3, <1>6, <1>7, <1>9
<1> QED
  BY <1>1, <1>8, <1>10
-----------------------------------------------------------------------------
(* The ring implements the bounded queue.                                  *)
LEMMA PushIsPut ==
    ASSUME RingTypeOK, Aligned, NEW e \in Entry, push(e)
    PROVE  LogSpec!Put(e)
<1>1. Len(Contents) = count
  BY ContentsSeq DEF ContentsOK
<1>2. Contents' = Append(IF Len(Contents) = N THEN Tail(Contents) ELSE Contents, e)
  BY <1>1, PushContents
<1> QED
  BY <1>2 DEF LogSpec!Put

-----------------------------------------------------------------------------
(* What the worker holds in its hands, and what the destructor has done.   *)
Places == /\ wpc = "write" <=> event # 0
          /\ wpc = "done" => stop
          /\ dtor = "alive" <=> ~stop
          /\ atStop <= pushed

Numbered == \A i \in 1..count : Contents[i] = pushed - count + i

(* Entries that were written are older than the one the worker holds,      *)
(* which is older than those in the ring.                                  *)
Older == /\ count <= pushed
         /\ event <= pushed - count
         /\ \A i \in 1..Len(written) : /\ written[i] <= pushed - count
                                       /\ event # 0 => written[i] < event

(* SleepsOnlyByLostWake as it is while the worker holds the mutex.         *)
AwakeOrMissed ==
    wpc \in {"block", "asleep"} /\ ~empty /\ (\A c \in Caller : cpc[c] = "idle") => missed

Inv == /\ TypeOK /\ Aligned
       /\ Places /\ Numbered /\ Older
       /\ WrittenInOrder /\ OnlyOverwrittenLost /\ DrainedAtExit
       /\ AwakeOrMissed

Ranged == InRing = (pushed - count + 1)..pushed

LEMMA RingRange == TypeOK /\ Older /\ Numbered => Ranged
<1> SUFFICES ASSUME TypeOK, Older, Numbered PROVE Ranged
  OBVIOUS
<1>1. count \in Nat /\ pushed \in Nat /\ count <= pushed
  BY RingAssumption, LoggerAssumption DEF TypeOK, RingTypeOK, Older
<1>2. \A i \in 1..count : Contents[i] \in (pushed - count + 1)..pushed
  BY <1>1 DEF Numbered
<1>3. ASSUME NEW x \in (pushed - count + 1)..pushed PROVE \E i \in 1..count : x = Contents[i]
  <2>1. x - (pushed - count) \in 1..count
    BY <1>1
  <2>2. Contents[x - (pushed - count)] = x
    BY <1>1, <2>1 DEF Numbered
  <2> QED
    BY <2>1, <2>2
<1> QED
  BY <1>2, <1>3 DEF Ranged, InRing

LEMMA InvInit == Init => Inv /\ Contents = <<>>
<1> SUFFICES ASSUME Init PROVE Inv /\ Contents = <<>>
  OBVIOUS
<1>1. RingTypeOK /\ count = 0
  BY RingAssumption DEF Init, RingInit, RingTypeOK
<1>2. Aligned
  BY <1>1, PositionsWrap, RingAssumption DEF Init, RingInit, AlignedWrap, Wrapped
<1>3. Contents = <<>>
  BY <1>1, ContentsSeq DEF ContentsOK
<1>4. TypeOK
  <2>1. 0 \in 0..MaxEntry /\ written \in Seq(Entry)
    BY LoggerAssumption DEF Init
  <2> QED
    BY <1>1, <2>1 DEF Init, TypeOK, WorkerPC
<1>5. 1..count = {} /\ 1..pushed = {} /\ 1..Len(written) = {} /\ 1..atStop = {}
  BY <1>1 DEF Init
<1>6. Places /\ Numbered /\ Older /\ WrittenInOrder
  BY <1>1, <1>5 DEF Init, Places, Numbered, Older, WrittenInOrder
<1>7. OnlyOverwrittenLost /\ DrainedAtExit /\ AwakeOrMissed
  <2>1. Lost = {}
    BY <1>5 DEF Lost
  <2>2. wpc = "test"
    BY DEF Init
  <2> QED
    BY <2>1, <2>2 DEF OnlyOverwrittenLost, DrainedAtExit, AwakeOrMissed
<1> QED
  BY <1>2, <1>3, <1>4, <1>6, <1>7 DEF Inv

(* Log: the entry comes after all others, and may cost the oldest.         *)
LEMMA LogStep == ASSUME Inv, NEW c \in Caller, Log(c) PROVE Inv' /\ LogSpec!Next
<1> DEFINE e == pushed + 1
<1>1. /\ cpc[c] = "idle" /\ push(pushed + 1) /\ pushed < MaxEntry /\ pushed' = pushed + 1
      /\ cpc' = [cpc EXCEPT ![c] = "notify"]
      /\ UNCHANGED <<event, wpc, written, stop, dtor, atStop, missed>>
  BY DEF Log, worker, main
<1>2. pushed + 1 \in Entry /\ RingTypeOK /\ Aligned /\ count \in 0..N /\ N \in Nat \ {0}
      /\ pushed \in Nat
  BY <1>1, LoggerAssumption, RingAssumption DEF Inv, TypeOK, RingTypeOK
<1>3. RingTypeOK' /\ Aligned'
  BY <1>1, <1>2, PushKeepsType
<1>4. count' = IF count = N THEN N ELSE count + 1
  BY <1>1 DEF push
<1>5. /\ Contents \in Seq(Entry) /\ Len(Contents) = count
      /\ Contents' = Append(IF count = N THEN Tail(Contents) ELSE Contents, pushed + 1)
  BY <1>1, <1>2, PushContents, ContentsSeq DEF ContentsOK
<1>6. TypeOK'
  BY <1>1, <1>2, <1>3, LoggerAssumption DEF Inv, TypeOK
<1>7. Places' /\ Older'
  BY <1>1, <1>2, <1>4, LoggerAssumption DEF Inv, Places, Older, TypeOK
<1>8. Numbered'
  <2>1. CASE count # N
    BY <1>1, <1>2, <1>4, <1>5, <2>1 DEF Inv, Numbered
  <2>2. CASE count = N
    BY <1>1, <1>2, <1>4, <1>5, <2>2 DEF Inv, Numbered
  <2> QED
    BY <2>1, <2>2
<1>9. InRing' \subseteq InRing \cup {pushed + 1} /\ InRing \subseteq InRing' \cup {pushed + 1 - N}
  <2>1. Ranged
    BY <1>2, RingRange DEF Inv, Older
  <2>2. Ranged'
    BY <1>6, <1>7, <1>8, RingRange, PTL
  <2> QED
    BY <1>1, <1>2, <1>4, <2>1, <2>2 DEF Inv, Older, Ranged
<1>10. OnlyOverwrittenLost'
  <2> SUFFICES ASSUME NEW x \in Lost' PROVE x + N <= pushed'
    BY DEF OnlyOverwrittenLost
  <2>1. x \in 1..(pushed + 1) /\ x \notin InRing' /\ x \notin Written' /\ x # event'
    BY <1>1 DEF Lost
  <2>2. pushed + 1 \in InRing'
    <3>1. count' \in 1..count' /\ Contents'[count'] = pushed'
      BY <1>1, <1>2, <1>4, <1>8 DEF Numbered
    <3> QED
      BY <1>1, <3>1 DEF InRing
  <2>3. Written' = Written /\ event' = event
    BY <1>1 DEF Written
  <2>4. CASE x = pushed + 1 - N
    BY <1>1, <1>2, <2>4
  <2>5. CASE x # pushed + 1 - N
    <3>1. x \in Lost
      BY <1>2, <1>9, <2>1, <2>2, <2>3, <2>5 DEF Lost
    <3> QED
      BY <1>1, <1>2, <3>1 DEF Inv, OnlyOverwrittenLost, Lost
  <2> QED
    BY <2>4, <2>5
<1>11. DrainedAtExit'
  <2>1. \A x \in 1..atStop : x # pushed + 1
    BY <1>2 DEF Inv, Places, TypeOK
  <2> QED
    BY <1>1, <1>9, <2>1 DEF Inv, DrainedAtExit
<1>12. WrittenInOrder' /\ AwakeOrMissed'
  <2>1. cpc'[c] = "notify"
    BY <1>1 DEF Inv, TypeOK
  <2>2. AwakeOrMissed'
    BY <2>1 DEF AwakeOrMissed
  <2> QED
    BY <1>1, <2>2 DEF Inv, WrittenInOrder
<1>13. LogSpec!Next
  BY <1>1, <1>2, PushIsPut DEF LogSpec!Next
<1> QED
  BY <1>3, <1>6, <1>7, <1>8, <1>10, <1>11, <1>12, <1>13 DEF Inv

(* TakeEntry: the oldest entry goes from the ring into the worker's hands. *)
LEMMA TakeEntryStep == ASSUME Inv, TakeEntry, UNCHANGED <<main, callers>>
                       PROVE  Inv' /\ LogSpec!Next
<1>1. /\ wpc = "test" /\ pop /\ event' = Oldest /\ wpc' = "write"
      /\ UNCHANGED <<written, missed, stop, dtor, atStop, cpc, pushed>>
  BY DEF TakeEntry, main, callers
<1>2. RingTypeOK /\ Aligned /\ count \in 0..N /\ N \in Nat \ {0} /\ pushed \in Nat
      /\ event = 0
  BY <1>1, RingAssumption DEF Inv, TypeOK, RingTypeOK, Places
<1>3. RingTypeOK' /\ Aligned'
  BY <1>1, <1>2, PopKeepsType
<1>4. /\ count > 0 /\ Oldest = Contents[1] /\ Oldest \in Entry
      /\ Contents # <<>> /\ Contents' = Tail(Contents)
  BY <1>1, <1>2, PopContents
<1>5. count' = count - 1 /\ Contents \in Seq(Entry) /\ Len(Contents) = count
  BY <1>1, <1>2, ContentsSeq DEF pop, ContentsOK
<1>6. event' = pushed - count + 1
  BY <1>1, <1>2, <1>4 DEF Inv, Numbered
<1>7. event' \in 1..MaxEntry
  BY <1>1, <1>4, LoggerAssumption
<1>8. TypeOK'
  BY <1>1, <1>3, <1>7 DEF Inv, TypeOK, WorkerPC
<1>9. Places' /\ Older'
  <2>1. Places'
    BY <1>1, <1>7 DEF Inv, Places
  <2>2. count' \in Nat /\ pushed' - count' = event' /\ count' <= pushed'
    BY <1>1, <1>2, <1>4, <1>5, <1>6 DEF Inv, Older
  <2>3. ASSUME NEW i \in 1..Len(written') PROVE written'[i] < event'
    <3>1. written[i] \in Nat /\ written[i] <= pushed - count
      BY <1>1, LoggerAssumption DEF Inv, Older, TypeOK
    <3> QED
      BY <1>1, <1>2, <1>6, <3>1
  <2>4. \A i \in 1..Len(written') : written'[i] <= event' /\ written'[i] < event'
    BY <1>1, <1>7, <2>3, LoggerAssumption DEF Inv, TypeOK
  <2>5. event' <= pushed' - count'
    BY <1>7, <2>2
  <2> QED
    BY <2>1, <2>2, <2>4, <2>5 DEF Older
<1>10. Numbered'
  BY <1>1, <1>2, <1>4, <1>5 DEF Inv, Numbered
<1>11. InRing \subseteq InRing' \cup {event'} /\ InRing' \subseteq InRing
  <2>1. Ranged
    BY <1>2, RingRange DEF Inv, Older
  <2>2. Ranged'
    BY <1>8, <1>9, <1>10, RingRange, PTL
  <2> QED
    BY <1>1, <1>2, <1>5, <1>6, <2>1, <2>2 DEF Inv, Older, Ranged
<1>12. OnlyOverwrittenLost'
  <2>1. Lost' \subseteq Lost
    <3>1. Written' = Written
      BY <1>1 DEF Written
    <3> QED
      BY <1>1, <1>2, <1>11, <3>1 DEF Lost
  <2> QED
    BY <1>1, <2>1 DEF Inv, OnlyOverwrittenLost
<1>13. WrittenInOrder' /\ DrainedAtExit' /\ AwakeOrMissed'
  BY <1>1 DEF Inv, WrittenInOrder, DrainedAtExit, AwakeOrMissed
<1>14. LogSpec!Next
  BY <1>4 DEF LogSpec!Next, LogSpec!Take
<1> QED
  BY <1>3, <1>8, <1>9, <1>10, <1>12, <1>13, <1>14 DEF Inv

(* Write: what the worker held is written, and is the newest that is.      *)
LEMMA WriteStep == ASSUME Inv, Write, UNCHANGED <<main, callers>> PROVE Inv'
<1>1. /\ wpc = "write" /\ wpc' = "test" /\ event' = 0 /\ written' = Append(written, event)
      /\ UNCHANGED <<ring, missed, stop, dtor, atStop, cpc, pushed>>
  BY DEF Write, main, callers
<1>2. event \in Entry /\ event > 0 /\ written \in Seq(Entry) /\ \A x \in Entry : x \in Nat
  BY <1>1, LoggerAssumption DEF Inv, TypeOK, Places
<1>3. /\ Len(written') = Len(written) + 1 /\ written'[Len(written) + 1] = event
      /\ \A i \in 1..Len(written) : written'[i] = written[i] /\ written[i] < event
      /\ written' \in Seq(Entry)
  BY <1>1, <1>2 DEF Inv, Older
<1>4. InRing' = InRing /\ Contents' = Contents /\ UNCHANGED <<head, tail, count, buffer>>
  BY <1>1 DEF ring, InRing, Contents, Slot
<1>5. TypeOK'
  <2>1. 0 \in 0..MaxEntry
    BY LoggerAssumption
  <2> QED
    BY <1>1, <1>3, <1>4, <2>1 DEF Inv, TypeOK, RingTypeOK, WorkerPC
<1>6. Places' /\ Numbered' /\ Aligned'
  BY <1>1, <1>4 DEF Inv, Places, Numbered, Aligned
<1>7. Older'
  <2>1. event <= pushed - count /\ count <= pushed /\ count \in Nat /\ pushed \in Nat
    BY RingAssumption, LoggerAssumption DEF Inv, Older, TypeOK, RingTypeOK
  <2>2. \A i \in 1..Len(written') : written'[i] <= pushed - count
    <3> SUFFICES ASSUME NEW i \in 1..Len(written') PROVE written'[i] <= pushed - count
      OBVIOUS
    <3>1. CASE i = Len(written) + 1
      BY <1>3, <2>1, <3>1
    <3>2. CASE i # Len(written) + 1
      <4>1. i \in 1..Len(written)
        BY <1>2, <1>3, <3>2
      <4> QED
        BY <1>3, <4>1 DEF Inv, Older
    <3> QED
      BY <3>1, <3>2
  <2> QED
    BY <1>1, <1>4, <2>1, <2>2 DEF Older
<1>8. WrittenInOrder'
  <2> SUFFICES ASSUME NEW i \in 1..Len(written'), NEW j \in 1..Len(written'), i < j
               PROVE  written'[i] < written'[j]
    BY DEF WrittenInOrder
  <2>1. CASE j = Len(written) + 1
    BY <1>2, <1>3, <2>1
  <2>2. CASE j # Len(written) + 1
    <3>0. Len(written) \in Nat /\ Len(written') = Len(written) + 1
      BY <1>2, <1>3
    <3>1. i \in 1..Len(written) /\ j \in 1..Len(written)
      BY <2>2, <3>0
    <3> QED
      BY <1>3, <3>1 DEF Inv, WrittenInOrder
  <2> QED
    BY <2>1, <2>2
<1>9. OnlyOverwrittenLost'
  <2>1. Written' = Written \cup {event}
    <3>1. \A i \in 1..Len(written') : written'[i] \in Written \cup {event}
      BY <1>2, <1>3 DEF Written
    <3>2. \A x \in Written : x \in Written'
      BY <1>2, <1>3 DEF Written
    <3>3. event \in Written'
      <4>1. Len(written) + 1 \in 1..Len(written')
        BY <1>2, <1>3
      <4> QED
        BY <1>3, <4>1 DEF Written
    <3> QED
      BY <3>1, <3>2, <3>3 DEF Written
  <2>2. Lost' \subseteq Lost
    BY <1>1, <1>4, <2>1 DEF Lost
  <2> QED
    BY <1>1, <2>2 DEF Inv, OnlyOverwrittenLost
<1>10. DrainedAtExit' /\ AwakeOrMissed'
  BY <1>1 DEF DrainedAtExit, AwakeOrMissed
<1> QED
  BY <1>5, <1>6, <1>7, <1>8, <1>9, <1>10 DEF Inv

(* The other steps leave the ring and what was written alone.              *)
LEMMA RestStep ==
    ASSUME Inv,
           UNCHANGED <<ring, event, written, pushed>>,
           TypeOK', Places', DrainedAtExit', AwakeOrMissed'
    PROVE  Inv'
<1>1. UNCHANGED <<head, tail, count, buffer>> /\ Contents' = Contents /\ InRing' = InRing
  BY DEF ring, Contents, Slot, InRing
<1>2. Aligned' /\ Numbered' /\ Older' /\ WrittenInOrder'
  BY <1>1 DEF Inv, Aligned, Numbered, Older, WrittenInOrder
<1>3. Lost' = Lost
  BY <1>1 DEF Lost, Written
<1> QED
  BY <1>2, <1>3 DEF Inv, OnlyOverwrittenLost

LEMMA InRingSame == UNCHANGED ring => InRing' = InRing /\ empty' = empty
BY DEF ring, InRing, Contents, Slot, empty

LEMMA OtherStep ==
    ASSUME Inv, UNCHANGED <<ring, event, written, pushed>>,
           \/ \E c \in Caller : Notify(c)
           \/ SetStop \/ StopNotify \/ Join \/ SpuriousWake
           \/ (TakeNothing \/ Block \/ CheckExit) /\ UNCHANGED <<main, callers>>
           \/ UNCHANGED vars
    PROVE  Inv'
<1> USE DEF Inv, TypeOK, Places, DrainedAtExit, AwakeOrMissed, main, callers, WorkerPC
<1>0. UNCHANGED <<buffer, head, tail, count>> /\ RingTypeOK' /\ InRing' = InRing /\ empty' = empty
  BY InRingSame DEF ring, RingTypeOK
<1>1. CASE \E c \in Caller : Notify(c)
  <2>1. PICK c \in Caller : Notify(c)
    BY <1>1
  <2>2. /\ cpc' = [cpc EXCEPT ![c] = "idle"]
        /\ wpc' = (IF wpc = "asleep" THEN "test" ELSE wpc)
        /\ missed' = (missed \/ wpc = "block")
        /\ UNCHANGED <<stop, dtor, atStop>>
    BY <2>1 DEF Notify, NotifyOne
  <2>3. TypeOK' /\ Places' /\ DrainedAtExit' /\ AwakeOrMissed'
    BY <1>0, <2>2
  <2> QED
    BY <2>3, RestStep
<1>2. CASE SetStop \/ StopNotify \/ Join \/ SpuriousWake
  <2>1. CASE SetStop
    <3>1. /\ dtor = "alive" /\ stop' = TRUE /\ atStop' = pushed /\ dtor' = "notify"
          /\ UNCHANGED <<event, wpc, written, cpc, pushed, missed>>
      BY <2>1 DEF SetStop, worker
    <3>2. wpc # "done" /\ pushed \in 0..MaxEntry /\ pushed <= pushed
      BY <3>1, LoggerAssumption
    <3>3. TypeOK'
      BY <1>0, <3>1, <3>2
    <3>4. Places' /\ DrainedAtExit' /\ AwakeOrMissed'
      BY <1>0, <3>1, <3>2
    <3> QED
      BY <3>3, <3>4, RestStep
  <2>2. CASE StopNotify \/ Join \/ SpuriousWake
    <3>1. TypeOK' /\ Places' /\ DrainedAtExit' /\ AwakeOrMissed'
      BY <1>0, <2>2 DEF StopNotify, Join, SpuriousWake, NotifyOne, worker
    <3> QED
      BY <3>1, RestStep
  <2> QED
    BY <1>2, <2>1, <2>2
<1>3. CASE (TakeNothing \/ Block \/ CheckExit) /\ UNCHANGED <<main, callers>>
  <2>1. TypeOK' /\ Places' /\ AwakeOrMissed'
    BY <1>0, <1>3 DEF TakeNothing, Block, CheckExit
  <2>2. DrainedAtExit'
    <3>1. CASE wpc' # "done"
      BY <3>1
    <3>2. CASE wpc' = "done"
      <4>1. wpc = "check" /\ empty
        BY <1>3, <3>2 DEF TakeNothing, Block, CheckExit
      <4>2. InRing = {} /\ event = 0
        BY <4>1 DEF InRing, empty
      <4> QED
        BY <1>0, <4>2
    <3> QED
      BY <3>1, <3>2
  <2> QED
    BY <2>1, <2>2, RestStep
<1>4. CASE UNCHANGED vars
  <2>1. TypeOK' /\ Places' /\ DrainedAtExit' /\ AwakeOrMissed'
    BY <1>0, <1>4 DEF vars, worker
  <2> QED
    BY <2>1, RestStep
<1> QED
  BY <1>1, <1>2, <1>3, <1>4

LEMMA InvStep == Inv /\ [Next]_vars => Inv' /\ [LogSpec!Next]_Contents
<1> SUFFICES ASSUME Inv, [Next]_vars PROVE Inv' /\ [LogSpec!Next]_Contents
  OBVIOUS
<1>1. ASSUME NEW c \in Caller, Log(c) PROVE Inv' /\ LogSpec!Next
  BY <1>1, LogStep
<1>2. CASE Worker /\ TakeEntry
  BY <1>2, TakeEntryStep DEF Worker
<1>3. CASE Worker /\ Write
  <2>1. UNCHANGED ring
    BY <1>3 DEF Write
  <2> QED
    BY <1>3, <2>1, WriteStep DEF Worker, ring, Contents, Slot
<1>4. ASSUME \/ \E c \in Caller : Notify(c)
             \/ SetStop \/ StopNotify \/ Join \/ SpuriousWake
             \/ (TakeNothing \/ Block \/ CheckExit) /\ UNCHANGED <<main, callers>>
             \/ UNCHANGED vars
      PROVE  Inv' /\ UNCHANGED Contents
  <2>1. UNCHANGED <<ring, event, written, pushed>>
    BY <1>4 DEF Notify, SetStop, StopNotify, Join, SpuriousWake, TakeNothing, Block,
                CheckExit, main, callers, worker, vars
  <2> QED
    BY <1>4, <2>1, OtherStep DEF ring, Contents, Slot
<1> QED
  BY <1>1, <1>2, <1>3, <1>4 DEF Next, Worker

(* The inductive invariant of the logger: the ring holds the newest        *)
(* entries, the worker's entry lies between them and what is written, and  *)
(* a sleeping worker beside an entry has a notification to come or missed  *)
(* one.                                                                    *)
THEOREM Invariance == Spec => []Inv
BY InvInit, InvStep, PTL DEF Spec

(* The types hold: no position and no count of the ring leaves its range   *)
(* (logger.h:106-128).                                                     *)
THEOREM TypeCorrect == Spec => []TypeOK
BY Invariance, PTL DEF Inv

(* The ring holds the newest entries in their order (logger.h:106-128).    *)
THEOREM RingIsNewest == Spec => []RingKeepsNewest
<1>1. Inv => RingKeepsNewest
  BY DEF Inv, Numbered, RingKeepsNewest
<1> QED
  BY <1>1, Invariance, PTL

(* Entries are written once and in order, and the only loss is by          *)
(* overwriting (logger.h:108, 219-243).                                    *)
THEOREM LogIsDelivered == Spec => []DeliveredInOrder
BY Invariance, PTL DEF Inv, DeliveredInOrder

(* What was logged before the destructor is out at the worker's end        *)
(* (logger.h:193-202, 239).                                                *)
THEOREM ExitDrains == Spec => []DrainedAtExit
BY Invariance, PTL DEF Inv

(* A worker asleep over an entry has missed a notification in the window   *)
(* between predicate and block (logger.h:204-205, 228).                    *)
THEOREM SleepIsLostWake == Spec => []SleepsOnlyByLostWake
<1>1. Inv => SleepsOnlyByLostWake
  BY DEF Inv, AwakeOrMissed, SleepsOnlyByLostWake
<1> QED
  BY <1>1, Invariance, PTL

(* The ring implements the bounded queue that forgets its oldest entry     *)
(* (logger.h:102-138).                                                     *)
THEOREM RingIsBoundedLog == Spec => ImplementsBoundedLog
<1>1. Init => LogSpec!Init
  BY InvInit DEF LogSpec!Init
<1> QED
  BY <1>1, InvStep, Invariance, PTL DEF Spec, ImplementsBoundedLog, LogSpec!Spec
=============================================================================
