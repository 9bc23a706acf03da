----------------------------- MODULE TimerProofs -----------------------------
(***************************************************************************)
(* Proofs about Timer (mjber/timer.h), for any callers, delays and         *)
(* interval of the thread.                                                 *)
(***************************************************************************)
EXTENDS Timer, FiniteSetTheorems, SequenceTheorems, TLAPS

(* Rounding makes every delay but v longer, and never one shorter.         *)
LEMMA RoundedUp ==
    ASSUME NEW w \in Nat
    PROVE  Rounded(w) \in Nat /\ Rounded(w) >= w /\ (w # V => Rounded(w) >= w + 1)
<1>1. V \in Nat /\ V > 0
  BY TimerAssumption
<1>2. CASE w <= V
  BY <1>1, <1>2 DEF Rounded
<1>3. CASE ~(w <= V)
  <2>1. PICK q \in Nat : q = w \div V
    BY <1>1
  <2>2. w = V * q + (w % V) /\ w % V \in Nat /\ w % V < V
    BY <1>1, <2>1
  <2>3. q * V \in Nat /\ q * V + V > w
    BY <1>1, <2>1, <2>2
  <2> QED
    BY <1>1, <1>3, <2>1, <2>3 DEF Rounded
<1> QED
  BY <1>1, <1>2, <1>3

(* InOrder lists a finite set of times, each of them once.                 *)
LEMMA InOrderLists ==
    ASSUME NEW S, S \subseteq Nat, IsFiniteSet(S)
    PROVE  /\ Cardinality(S) \in Nat
           /\ \A i \in 1..Cardinality(S) : InOrder(S)[i] \in S
           /\ \A i, j \in 1..Cardinality(S) : InOrder(S)[i] = InOrder(S)[j] => i = j
           /\ \A k \in S : \E i \in 1..Cardinality(S) : InOrder(S)[i] = k
<1> DEFINE Upto(k) == {j \in S : j <= k}
           N == Cardinality(S)
           rank == [k \in S |-> Cardinality(Upto(k))]
<1>0. N \in Nat
  BY FS_CardinalityType
<1>1. \A k \in S : IsFiniteSet(Upto(k)) /\ Cardinality(Upto(k)) \in 1..N
  <2> SUFFICES ASSUME NEW k \in S
               PROVE  IsFiniteSet(Upto(k)) /\ Cardinality(Upto(k)) \in 1..N
    OBVIOUS
  <2>1. Upto(k) \in SUBSET S /\ k \in Upto(k)
    OBVIOUS
  <2> HIDE DEF Upto
  <2>2. IsFiniteSet(Upto(k)) /\ Cardinality(Upto(k)) <= N
    BY <2>1, FS_Subset
  <2>3. Cardinality(Upto(k)) \in Nat /\ Cardinality(Upto(k)) # 0
    BY <2>1, <2>2, FS_CardinalityType, FS_EmptySet
  <2> QED
    BY <1>0, <2>2, <2>3
<1>2. \A k, l \in S : k < l => Cardinality(Upto(k)) # Cardinality(Upto(l))
  <2> SUFFICES ASSUME NEW k \in S, NEW l \in S, k < l,
                      Cardinality(Upto(k)) = Cardinality(Upto(l))
               PROVE  FALSE
    OBVIOUS
  <2>1. Upto(k) \in SUBSET Upto(l) /\ l \in Upto(l) /\ l \notin Upto(k)
    <3>1. k \in Nat /\ l \in Nat /\ \A j \in S : j \in Nat
      OBVIOUS
    <3>2. ~(l <= k) /\ \A j \in S : j <= k => j <= l
      BY <3>1
    <3>3. l <= l
      BY <3>1
    <3>4. l \in Upto(l) /\ l \notin Upto(k)
      BY <3>2, <3>3, Zenon
    <3>5. Upto(k) \subseteq Upto(l)
      BY <3>2, Zenon
    <3> QED
      BY <3>4, <3>5, Zenon
  <2>2. IsFiniteSet(Upto(l))
    BY <1>1
  <2> HIDE DEF Upto
  <2>3. Upto(l) = Upto(k)
    BY <2>1, <2>2, FS_Subset
  <2> QED
    BY <2>1, <2>3
<1>3. \A k, l \in S : rank[k] = rank[l] => k = l
  <2>1. \A k, l \in S : k < l \/ l < k \/ k = l
    OBVIOUS
  <2>2. \A k \in S : rank[k] = Cardinality(Upto(k))
    OBVIOUS
  <2> HIDE DEF rank, Upto
  <2> QED
    BY <1>2, <2>1, <2>2
<1>4. rank \in Surjection(S, 1..N)
  <2>1. rank \in [S -> 1..N]
    BY <1>1
  <2>2. rank \in Injection(S, 1..N)
    BY <1>3, <2>1 DEF Injection, IsInjective
  <2>3. IsFiniteSet(1..N) /\ Cardinality(1..N) = N
    BY <1>0, FS_Interval
  <2> HIDE DEF rank
  <2> QED
    BY <2>2, <2>3, FS_Injection
<1>5. \A i \in 1..N : \E k \in S : rank[k] = i
  BY <1>4 DEF Surjection
<1>6. \A i \in 1..N : InOrder(S)[i] \in S /\ rank[InOrder(S)[i]] = i
  <2> SUFFICES ASSUME NEW i \in 1..N
               PROVE  InOrder(S)[i] \in S /\ rank[InOrder(S)[i]] = i
    OBVIOUS
  <2>1. InOrder(S)[i] = CHOOSE k \in S : Cardinality(Upto(k)) = i
    BY DEF InOrder
  <2>2. \E k \in S : Cardinality(Upto(k)) = i
    BY <1>5
  <2>3. \A k \in S : rank[k] = Cardinality(Upto(k))
    OBVIOUS
  <2> HIDE DEF rank, Upto
  <2>4. InOrder(S)[i] \in S /\ Cardinality(Upto(InOrder(S)[i])) = i
    BY <2>1, <2>2, Zenon
  <2> QED
    BY <2>3, <2>4
<1>7. \A k \in S : rank[k] \in 1..N /\ InOrder(S)[rank[k]] = k
  <2>1. \A k \in S : rank[k] \in 1..N
    BY <1>1
  <2> HIDE DEF rank
  <2> QED
    BY <1>3, <1>6, <2>1
<1> HIDE DEF rank
<1> QED
  BY <1>0, <1>6, <1>7
-----------------------------------------------------------------------------
(* Where a task can be.  Every task is in exactly one of these places, and *)
(* in that place once; in the map that follows from the due times.         *)
Kind == {"added", "mapped", "taken", "ran", "replaced"}
In(t, p) == \/ p = "added" /\ \E c \in Caller : adding[c].task = t
            \/ p = "mapped" /\ \E k \in DOMAIN tasks : tasks[k] = t
            \/ p = "taken" /\ \E i \in 1..Len(temp) : temp[i] = t
            \/ p = "ran" /\ \E i \in 1..Len(ran) : ran[i].task = t
            \/ p = "replaced" /\ t \in replaced

OneKind == \A t \in Task : \E p \in Kind : \A q \in Kind : In(t, q) <=> q = p
OnceThere == /\ \A c, d \in Caller : adding[c] # None /\ adding[c].task = adding[d].task => c = d
             /\ \A i, j \in 1..Len(temp) : temp[i] = temp[j] => i = j
             /\ \A i, j \in 1..Len(ran) : ran[i].task = ran[j].task => i = j

(* A task is in the map at its due time, and is taken and run after it.    *)
AddingDue == \A c \in Caller : adding[c] # None =>
                adding[c].task \in Task /\ adding[c].due = DueOf(adding[c].task)
MappedDue == \A k \in DOMAIN tasks : DueOf(tasks[k]) = k
TakenDue == \A i \in 1..Len(temp) : DueOf(temp[i]) <= c_time
RanDue == \A i \in 1..Len(ran) : DueOf(ran[i].task) <= ran[i].at
Dues == AddingDue /\ MappedDue /\ TakenDue /\ RanDue

TakenWhenRun == tpc # "run" => temp = <<>>

TimerInv == TypeOK /\ OneKind /\ OnceThere /\ Dues /\ OneOfEachDueLeft /\ TakenWhenRun

LEMMA InitInv == Init => TimerInv
<1> SUFFICES ASSUME Init PROVE TimerInv
  OBVIOUS
<1>1. Len(asked) = 0 /\ Len(temp) = 0 /\ Len(ran) = 0 /\ Task = {}
  BY EmptySeq, LenProperties DEF Init, Task
<1>2. DOMAIN tasks = {} /\ replaced = {}
  BY DEF Init
<1>3. TypeOK
  <2>1. Epoch \in [at : Due, part : Part] /\ 0 \in Part /\ 0 \in 0..MaxTime
    BY TimerAssumption DEF Epoch, Due, Part
  <2>2. None \in [task : 0..Len(asked), due : Due]
    BY <1>1, TimerAssumption DEF None, Due
  <2>3. /\ adding \in [Caller -> [task : 0..Len(asked), due : Due]]
        /\ wakeAt \in [at : Due, part : Part] /\ part \in Part
    BY <2>1, <2>2 DEF Init
  <2>4. /\ now \in 0..MaxTime /\ c_time \in 0..now
        /\ DOMAIN tasks \subseteq Due /\ \A k \in DOMAIN tasks : tasks[k] \in Task
    BY <1>2, <2>1 DEF Init
  <2>5. /\ temp \in Seq(Task) /\ asked \in Seq([at : 0..MaxTime, part : Part, delay : Delay])
        /\ ran \in Seq([task : Task, at : 0..MaxTime, part : Part])
    BY EmptySeq DEF Init
  <2> QED
    BY <1>2, <2>3, <2>4, <2>5 DEF Init, TypeOK
<1>4. OneKind /\ OneOfEachDueLeft
  BY <1>1, <1>2 DEF OneKind, OneOfEachDueLeft
<1>5. OnceThere /\ AddingDue
  BY <1>1 DEF OnceThere, AddingDue, Init
<1>6. MappedDue /\ TakenDue /\ RanDue
  BY <1>1, <1>2 DEF MappedDue, TakenDue, RanDue
<1> QED
  BY <1>3, <1>4, <1>5, <1>6 DEF TimerInv, Dues, TakenWhenRun, Init

(* A step that leaves all tasks where they are keeps the invariant.        *)
Still == UNCHANGED <<tasks, adding, asked, replaced, temp, ran>>
LEMMA StillInv ==
    ASSUME TimerInv, Still, TypeOK', TakenDue', TakenWhenRun'
    PROVE  TimerInv'
<1>1. OneKind' /\ OnceThere'
  BY DEF TimerInv, Still, OneKind, OnceThere, In, Task
<1>2. AddingDue' /\ MappedDue' /\ RanDue'
  BY DEF TimerInv, Dues, Still, AddingDue, MappedDue, RanDue, DueOf, Task
<1>3. OneOfEachDueLeft'
  BY DEF TimerInv, Still, OneOfEachDueLeft, DueOf, Task
<1> QED
  BY <1>1, <1>2, <1>3 DEF TimerInv, Dues

LEMMA SeqMonotone ==
    ASSUME NEW S, NEW T, S \subseteq T
    PROVE  Seq(S) \subseteq Seq(T)
<1> SUFFICES ASSUME NEW q \in Seq(S) PROVE q \in Seq(T)
  OBVIOUS
<1>1. q \in [1..Len(q) -> S] /\ Len(q) \in Nat
  BY LenProperties
<1>2. q \in [1..Len(q) -> T]
  BY <1>1
<1> QED
  BY <1>1, <1>2, SeqDef

LEMMA DelaysAndTimes == Delay \subseteq Nat /\ 0..MaxTime \subseteq Nat
<1>1. Delay \subseteq Nat
  BY TimerAssumption, Zenon
<1>2. MaxTime \in Nat
  BY TimerAssumption, Zenon
<1> QED
  BY <1>1, <1>2

LEMMA TickInv == ASSUME TimerInv, Tick PROVE TimerInv'
<1>1. Still
  BY DEF Tick, Still, clock, thread
<1>2. TypeOK'
  <2>1. now' \in 0..MaxTime /\ part' \in Part /\ c_time' \in 0..now'
    BY TimerAssumption DEF TimerInv, TypeOK, Tick, Part, clock, thread
  <2> QED
    BY <2>1 DEF TimerInv, TypeOK, Tick, clock, thread, Task
<1>3. TakenDue' /\ TakenWhenRun'
  BY DEF TimerInv, Dues, TakenDue, TakenWhenRun, Tick, clock, thread, DueOf
<1> QED
  BY <1>1, <1>2, <1>3, StillInv

LEMMA ReadClockInv == ASSUME TimerInv, ReadClock PROVE TimerInv'
<1>1. Still
  BY DEF ReadClock, Still
<1>2. TypeOK'
  BY TimerAssumption DEF TimerInv, TypeOK, ReadClock, clock, Task
<1>3. TakenDue' /\ TakenWhenRun'
  <2>1. temp' = <<>> /\ Len(temp') = 0
    BY EmptySeq, LenProperties DEF TimerInv, TakenWhenRun, ReadClock
  <2> QED
    BY <2>1 DEF TakenDue, TakenWhenRun
<1> QED
  BY <1>1, <1>2, <1>3, StillInv

LEMMA SleepInv == ASSUME TimerInv, Sleep PROVE TimerInv'
<1>1. Still
  BY DEF Sleep, Still
<1>2. TypeOK'
  <2>1. now + V \in Due /\ part \in Part
    BY TimerAssumption DEF TimerInv, TypeOK, Due
  <2>2. wakeAt' \in [at : Due, part : Part] /\ c_time' \in 0..now'
    BY <2>1 DEF TimerInv, TypeOK, Sleep, clock
  <2> QED
    BY <2>2 DEF TimerInv, TypeOK, Sleep, clock, Task
<1>3. TakenDue' /\ TakenWhenRun'
  <2>1. temp' = <<>> /\ Len(temp') = 0
    BY EmptySeq, LenProperties DEF Sleep
  <2> QED
    BY <2>1 DEF TakenDue, TakenWhenRun
<1> QED
  BY <1>1, <1>2, <1>3, StillInv

LEMMA WakeInv == ASSUME TimerInv, Wake PROVE TimerInv'
<1>1. Still
  BY DEF Wake, Still
<1>2. TypeOK'
  <2>1. Epoch \in [at : Due, part : Part]
    BY TimerAssumption DEF Epoch, Due, Part
  <2> QED
    BY <2>1 DEF TimerInv, TypeOK, Wake, clock, Task
<1>3. TakenDue' /\ TakenWhenRun'
  BY DEF TimerInv, Dues, TakenDue, TakenWhenRun, Wake, DueOf
<1> QED
  BY <1>1, <1>2, <1>3, StillInv

LEMMA DestroyInv == ASSUME TimerInv, Destroy PROVE TimerInv'
<1>1. Still
  BY DEF Destroy, clock, thread, Still
<1>2. TypeOK'
  BY DEF TimerInv, TypeOK, Destroy, clock, thread, Task
<1>3. TakenDue' /\ TakenWhenRun'
  BY DEF TimerInv, Dues, TakenDue, TakenWhenRun, Destroy, clock, thread, DueOf
<1> QED
  BY <1>1, <1>2, <1>3, StillInv

LEMMA StutterInv == ASSUME TimerInv, UNCHANGED vars PROVE TimerInv'
<1>1. Still
  BY DEF vars, clock, thread, Still
<1>2. TypeOK'
  BY DEF TimerInv, TypeOK, vars, clock, thread, Task
<1>3. TakenDue' /\ TakenWhenRun'
  BY DEF TimerInv, Dues, TakenDue, TakenWhenRun, vars, clock, thread, DueOf
<1> QED
  BY <1>1, <1>2, <1>3, StillInv

(* addTask brings a new task, which is nowhere else.                       *)
LEMMA AddInv == ASSUME TimerInv, NEW c \in Caller, addTask(c) PROVE TimerInv'
<1>4. Len(asked) \in Nat /\ asked \in Seq([at : 0..MaxTime, part : Part, delay : Delay])
  BY LenProperties DEF TimerInv, TypeOK
<1>0. PICK n \in Nat : n = Len(asked) + 1
  BY <1>4
<1>1. PICK w \in Delay : /\ now + Rounded(w) <= MaxTime
                         /\ asked' = Append(asked, [at |-> now, part |-> part, delay |-> w])
                         /\ adding' = [adding EXCEPT ![c] = [task |-> n, due |-> now + Rounded(w)]]
  BY <1>0, Zenon DEF addTask
<1>2. UNCHANGED <<now, part, aborted, tasks, replaced, c_time, temp, tpc, wakeAt, ran>> /\ adding[c] = None
  BY DEF addTask, clock, thread
<1>3. w \in Nat /\ Rounded(w) \in Nat
  BY RoundedUp, TimerAssumption
<1>5. [at |-> now, part |-> part, delay |-> w] \in [at : 0..MaxTime, part : Part, delay : Delay]
  BY DEF TimerInv, TypeOK
<1>6. /\ asked' \in Seq([at : 0..MaxTime, part : Part, delay : Delay])
      /\ Len(asked') = n
      /\ \A t \in Task : asked'[t] = asked[t]
      /\ asked'[n] = [at |-> now, part |-> part, delay |-> w]
  BY <1>0, <1>1, <1>4, <1>5, AppendProperties DEF Task
<1>7. Task' = Task \cup {n} /\ n \notin Task /\ n # 0
  BY <1>0, <1>4, <1>6 DEF Task
<1>8. \A t \in Task : DueOf(t)' = DueOf(t)
  BY <1>6 DEF DueOf
<1>9. DueOf(n)' = now + Rounded(w)
  BY <1>6 DEF DueOf
<1>10. adding \in [Caller -> [task : 0..Len(asked), due : Due]] /\ adding[c].task = 0
  BY DEF TimerInv, TypeOK, addTask, None
<1>11. /\ \A d \in Caller : adding'[d] = IF d = c THEN [task |-> n, due |-> now + Rounded(w)] ELSE adding[d]
       /\ adding'[c].task = n
  BY <1>1, <1>10
<1>12. TypeOK'
  <2>1. [task |-> n, due |-> now + Rounded(w)] \in [task : 0..Len(asked'), due : Due]
    BY <1>0, <1>1, <1>3, <1>4, <1>6, TimerAssumption DEF TimerInv, TypeOK, Due
  <2>2. 0..Len(asked) \subseteq 0..Len(asked')
    BY <1>0, <1>4, <1>6
  <2>3. adding' \in [Caller -> [task : 0..Len(asked'), due : Due]]
    BY <1>1, <1>10, <2>1, <2>2
  <2>4. temp \in Seq(Task') /\ ran \in Seq([task : Task', at : 0..MaxTime, part : Part])
    <3>1. temp \in Seq(Task) /\ ran \in Seq([task : Task, at : 0..MaxTime, part : Part])
      BY DEF TimerInv, TypeOK
    <3>2. Task \subseteq Task' /\ [task : Task, at : 0..MaxTime, part : Part] \subseteq [task : Task', at : 0..MaxTime, part : Part]
      BY <1>7
    <3> QED
      BY <3>1, <3>2, SeqMonotone
  <2>5. \A k \in DOMAIN tasks : tasks[k] \in Task'
    BY <1>7 DEF TimerInv, TypeOK
  <2>6. replaced \subseteq Task'
    BY <1>7 DEF TimerInv, TypeOK
  <2> QED
    BY <1>2, <1>6, <2>3, <2>4, <2>5, <2>6 DEF TimerInv, TypeOK
<1>13. \A i \in 1..Len(temp) : temp[i] \in Task
  BY ElementOfSeq DEF TimerInv, TypeOK
<1>14. \A i \in 1..Len(ran) : ran[i].task \in Task
  <2>1. \A i \in 1..Len(ran) : ran[i] \in [task : Task, at : 0..MaxTime, part : Part]
    BY ElementOfSeq, Zenon DEF TimerInv, TypeOK
  <2> QED
    BY <2>1
<1>15. OneKind'
  <2>1. ASSUME NEW t \in Task, NEW p \in Kind PROVE In(t, p)' <=> In(t, p)
    <3>1. t # n /\ t # 0 /\ t # adding[c].task
      BY <1>7, <1>10 DEF Task
    <3>2. (\E d \in Caller : adding'[d].task = t) <=> \E d \in Caller : adding[d].task = t
      BY <1>11, <3>1
    <3> QED
      BY <1>2, <3>2 DEF In
  <2>2. ASSUME NEW p \in Kind PROVE In(n, p)' <=> p = "added"
    <3>1. \A k \in DOMAIN tasks : tasks[k] # n
      BY <1>7 DEF TimerInv, TypeOK
    <3>2. n \notin replaced
      BY <1>7 DEF TimerInv, TypeOK
    <3>3. (\A i \in 1..Len(temp) : temp[i] # n) /\ \A i \in 1..Len(ran) : ran[i].task # n
      BY <1>7, <1>13, <1>14
    <3> QED
      BY <1>2, <1>11, <3>1, <3>2, <3>3 DEF In
  <2>3. \A t \in Task : \E p \in Kind : \A q \in Kind : In(t, q)' <=> q = p
    BY <2>1 DEF TimerInv, OneKind
  <2>4. \E p \in Kind : \A q \in Kind : In(n, q)' <=> q = p
    BY <2>2 DEF Kind
  <2>5. \A t \in Task' : \E p \in Kind : \A q \in Kind : In(t, q)' <=> q = p
    BY <1>7, <2>3, <2>4
  <2> QED
    BY <2>5 DEF OneKind
<1>16. OnceThere'
  <2>1. \A d \in Caller : adding[d].task # n
    BY <1>0, <1>4, <1>10
  <2>2. \A d, e \in Caller : adding'[d] # None /\ adding'[d].task = adding'[e].task => d = e
    BY <1>11, <2>1 DEF TimerInv, OnceThere
  <2> QED
    BY <1>2, <2>2 DEF TimerInv, OnceThere
<1>17. AddingDue'
  <2> SUFFICES ASSUME NEW d \in Caller, adding'[d] # None
               PROVE  /\ adding'[d].task \in Task'
                      /\ adding'[d].due = asked'[adding'[d].task].at + Rounded(asked'[adding'[d].task].delay)
    BY DEF AddingDue, DueOf, None
  <2>1. CASE d = c
    BY <1>6, <1>7, <1>11, <2>1
  <2>2. CASE d # c
    <3>1. adding'[d] = adding[d] /\ adding[d].task \in Task /\ adding[d].due = DueOf(adding[d].task)
      BY <1>11, <2>2 DEF TimerInv, Dues, AddingDue
    <3> QED
      BY <1>6, <1>7, <3>1 DEF DueOf
  <2> QED
    BY <2>1, <2>2
<1>18. MappedDue' /\ TakenDue' /\ RanDue'
  <2>1. \A k \in DOMAIN tasks : tasks[k] \in Task
    BY DEF TimerInv, TypeOK
  <2> QED
    BY <1>2, <1>6, <1>13, <1>14, <2>1 DEF TimerInv, Dues, MappedDue, TakenDue, RanDue, DueOf
<1>19. OneOfEachDueLeft'
  <2>1. \A t \in replaced : t \in Task /\ \E u \in Task : u \notin replaced /\ DueOf(t) = DueOf(u)
    BY DEF TimerInv, TypeOK, OneOfEachDueLeft
  <2>2. \A t \in replaced : \E u \in Task' : u \notin replaced /\ DueOf(t)' = DueOf(u)'
    BY <1>7, <1>8, <2>1
  <2> QED
    BY <1>2, <2>2 DEF OneOfEachDueLeft
<1> QED
  BY <1>2, <1>12, <1>15, <1>16, <1>17, <1>18, <1>19 DEF TimerInv, Dues, TakenWhenRun

(* Insert puts the task of the caller into the map; a task there at that   *)
(* time is overwritten, and the new one is left for it.                    *)
LEMMA InsertInv == ASSUME TimerInv, NEW c \in Caller, Insert(c) PROVE TimerInv'
<1>0. adding[c] # None /\ UNCHANGED <<now, part, aborted, asked, c_time, temp, tpc, wakeAt, ran>>
  BY DEF Insert, clock, thread
<1>1. PICK t0 \in Task, due \in Due : t0 = adding[c].task /\ due = adding[c].due /\ DueOf(t0) = due
  BY <1>0 DEF TimerInv, TypeOK, Dues, AddingDue
<1>2. /\ tasks' = [k \in DOMAIN tasks \cup {due} |-> IF k = due THEN t0 ELSE tasks[k]]
      /\ replaced' = IF due \in DOMAIN tasks THEN replaced \cup {tasks[due]} ELSE replaced
      /\ adding' = [adding EXCEPT ![c] = None]
  BY <1>1, Zenon DEF Insert, Put
<1>3. /\ DOMAIN tasks' = DOMAIN tasks \cup {due}
      /\ \A k \in DOMAIN tasks' : tasks'[k] = IF k = due THEN t0 ELSE tasks[k]
  BY <1>2
<1>4. \A d \in Caller : adding'[d] = IF d = c THEN None ELSE adding[d]
  BY <1>2 DEF TimerInv, TypeOK
<1>5. \A k \in DOMAIN tasks : tasks[k] \in Task /\ DueOf(tasks[k]) = k
  BY DEF TimerInv, TypeOK, Dues, MappedDue
<1>6. Task' = Task /\ \A t \in Task : DueOf(t)' = DueOf(t)
  BY <1>0 DEF Task, DueOf
<1>7. TypeOK'
  <2>1. None \in [task : 0..Len(asked), due : Due]
    <3>1. Len(asked) \in Nat
      BY LenProperties DEF TimerInv, TypeOK
    <3> QED
      BY <3>1, TimerAssumption DEF None, Due
  <2>2. adding' \in [Caller -> [task : 0..Len(asked), due : Due]]
    BY <1>2, <2>1 DEF TimerInv, TypeOK
  <2>3. DOMAIN tasks' \subseteq Due /\ \A k \in DOMAIN tasks' : tasks'[k] \in Task
    BY <1>3, <1>5 DEF TimerInv, TypeOK
  <2>4. replaced' \subseteq Task
    BY <1>2, <1>5 DEF TimerInv, TypeOK
  <2> QED
    BY <1>0, <1>6, <2>2, <2>3, <2>4 DEF TimerInv, TypeOK
<1>8. \A q \in Kind : In(t0, q) <=> q = "added"
  <2>1. In(t0, "added") /\ "added" \in Kind
    BY <1>1 DEF In, Kind
  <2> QED
    BY <2>1 DEF TimerInv, OneKind
<1>9. t0 \notin replaced /\ \A k \in DOMAIN tasks : tasks[k] # t0
  BY <1>8 DEF In, Kind
<1>10. OneKind'
  <2>1. \A t \in Task : In(t, "added")' <=> In(t, "added") /\ t # t0
    <3>1. \A d \in Caller : adding[d] # None /\ adding[c].task = adding[d].task => c = d
      BY <1>0 DEF TimerInv, OnceThere
    <3>2. \A t \in Task : t # None.task /\ t # 0
      BY DEF None, Task
    <3>3. \A t \in Task, d \in Caller : adding[d].task = t => adding[d] # None
      BY <3>2
    <3>4. \A t \in Task : (\E d \in Caller : adding'[d].task = t) <=> (\E d \in Caller : adding[d].task = t) /\ t # t0
      BY <1>1, <1>4, <3>1, <3>2, <3>3
    <3> QED
      BY <3>4 DEF In
  <2>2. \A t \in Task : In(t, "mapped")' <=>
           t = t0 \/ (In(t, "mapped") /\ ~(due \in DOMAIN tasks /\ t = tasks[due]))
    <3>1. \A t \in Task : (\E k \in DOMAIN tasks' : tasks'[k] = t) <=>
             t = t0 \/ ((\E k \in DOMAIN tasks : tasks[k] = t) /\ ~(due \in DOMAIN tasks /\ t = tasks[due]))
      <4> SUFFICES ASSUME NEW t \in Task
                   PROVE  (\E k \in DOMAIN tasks' : tasks'[k] = t) <=>
                             t = t0 \/ ((\E k \in DOMAIN tasks : tasks[k] = t) /\ ~(due \in DOMAIN tasks /\ t = tasks[due]))
        OBVIOUS
      <4>1. tasks'[due] = t0 /\ \A k \in DOMAIN tasks : k # due => tasks'[k] = tasks[k]
        BY <1>3
      <4>2. ASSUME NEW k \in DOMAIN tasks', tasks'[k] = t, t # t0
            PROVE  k \in DOMAIN tasks /\ tasks[k] = t /\ k # due
        BY <1>3, <4>1, <4>2
      <4>3. ASSUME NEW k \in DOMAIN tasks, tasks[k] = t, due \in DOMAIN tasks, tasks[due] = t
            PROVE  k = due
        BY <1>5, <4>3
      <4>4. ASSUME NEW k \in DOMAIN tasks, tasks[k] = t, ~(due \in DOMAIN tasks /\ t = tasks[due])
            PROVE  k \in DOMAIN tasks' /\ tasks'[k] = t
        BY <1>3, <4>1, <4>4
      <4>5. due \in DOMAIN tasks'
        BY <1>3
      <4> QED
        BY <1>1, <4>1, <4>2, <4>3, <4>4, <4>5, Zenon
    <3> QED
      BY <3>1, Zenon DEF In
  <2>3. \A t \in Task : In(t, "replaced")' <=>
           In(t, "replaced") \/ (due \in DOMAIN tasks /\ t = tasks[due])
    BY <1>2 DEF In
  <2>4. \A t \in Task : (In(t, "taken")' <=> In(t, "taken")) /\ (In(t, "ran")' <=> In(t, "ran"))
    BY <1>0 DEF In
  <2>5. ASSUME NEW t \in Task
        PROVE  \E p \in Kind : \A q \in Kind : In(t, q)' <=> q = p
    <3>1. CASE t = t0
      <4>1. \A q \in Kind : In(t, q)' <=> q = "mapped"
        BY <1>8, <1>9, <2>1, <2>2, <2>3, <2>4, <3>1 DEF Kind
      <4> QED
        BY <4>1 DEF Kind
    <3>2. CASE t # t0 /\ due \in DOMAIN tasks /\ t = tasks[due]
      <4>1. In(t, "mapped")
        BY <3>2 DEF In
      <4>2. \A q \in Kind : In(t, q) <=> q = "mapped"
        BY <4>1 DEF TimerInv, OneKind, Kind
      <4>3. \A q \in Kind : In(t, q)' <=> q = "replaced"
        BY <2>1, <2>2, <2>3, <2>4, <3>2, <4>2 DEF Kind
      <4> QED
        BY <4>3 DEF Kind
    <3>3. CASE t # t0 /\ ~(due \in DOMAIN tasks /\ t = tasks[due])
      <4>1. \A q \in Kind : In(t, q)' <=> In(t, q)
        BY <2>1, <2>2, <2>3, <2>4, <3>3 DEF Kind
      <4> QED
        BY <4>1 DEF TimerInv, OneKind
    <3> QED
      BY <3>1, <3>2, <3>3
  <2> QED
    BY <1>6, <2>5 DEF OneKind
<1>11. OnceThere'
  <2>1. \A d, e \in Caller : adding'[d] # None /\ adding'[d].task = adding'[e].task => d = e
    <3>1. \A d, e \in Caller : adding[d] # None /\ adding[d].task = adding[e].task => d = e
      BY DEF TimerInv, OnceThere
    <3>2. \A d \in Caller : adding[d] # None => adding[d].task # None.task
      BY DEF TimerInv, Dues, AddingDue, None, Task
    <3> QED
      BY <1>4, <3>1, <3>2
  <2> QED
    BY <1>0, <2>1 DEF TimerInv, OnceThere
<1>12. AddingDue'
  BY <1>0, <1>4, <1>6 DEF TimerInv, Dues, AddingDue, DueOf
<1>13. MappedDue'
  BY <1>0, <1>1, <1>3 DEF TimerInv, Dues, MappedDue, DueOf
<1>14. TakenDue' /\ RanDue' /\ TakenWhenRun'
  BY <1>0 DEF TimerInv, Dues, TakenDue, RanDue, TakenWhenRun, DueOf
<1>15. OneOfEachDueLeft'
  <2>1. t0 \in Task /\ t0 \notin replaced'
    BY <1>2, <1>9
  <2>2. ASSUME NEW t \in replaced'
        PROVE  \E u \in Task \ replaced' : DueOf(t) = DueOf(u)
    <3>1. CASE t \in replaced
      <4>1. PICK u \in Task \ replaced : DueOf(t) = DueOf(u)
        BY <3>1 DEF TimerInv, OneOfEachDueLeft
      <4>2. CASE u \in replaced'
        <5>1. u = tasks[due] /\ due \in DOMAIN tasks
          BY <1>2, <4>1, <4>2
        <5>2. DueOf(u) = due
          BY <1>5, <5>1
        <5> QED
          BY <1>1, <2>1, <4>1, <5>2
      <4> QED
        BY <4>1, <4>2
    <3>2. CASE t \notin replaced
      <4>1. t = tasks[due] /\ due \in DOMAIN tasks
        BY <1>2, <3>2
      <4> QED
        BY <1>1, <1>5, <2>1, <4>1
    <3> QED
      BY <3>1, <3>2
  <2>3. replaced' \subseteq Task
    BY <1>6, <1>7 DEF TypeOK
  <2>4. \A t \in replaced' : \E u \in Task \ replaced' : DueOf(t)' = DueOf(u)'
    BY <1>6, <2>2, <2>3
  <2> QED
    BY <1>6, <2>4 DEF OneOfEachDueLeft, DueOf
<1> QED
  BY <1>7, <1>10, <1>11, <1>12, <1>13, <1>14, <1>15 DEF TimerInv, Dues

(* Run takes the first of the tasks that are due.                          *)
LEMMA RunInv == ASSUME TimerInv, Run PROVE TimerInv'
<1>0. UNCHANGED <<now, part, aborted, tasks, adding, asked, replaced, c_time, tpc, wakeAt>> /\ tpc = "run" /\ temp # <<>>
  BY DEF Run, clock
<1>1. temp \in Seq(Task) /\ ran \in Seq([task : Task, at : 0..MaxTime, part : Part])
      /\ now \in 0..MaxTime /\ part \in Part
  BY DEF TimerInv, TypeOK
<1>2. PICK N, R \in Nat : N = Len(temp) /\ R = Len(ran) /\ N >= 1
  BY <1>0, <1>1, LenProperties, EmptySeq
<1>3. PICK t0 \in Task : t0 = temp[1]
  BY <1>1, <1>2, ElementOfSeq
<1>4. Head(temp) = t0 /\ ran' = Append(ran, [task |-> t0, at |-> now, part |-> part]) /\ temp' = Tail(temp)
  BY <1>0, <1>1, <1>3, HeadTailProperties DEF Run
<1>5. /\ temp' \in Seq(Task)
      /\ Len(temp') = N - 1
      /\ \A i \in 1..(N - 1) : temp'[i] = temp[i + 1]
  BY <1>0, <1>1, <1>2, <1>4, HeadTailProperties
<1>6. [task |-> t0, at |-> now, part |-> part] \in [task : Task, at : 0..MaxTime, part : Part]
  BY <1>1, <1>3
<1>7. /\ ran' \in Seq([task : Task, at : 0..MaxTime, part : Part])
      /\ Len(ran') = R + 1
      /\ \A i \in 1..R : ran'[i] = ran[i]
      /\ ran'[R + 1].task = t0 /\ ran'[R + 1].at = now
  BY <1>1, <1>2, <1>4, <1>6, AppendProperties
<1>8. Task' = Task
  BY <1>0 DEF Task
<1>9. TypeOK'
  BY <1>0, <1>5, <1>7, <1>8 DEF TimerInv, TypeOK
<1>10. In(t0, "taken") /\ \A q \in Kind : In(t0, q) <=> q = "taken"
  <2>1. In(t0, "taken")
    BY <1>2, <1>3 DEF In
  <2> QED
    BY <2>1 DEF TimerInv, OneKind, Kind
<1>11. \A t \in Task : In(t, "taken")' <=> In(t, "taken") /\ t # t0
  <2>1. \A i \in 2..N : temp[i] # t0
    BY <1>2, <1>3 DEF TimerInv, OnceThere
  <2>2. ASSUME NEW i \in 1..(N - 1) PROVE i + 1 \in 1..N /\ i + 1 \in 2..N
    BY <1>2
  <2>3. ASSUME NEW i \in 1..N, i # 1 PROVE i - 1 \in 1..(N - 1) /\ temp'[i - 1] = temp[i]
    BY <1>2, <1>5, <2>3
  <2>4. \A t \in Task : (\E i \in 1..(N - 1) : temp'[i] = t) <=> (\E i \in 1..N : temp[i] = t) /\ t # t0
    <3> SUFFICES ASSUME NEW t \in Task
                 PROVE  (\E i \in 1..(N - 1) : temp'[i] = t) <=> (\E i \in 1..N : temp[i] = t) /\ t # t0
      OBVIOUS
    <3>1. ASSUME NEW i \in 1..(N - 1), temp'[i] = t PROVE (\E j \in 1..N : temp[j] = t) /\ t # t0
      BY <1>5, <2>1, <2>2, <3>1
    <3>2. ASSUME NEW i \in 1..N, temp[i] = t, t # t0 PROVE \E j \in 1..(N - 1) : temp'[j] = t
      BY <1>3, <2>3, <3>2
    <3> QED
      BY <3>1, <3>2
  <2> QED
    BY <1>2, <1>5, <2>4 DEF In
<1>12. \A t \in Task : In(t, "ran")' <=> In(t, "ran") \/ t = t0
  <2>1. \A t \in Task : (\E i \in 1..(R + 1) : ran'[i].task = t) <=> (\E i \in 1..R : ran[i].task = t) \/ t = t0
    <3>1. \A i \in 1..(R + 1) : i \in 1..R \/ i = R + 1
      BY <1>2
    <3>2. R + 1 \in 1..(R + 1) /\ \A i \in 1..R : i \in 1..(R + 1)
      BY <1>2
    <3> QED
      BY <1>7, <3>1, <3>2
  <2> QED
    BY <1>2, <1>7, <2>1 DEF In
<1>13. OneKind'
  <2>1. \A t \in Task : /\ In(t, "added")' <=> In(t, "added")
                        /\ In(t, "mapped")' <=> In(t, "mapped")
                        /\ In(t, "replaced")' <=> In(t, "replaced")
    BY <1>0 DEF In
  <2>2. ASSUME NEW t \in Task
        PROVE  \E p \in Kind : \A q \in Kind : In(t, q)' <=> q = p
    <3>1. CASE t = t0
      <4>1. \A q \in Kind : In(t, q)' <=> q = "ran"
        BY <1>10, <1>11, <1>12, <2>1, <3>1 DEF Kind
      <4> QED
        BY <4>1 DEF Kind
    <3>2. CASE t # t0
      <4>1. \A q \in Kind : In(t, q)' <=> In(t, q)
        BY <1>11, <1>12, <2>1, <3>2 DEF Kind
      <4> QED
        BY <4>1 DEF TimerInv, OneKind
    <3> QED
      BY <3>1, <3>2
  <2> QED
    BY <1>8, <2>2 DEF OneKind
<1>14. OnceThere'
  <2>1. \A i, j \in 1..(N - 1) : temp'[i] = temp'[j] => i = j
    <3> SUFFICES ASSUME NEW i \in 1..(N - 1), NEW j \in 1..(N - 1), temp'[i] = temp'[j] PROVE i = j
      OBVIOUS
    <3>1. i + 1 \in 1..N /\ j + 1 \in 1..N /\ temp[i + 1] = temp[j + 1]
      BY <1>2, <1>5
    <3>2. i + 1 = j + 1
      BY <1>2, <3>1 DEF TimerInv, OnceThere
    <3> QED
      BY <1>2, <3>2
  <2>2. \A i, j \in 1..(R + 1) : ran'[i].task = ran'[j].task => i = j
    <3>1. \A i \in 1..R : ran[i].task # t0
      <4>1. ~In(t0, "ran")
        BY <1>10 DEF Kind
      <4> QED
        BY <1>2, <4>1 DEF In
    <3>2. \A i, j \in 1..R : ran[i].task = ran[j].task => i = j
      BY <1>2 DEF TimerInv, OnceThere
    <3>3. \A i \in 1..(R + 1) : i \in 1..R \/ i = R + 1
      BY <1>2
    <3> QED
      BY <1>7, <3>1, <3>2, <3>3
  <2>3. \A d, e \in Caller : adding'[d] # None /\ adding'[d].task = adding'[e].task => d = e
    BY <1>0 DEF TimerInv, OnceThere
  <2> QED
    BY <1>5, <1>7, <2>1, <2>2, <2>3 DEF OnceThere
<1>15. AddingDue' /\ MappedDue'
  BY <1>0, <1>8 DEF TimerInv, Dues, AddingDue, MappedDue, DueOf
<1>16. DueOf(t0) <= c_time /\ \A i \in 1..N : DueOf(temp[i]) <= c_time
  BY <1>2, <1>3 DEF TimerInv, Dues, TakenDue
<1>17. TakenDue'
  <2>1. \A i \in 1..(N - 1) : i + 1 \in 1..N
    BY <1>2
  <2>2. \A i \in 1..(N - 1) : DueOf(temp[i + 1]) <= c_time
    BY <1>16, <2>1
  <2> QED
    BY <1>0, <1>5, <2>2 DEF TakenDue, DueOf
<1>18. RanDue'
  <2>1. DueOf(t0) \in Nat
    <3>1. asked[t0] \in [at : 0..MaxTime, part : Part, delay : Delay]
      BY ElementOfSeq DEF TimerInv, TypeOK, Task
    <3>2. asked[t0].at \in Nat /\ asked[t0].delay \in Nat
      <4>1. asked[t0].at \in 0..MaxTime /\ asked[t0].delay \in Delay
        BY <3>1
      <4> QED
        BY <4>1, DelaysAndTimes, Zenon
    <3>3. Rounded(asked[t0].delay) \in Nat
      BY <3>2, RoundedUp
    <3> QED
      BY <3>2, <3>3 DEF DueOf
  <2>2. DueOf(t0) <= now
    BY <1>1, <1>16, <2>1 DEF TimerInv, TypeOK
  <2>3. \A i \in 1..R : DueOf(ran[i].task) <= ran[i].at
    BY <1>2 DEF TimerInv, Dues, RanDue
  <2>4. \A i \in 1..(R + 1) : i \in 1..R \/ i = R + 1
    BY <1>2
  <2> QED
    BY <1>0, <1>7, <2>2, <2>3, <2>4 DEF RanDue, DueOf
<1>19. OneOfEachDueLeft' /\ TakenWhenRun'
  BY <1>0, <1>8 DEF TimerInv, OneOfEachDueLeft, TakenWhenRun, DueOf
<1> QED
  BY <1>9, <1>13, <1>14, <1>15, <1>17, <1>18, <1>19 DEF TimerInv, Dues

(* Look moves the tasks that are due by c_time from the map to temp.       *)
LEMMA LookInv == ASSUME TimerInv, Look PROVE TimerInv'
<1>0. UNCHANGED <<now, part, aborted, adding, asked, replaced, c_time, wakeAt, ran>> /\ tpc' = "run"
  BY DEF Look, clock
<1>1. \A i \in 1..Len(temp) : FALSE
  <2>1. Len(temp) = 0
    BY EmptySeq, LenProperties DEF Look, TimerInv, TakenWhenRun
  <2> QED
    BY <2>1
<1>2. PICK S : S = Ripe
  OBVIOUS
<1>3. S \subseteq DOMAIN tasks /\ S \subseteq Nat /\ IsFiniteSet(S)
  <2>1. Due \subseteq Nat /\ IsFiniteSet(Due)
    BY FS_Interval, TimerAssumption DEF Due
  <2>2. S \subseteq DOMAIN tasks /\ DOMAIN tasks \subseteq Due
    BY <1>2 DEF Ripe, TimerInv, TypeOK
  <2> QED
    BY <2>1, <2>2, FS_Subset
<1>4. PICK N : N = Cardinality(S)
  OBVIOUS
<1>5. PICK key : key = InOrder(S)
  OBVIOUS
<1>6. /\ N \in Nat
      /\ \A i \in 1..N : key[i] \in S
      /\ \A i, j \in 1..N : key[i] = key[j] => i = j
      /\ \A k \in S : \E i \in 1..N : key[i] = k
  BY <1>3, <1>4, <1>5, InOrderLists
<1>7. temp' = [i \in 1..N |-> tasks[key[i]]] /\ tasks' = [k \in DOMAIN tasks \ S |-> tasks[k]]
  BY <1>2, <1>4, <1>5 DEF Look
<1>8. \A k \in DOMAIN tasks : tasks[k] \in Task /\ DueOf(tasks[k]) = k
  BY DEF TimerInv, TypeOK, Dues, MappedDue
<1>9. temp' \in Seq(Task) /\ Len(temp') = N
  <2>1. temp' \in [1..N -> Task]
    BY <1>3, <1>6, <1>7, <1>8
  <2>2. temp' \in Seq(Task)
    BY <1>6, <2>1, SeqDef
  <2> QED
    BY <1>6, <1>7, <2>1, <2>2, LenProperties
<1>10. /\ DOMAIN tasks' = DOMAIN tasks \ S
       /\ \A k \in DOMAIN tasks' : tasks'[k] = tasks[k]
       /\ \A i \in 1..N : temp'[i] = tasks[key[i]]
  BY <1>7
<1>11. Task' = Task
  BY <1>0 DEF Task
<1>12. TypeOK'
  BY <1>0, <1>8, <1>9, <1>10, <1>11 DEF TimerInv, TypeOK
<1>13. ASSUME NEW t \in Task
       PROVE  (\E k \in DOMAIN tasks' : tasks'[k] = t)
                 <=> (\E k \in DOMAIN tasks : tasks[k] = t) /\ ~(\E k \in S : tasks[k] = t)
  BY <1>3, <1>8, <1>10
<1>14. ASSUME NEW t \in Task
       PROVE  (\E i \in 1..N : temp'[i] = t) <=> \E k \in S : tasks[k] = t
  BY <1>6, <1>10
<1>15. OneKind'
  <2>1. \A t \in Task : /\ In(t, "added")' <=> In(t, "added")
                        /\ In(t, "ran")' <=> In(t, "ran")
                        /\ In(t, "replaced")' <=> In(t, "replaced")
    BY <1>0 DEF In
  <2>2. ASSUME NEW t \in Task
        PROVE  /\ In(t, "mapped")' <=> In(t, "mapped") /\ ~(\E k \in S : tasks[k] = t)
               /\ In(t, "taken")' <=> \E k \in S : tasks[k] = t
               /\ ~In(t, "taken")
    <3>1. In(t, "mapped")' <=> In(t, "mapped") /\ ~(\E k \in S : tasks[k] = t)
      BY <1>13, Zenon DEF In
    <3>2. In(t, "taken")' <=> \E k \in S : tasks[k] = t
      BY <1>9, <1>14, Zenon DEF In
    <3>3. ~In(t, "taken")
      BY <1>1, Zenon DEF In
    <3> QED
      BY <3>1, <3>2, <3>3
  <2>3. ASSUME NEW t \in Task
        PROVE  \E p \in Kind : \A q \in Kind : In(t, q)' <=> q = p
    <3>1. CASE \E k \in S : tasks[k] = t
      <4>1. In(t, "mapped")
        BY <1>3, <3>1, Zenon DEF In
      <4>2. \A q \in Kind : In(t, q) <=> q = "mapped"
        BY <4>1 DEF TimerInv, OneKind, Kind
      <4>3. \A q \in Kind : In(t, q)' <=> q = "taken"
        BY <2>1, <2>2, <3>1, <4>2 DEF Kind
      <4> QED
        BY <4>3 DEF Kind
    <3>2. CASE ~(\E k \in S : tasks[k] = t)
      <4>1. \A q \in Kind : In(t, q)' <=> In(t, q)
        BY <2>1, <2>2, <3>2 DEF Kind
      <4> QED
        BY <4>1 DEF TimerInv, OneKind
    <3> QED
      BY <3>1, <3>2
  <2> QED
    BY <1>11, <2>3 DEF OneKind
<1>16. OnceThere'
  <2>1. \A i, j \in 1..N : temp'[i] = temp'[j] => i = j
    BY <1>3, <1>6, <1>8, <1>10
  <2> QED
    BY <1>0, <1>9, <2>1 DEF TimerInv, OnceThere
<1>17. AddingDue' /\ RanDue'
  BY <1>0, <1>11 DEF TimerInv, Dues, AddingDue, RanDue, DueOf
<1>18. MappedDue'
  BY <1>0, <1>8, <1>10 DEF MappedDue, DueOf
<1>19. TakenDue'
  <2>1. \A k \in S : DueOf(tasks[k]) <= c_time
    BY <1>2, <1>8 DEF Ripe
  <2> QED
    BY <1>0, <1>6, <1>9, <1>10, <2>1 DEF TakenDue, DueOf
<1>20. OneOfEachDueLeft' /\ TakenWhenRun'
  BY <1>0, <1>11 DEF TimerInv, OneOfEachDueLeft, TakenWhenRun, DueOf
<1> QED
  BY <1>12, <1>15, <1>16, <1>17, <1>18, <1>19, <1>20 DEF TimerInv, Dues

LEMMA NextInv == ASSUME TimerInv, [Next]_vars PROVE TimerInv'
<1>1. CASE Tick
  BY <1>1, TickInv
<1>2. CASE Thread
  BY <1>2, ReadClockInv, LookInv, RunInv, SleepInv, WakeInv DEF Thread
<1>3. ASSUME NEW c \in Caller, addTask(c) PROVE TimerInv'
  BY <1>3, AddInv
<1>4. ASSUME NEW c \in Caller, Insert(c) PROVE TimerInv'
  BY <1>4, InsertInv
<1>5. CASE Destroy
  BY <1>5, DestroyInv
<1>6. CASE UNCHANGED vars
  BY <1>6, StutterInv
<1> QED
  BY <1>1, <1>2, <1>3, <1>4, <1>5, <1>6 DEF Next

(* TimerInv is an inductive invariant of the timer.                        *)
THEOREM Invariance == Spec => []TimerInv
<1>1. TimerInv /\ [Next]_vars => TimerInv'
  BY NextInv
<1> QED
  BY InitInv, <1>1, PTL DEF Spec
-----------------------------------------------------------------------------
(* The state keeps its types: the map holds known tasks under due times    *)
(* within the bound (timer.h:13-24).                                       *)
THEOREM TypeCorrect == Spec => []TypeOK
<1>1. TimerInv => TypeOK
  BY DEF TimerInv
<1> QED
  BY Invariance, <1>1, PTL

(* No task runs before the delay its caller asked for has passed, however  *)
(* finely the clock runs below the milliseconds it is cut down to and      *)
(* however long the caller takes between reading it and the mutex; but a   *)
(* delay of v may end less than a millisecond early                        *)
(* (timer.h:41-42, 54-58, 73, 82).                                         *)
THEOREM NeverEarlyAlways == Spec => []NeverEarly
<1>1. TimerInv => NeverEarly
  <2> SUFFICES ASSUME TimerInv, NEW i \in 1..Len(ran), NEW a, a = asked[ran[i].task]
               PROVE  \/ Later(ran[i], [at |-> a.at + a.delay, part |-> a.part])
                      \/ a.delay = V /\ Later(ran[i], [at |-> a.at + a.delay, part |-> 0])
    BY DEF NeverEarly
  <2>1. ran[i] \in [task : Task, at : 0..MaxTime, part : Part]
    BY ElementOfSeq, Zenon DEF TimerInv, TypeOK
  <2>2. PICK t \in Task : t = ran[i].task
    BY <2>1
  <2>3. a \in [at : 0..MaxTime, part : Part, delay : Delay]
    BY <2>2, ElementOfSeq, Zenon DEF TimerInv, TypeOK, Task
  <2>4. ran[i].at \in Nat /\ a.at \in Nat /\ a.delay \in Nat /\ ran[i].part \in Nat
    <3>1. ran[i].at \in 0..MaxTime /\ a.at \in 0..MaxTime /\ a.delay \in Delay
      BY <2>1, <2>3
    <3>2. ran[i].part \in 0..(Parts - 1)
      BY <2>1, Zenon DEF Part
    <3>3. ran[i].at \in Nat /\ a.at \in Nat /\ a.delay \in Nat
      BY <3>1, DelaysAndTimes, Zenon
    <3> QED
      BY <3>2, <3>3, TimerAssumption
  <2>5. /\ Rounded(a.delay) \in Nat /\ Rounded(a.delay) >= a.delay
        /\ a.delay # V => Rounded(a.delay) >= a.delay + 1
    BY <2>4, RoundedUp
  <2>6. a.at + Rounded(a.delay) <= ran[i].at
    BY <2>2 DEF TimerInv, Dues, RanDue, DueOf
  <2>7. CASE a.delay # V
    <3>1. ran[i].at > a.at + a.delay
      BY <2>4, <2>5, <2>6, <2>7
    <3> QED
      BY <3>1 DEF Later
  <2>8. CASE a.delay = V
    <3>1. ran[i].at >= a.at + a.delay /\ ran[i].part >= 0
      BY <2>4, <2>5, <2>6
    <3>2. ran[i].at > a.at + a.delay \/ ran[i].at = a.at + a.delay
      BY <2>4, <3>1
    <3> QED
      BY <2>8, <3>1, <3>2 DEF Later
  <2> QED
    BY <2>7, <2>8
<1> QED
  BY Invariance, <1>1, PTL

(* The number of indices with a property of which at most one has it.      *)
LEMMA AtMostOne ==
    ASSUME NEW S, \A x, y \in S : x = y
    PROVE  Cardinality(S) = IF S = {} THEN 0 ELSE 1
<1>1. CASE S = {}
  BY <1>1, FS_EmptySet
<1>2. CASE S # {}
  <2>1. PICK x : S = {x}
    BY <1>2
  <2> QED
    BY <1>2, <2>1, FS_Singleton
<1> QED
  BY <1>1, <1>2

(* Every task is in one place, once, and what was overwritten leaves a     *)
(* task of the same due time: no other task is lost and none runs twice,   *)
(* for any callers and delays (timer.h:62, 83-93).                         *)
THEOREM TasksAccountedAlways == Spec => []TasksAccounted
<1>1. TimerInv => OnePlaceEach
  <2> SUFFICES ASSUME TimerInv, NEW t \in Task PROVE Places(t) = 1
    BY DEF OnePlaceEach
  <2>1. PICK p \in Kind : \A q \in Kind : In(t, q) <=> q = p
    BY DEF TimerInv, OneKind
  <2> DEFINE A == {c \in Caller : adding[c].task = t}
             M == {k \in DOMAIN tasks : tasks[k] = t}
             T == {i \in 1..Len(temp) : temp[i] = t}
             R == {i \in 1..Len(ran) : ran[i].task = t}
             O == {t} \cap replaced
  <2>2. \A c \in Caller : adding[c].task = t => adding[c] # None
    BY DEF None, Task
  <2>3. \A x, y \in A : x = y
    BY <2>2 DEF TimerInv, OnceThere
  <2>4. \A x, y \in M : x = y
    BY DEF TimerInv, Dues, MappedDue
  <2>5. (\A x, y \in T : x = y) /\ (\A x, y \in R : x = y) /\ (\A x, y \in O : x = y)
    BY DEF TimerInv, OnceThere
  <2>6. /\ A # {} <=> p = "added"
        /\ M # {} <=> p = "mapped"
        /\ T # {} <=> p = "taken"
        /\ R # {} <=> p = "ran"
        /\ O # {} <=> p = "replaced"
    <3>1. A # {} <=> In(t, "added")
      BY DEF In
    <3>2. M # {} <=> In(t, "mapped")
      BY Zenon DEF In
    <3>3. T # {} <=> In(t, "taken")
      BY DEF In
    <3>4. R # {} <=> In(t, "ran")
      BY DEF In
    <3>5. O # {} <=> In(t, "replaced")
      BY DEF In
    <3> HIDE DEF A, M, T, R, O
    <3> QED
      BY <2>1, <3>1, <3>2, <3>3, <3>4, <3>5 DEF Kind
  <2>7. Places(t) = Cardinality(A) + Cardinality(M) + Cardinality(T) + Cardinality(R) + Cardinality(O)
    BY DEF Places
  <2> HIDE DEF A, M, T, R, O
  <2>8. /\ Cardinality(A) = IF p = "added" THEN 1 ELSE 0
        /\ Cardinality(M) = IF p = "mapped" THEN 1 ELSE 0
        /\ Cardinality(T) = IF p = "taken" THEN 1 ELSE 0
        /\ Cardinality(R) = IF p = "ran" THEN 1 ELSE 0
        /\ Cardinality(O) = IF p = "replaced" THEN 1 ELSE 0
    BY <2>3, <2>4, <2>5, <2>6, AtMostOne
  <2> QED
    BY <2>7, <2>8 DEF Kind
<1>2. TimerInv => TasksAccounted
  BY <1>1 DEF TimerInv, TasksAccounted
<1> QED
  BY Invariance, <1>2, PTL

=============================================================================
