--------------------------- MODULE MySQLPoolProofs ---------------------------
(***************************************************************************)
(* Proofs about the connection pool (mjber/tools/mysql_poll.h), for any    *)
(* number of clients, any minimum and maximum and any number of breakages  *)
(* and shutdowns.                                                          *)
(***************************************************************************)
EXTENDS MySQLPool, FiniteSetTheorems, SequenceTheorems, TLAPS

-----------------------------------------------------------------------------
(* The inductive invariant.  A client has a connection exactly while it    *)
(* uses it or returns it; a connection is queued once or used by one       *)
(* client; and no connection that is released broken has not broken first, *)
(* so that the unsigned count cannot wrap.                                 *)
Distinct(q) == \A i, j \in 1..Len(q) : q[i] = q[j] => i = j
Elements(q) == {q[i] : i \in 1..Len(q)}

Owners == /\ Distinct(connections)
          /\ \A c \in InUse : held[c] \notin Queued
          /\ \A c, d \in InUse : held[c] = held[d] => c = d
Users == \A c \in Client : held[c] # NoConn <=> pc[c] \in {"use", "return"}
Breakages == uncounted + dropped + Cardinality(broken) <= breaks

(* Until something disturbs it the pool is used only while it is           *)
(* initialized, the counter is exact, and what sleepers wait for is in use,*)
(* lost or about to be taken by a client that is awake.                    *)
Phases == /\ initialized => \A c \in Client : pc[c] # "init"
          /\ ~initialized => \A c \in Client : pc[c] \in {"idle", "init"}
Counts == /\ WithinMax
          /\ active = Cardinality(InUse) + uncounted
Awake == Waiting \ asleep
Sleepers == /\ Waiting # {} => active + dropped + Len(connections) >= Max
            /\ asleep # {} => Len(connections) <= Cardinality(Awake)
Undisturbed == ~disturbed => Phases /\ Counts /\ Sleepers

Inv == TypeOK /\ Owners /\ Users /\ Breakages /\ Undisturbed
-----------------------------------------------------------------------------
(* Queues without repetition.                                              *)
LEMMA QueueElements == Queued = Elements(connections)
BY DEF Queued, Elements

LEMMA TailOf ==
    ASSUME NEW q \in Seq(Conn), q # <<>>, Distinct(q)
    PROVE  /\ Head(q) \in Elements(q) /\ Head(q) \in Conn
           /\ Tail(q) \in Seq(Conn) /\ Len(Tail(q)) = Len(q) - 1 /\ Len(q) \in Nat \ {0}
           /\ Distinct(Tail(q)) /\ Elements(Tail(q)) = Elements(q) \ {Head(q)}
<1>1. /\ Len(q) \in Nat /\ Len(q) > 0 /\ Head(q) = q[1] /\ Head(q) \in Conn
      /\ Tail(q) \in Seq(Conn) /\ Len(Tail(q)) = Len(q) - 1
      /\ \A i \in 1..Len(Tail(q)) : Tail(q)[i] = q[i + 1]
  BY HeadTailProperties, EmptySeq
<1>2. Head(q) \in Elements(q)
  BY <1>1 DEF Elements
<1>3. Distinct(Tail(q))
  BY <1>1 DEF Distinct
<1>4. Elements(Tail(q)) \subseteq Elements(q) \ {Head(q)}
  BY <1>1 DEF Elements, Distinct
<1>5. ASSUME NEW x \in Elements(q) \ {Head(q)} PROVE x \in Elements(Tail(q))
  <2>1. PICK i \in 1..Len(q) : x = q[i]
    BY DEF Elements
  <2>2. i # 1
    BY <1>1, <2>1
  <2>3. i - 1 \in 1..Len(Tail(q)) /\ Tail(q)[i - 1] = q[i]
    BY <1>1, <2>2
  <2> QED
    BY <2>1, <2>3 DEF Elements
<1> QED
  BY <1>1, <1>2, <1>3, <1>4, <1>5

LEMMA AppendTo ==
    ASSUME NEW q \in Seq(Conn), Distinct(q), NEW x \in Conn, x \notin Elements(q)
    PROVE  /\ Append(q, x) \in Seq(Conn) /\ Len(Append(q, x)) = Len(q) + 1
           /\ Distinct(Append(q, x)) /\ Elements(Append(q, x)) = Elements(q) \cup {x}
<1> DEFINE a == Append(q, x)
<1>1. /\ a \in Seq(Conn) /\ Len(q) \in Nat /\ Len(a) = Len(q) + 1
      /\ \A i \in 1..Len(q) : a[i] = q[i]
      /\ a[Len(q) + 1] = x
  BY AppendProperties, LenProperties
<1> HIDE DEF a
<1>2. \A i \in 1..Len(a) : i \in 1..Len(q) \/ i = Len(q) + 1
  BY <1>1
<1>3. Distinct(a)
  BY <1>1, <1>2 DEF Distinct, Elements
<1>4. Elements(a) = Elements(q) \cup {x}
  BY <1>1, <1>2 DEF Elements
<1> QED
  BY <1>1, <1>3, <1>4 DEF a

LEMMA ConcatTo ==
    ASSUME NEW q \in Seq(Conn), Distinct(q), NEW n \in Nat, NEW F \in SUBSET Conn,
           NEW new \in [1..n -> F], \A i, j \in 1..n : new[i] = new[j] => i = j,
           F \cap Elements(q) = {}
    PROVE  /\ q \o new \in Seq(Conn) /\ Len(q \o new) = Len(q) + n
           /\ Distinct(q \o new)
           /\ Elements(q \o new) \subseteq Elements(q) \cup F
           /\ Elements(q) \subseteq Elements(q \o new)
<1>1. new \in Seq(Conn) /\ Len(new) = n
  <2>1. new \in [1..n -> Conn]
    OBVIOUS
  <2> QED
    BY <2>1
<1> DEFINE a == q \o new
<1>2. /\ a \in Seq(Conn) /\ Len(q) \in Nat /\ Len(a) = Len(q) + n
      /\ \A i \in 1..(Len(q) + n) : a[i] = IF i <= Len(q) THEN q[i] ELSE new[i - Len(q)]
  <2>1. Len(q) \in Nat /\ Len(new) = n
    BY <1>1, LenProperties
  <2>2. a \in Seq(Conn) /\ Len(a) = Len(q) + Len(new)
    BY <1>1, ConcatProperties
  <2>3. \A i \in 1..(Len(q) + Len(new)) :
            (q \o new)[i] = IF i <= Len(q) THEN q[i] ELSE new[i - Len(q)]
    <3> SUFFICES ASSUME NEW i \in 1..(Len(q) + Len(new))
                 PROVE  (q \o new)[i] = IF i <= Len(q) THEN q[i] ELSE new[i - Len(q)]
      OBVIOUS
    <3>1. new \in Seq(Conn)
      BY <1>1
    <3> QED
      BY <3>1
  <2> QED
    BY <2>1, <2>2, <2>3
<1> HIDE DEF a
<1>3. \A i \in 1..Len(q) : a[i] = q[i] /\ a[i] \in Elements(q)
  BY <1>2 DEF Elements
<1>4. \A i \in 1..Len(a) : i \notin 1..Len(q) =>
          i - Len(q) \in 1..n /\ a[i] = new[i - Len(q)] /\ a[i] \in F
  <2> SUFFICES ASSUME NEW i \in 1..Len(a), i \notin 1..Len(q)
               PROVE  i - Len(q) \in 1..n /\ a[i] = new[i - Len(q)] /\ a[i] \in F
    OBVIOUS
  <2>1. i \in 1..(Len(q) + n) /\ ~(i <= Len(q)) /\ i - Len(q) \in 1..n
    BY <1>2
  <2>2. a[i] = new[i - Len(q)]
    BY <1>2, <2>1
  <2> QED
    BY <2>1, <2>2
<1>5. Distinct(a)
  <2> SUFFICES ASSUME NEW i \in 1..Len(a), NEW j \in 1..Len(a), a[i] = a[j] PROVE i = j
    BY DEF Distinct
  <2>1. CASE i \in 1..Len(q) /\ j \in 1..Len(q)
    BY <1>3, <2>1 DEF Distinct
  <2>2. CASE i \notin 1..Len(q) /\ j \notin 1..Len(q)
    <3>1. i - Len(q) = j - Len(q)
      BY <1>4, <2>2
    <3> QED
      BY <1>2, <3>1
  <2>3. CASE (i \in 1..Len(q)) # (j \in 1..Len(q))
    BY <1>3, <1>4, <2>3
  <2> QED
    BY <2>1, <2>2, <2>3
<1>6. Elements(a) \subseteq Elements(q) \cup F
  BY <1>3, <1>4 DEF Elements
<1>7. Elements(q) \subseteq Elements(a)
  BY <1>2, <1>3 DEF Elements
<1> QED
  BY <1>2, <1>5, <1>6, <1>7 DEF a

LEMMA Singleton ==
    ASSUME NEW x \in Conn
    PROVE  <<x>> # <<>> /\ Head(<<x>>) = x /\ Tail(<<x>>) = <<>>
OBVIOUS

LEMMA DistinctCount ==
    ASSUME NEW q \in Seq(Conn), Distinct(q)
    PROVE  Cardinality(Elements(q)) = Len(q)
<1>1. Len(q) \in Nat /\ q \in [1..Len(q) -> Conn]
  BY LenProperties
<1>2. q \in Surjection(1..Len(q), Elements(q)) /\ q \in Injection(1..Len(q), Elements(q))
  BY <1>1 DEF Surjection, Injection, IsInjective, Distinct, Elements
<1>3. IsFiniteSet(1..Len(q)) /\ Cardinality(1..Len(q)) = Len(q)
  BY <1>1, FS_Interval
<1> QED
  BY <1>2, <1>3, FS_Surjection

(* The sets that are counted.                                              *)
LEMMA ClientsFinite ==
    ASSUME NEW S \in SUBSET Client
    PROVE  IsFiniteSet(S) /\ Cardinality(S) \in Nat
BY PoolAssumption, FS_Subset, FS_CardinalityType

LEMMA Finite ==
    ASSUME TypeOK
    PROVE  /\ IsFiniteSet(InUse) /\ Cardinality(InUse) \in Nat
           /\ IsFiniteSet(Awake) /\ Cardinality(Awake) \in Nat
           /\ IsFiniteSet(broken) /\ Cardinality(broken) \in Nat
<1>1. InUse \subseteq Client /\ Awake \subseteq Client
  BY DEF InUse, Awake, Waiting
<1>2. Open \subseteq Conn
  <2>1. Queued \subseteq Conn
    BY ElementOfSeq DEF TypeOK, Queued
  <2>2. \A c \in InUse : held[c] \in Conn
    BY DEF TypeOK, InUse
  <2> QED
    BY <2>1, <2>2 DEF Open
<1>3. broken \subseteq Conn
  BY <1>2 DEF TypeOK
<1> QED
  BY <1>1, <1>3, PoolAssumption, FS_Subset, FS_CardinalityType
-----------------------------------------------------------------------------
LEMMA InvInit == Init => Inv
<1> SUFFICES ASSUME Init PROVE Inv
  OBVIOUS
<1>1. InUse = {} /\ Waiting = {} /\ Queued = {} /\ Len(connections) = 0 /\ broken = {}
  BY DEF Init, InUse, Waiting, Queued
<1>2. Cardinality(InUse) = 0 /\ Cardinality(broken) = 0
  BY <1>1, FS_EmptySet
<1>3. TypeOK
  <2>1. connections \in Seq(Conn) /\ active \in 0..SizeMax /\ breaks \in 0..MaxBreak
        /\ shutdowns \in 0..MaxShutdown
    BY PoolAssumption, EmptySeq DEF Init
  <2>2. pc \in [Client -> {"idle", "init", "get", "wait", "use", "return"}]
        /\ held \in [Client -> Conn \cup {NoConn}]
    BY DEF Init
  <2> QED
    BY <1>1, <2>1, <2>2 DEF Init, TypeOK
<1>4. Owners /\ Users /\ Breakages
  BY <1>1, <1>2 DEF Init, Owners, Users, Breakages, Distinct
<1>5. Phases /\ Counts /\ Sleepers
  BY <1>1, <1>2, PoolAssumption DEF Init, Phases, Counts, Sleepers, WithinMax
<1> QED
  BY <1>3, <1>4, <1>5 DEF Inv, Undisturbed

(* What the numbers of an undisturbed pool are.                            *)
LEMMA Numbers ==
    ASSUME Inv
    PROVE  /\ Len(connections) \in Nat /\ active \in 0..SizeMax /\ uncounted \in Nat
           /\ dropped \in Nat /\ breaks \in Nat /\ breaks <= MaxBreak
           /\ Cardinality(InUse) \in Nat /\ Cardinality(Awake) \in Nat
           /\ Cardinality(broken) \in Nat /\ uncounted + dropped + Cardinality(broken) <= breaks
           /\ Min \in Nat /\ Max \in Nat /\ Min <= Max /\ SizeMax \in Nat
           /\ ~disturbed => active < SizeMax
<1>1. /\ Len(connections) \in Nat /\ active \in 0..SizeMax /\ uncounted \in Nat
      /\ dropped \in Nat /\ breaks \in Nat /\ breaks <= MaxBreak
  BY PoolAssumption, LenProperties DEF Inv, TypeOK
<1>2. /\ Cardinality(InUse) \in Nat /\ Cardinality(Awake) \in Nat
      /\ Cardinality(broken) \in Nat /\ uncounted + dropped + Cardinality(broken) <= breaks
  BY Finite DEF Inv, Breakages
<1>3. ~disturbed => active <= Max + MaxBreak
  BY <1>1, <1>2, PoolAssumption DEF Inv, Undisturbed, Counts, WithinMax
<1> QED
  BY <1>1, <1>2, <1>3, PoolAssumption

(* A client that takes a connection or gives one back is counted.          *)
LEMMA InUseAdd ==
    ASSUME Inv, NEW c \in Client, NEW conn \in Conn, held[c] = NoConn,
           held' = [held EXCEPT ![c] = conn]
    PROVE  /\ InUse' = InUse \cup {c} /\ Cardinality(InUse') = Cardinality(InUse) + 1
           /\ held'[c] = conn /\ \A d \in InUse : d # c /\ held'[d] = held[d]
<1>1. InUse' = InUse \cup {c} /\ c \notin InUse
  BY PoolAssumption DEF Inv, TypeOK, InUse
<1>2. IsFiniteSet(InUse)
  BY Finite DEF Inv
<1>3. Cardinality(InUse \cup {c}) = Cardinality(InUse) + 1
  BY <1>1, <1>2, FS_AddElement
<1>4. held'[c] = conn /\ \A d \in InUse : d # c /\ held'[d] = held[d]
  BY <1>1 DEF Inv, TypeOK, InUse
<1> QED
  BY <1>1, <1>3, <1>4

LEMMA InUseRemove ==
    ASSUME Inv, NEW c \in Client, held[c] # NoConn, held' = [held EXCEPT ![c] = NoConn]
    PROVE  /\ c \in InUse /\ InUse' = InUse \ {c} /\ Cardinality(InUse) > 0
           /\ Cardinality(InUse') = Cardinality(InUse) - 1
           /\ held'[c] = NoConn /\ \A d \in InUse' : held'[d] = held[d]
<1>1. InUse' = InUse \ {c} /\ c \in InUse
  BY DEF Inv, TypeOK, InUse
<1>2. IsFiniteSet(InUse) /\ Cardinality(InUse) \in Nat
  BY Finite DEF Inv
<1>3. Cardinality(InUse) # 0
  BY <1>1, <1>2, FS_EmptySet
<1>4. Cardinality(InUse \ {c}) = Cardinality(InUse) - 1
  BY <1>1, <1>2, FS_RemoveElement
<1>5. held'[c] = NoConn /\ \A d \in InUse \ {c} : held'[d] = held[d]
  BY DEF Inv, TypeOK, InUse
<1> QED
  BY <1>1, <1>2, <1>3, <1>4, <1>5
-----------------------------------------------------------------------------
(* A client goes from one place to another with nothing in its hands, and  *)
(* only an empty queue lets one fall asleep.                               *)
Places == {"idle", "init", "get", "wait", "use", "return"}

LEMMA PlaceStep ==
    ASSUME Inv, NEW c \in Client, NEW p \in Places, pc' = [pc EXCEPT ![c] = p],
           UNCHANGED <<pool, held, broken, history, bounds>>, aborted' \in BOOLEAN,
           held[c] # NoConn <=> p \in {"use", "return"},
           asleep' \subseteq Waiting',
           p = "init" => ~initialized, p \notin {"idle", "init"} => initialized \/ disturbed,
           \/ asleep' = asleep /\ Waiting' = Waiting
           \/ connections = <<>> /\ (Waiting' # {} => Waiting # {} \/ active >= Max)
    PROVE  Inv'
<1>1. UNCHANGED <<connections, active, initialized, held, broken, uncounted, dropped, disturbed, breaks, shutdowns>>
  BY DEF pool, history, bounds
<1>2. UNCHANGED <<Queued, InUse, Open>>
  BY <1>1 DEF Queued, InUse, Open
<1>3. pc' \in [Client -> Places]
  BY DEF Inv, TypeOK, Places
<1>4. TypeOK'
  BY <1>1, <1>2, <1>3 DEF Inv, TypeOK, Places
<1>5. Owners' /\ Breakages'
  BY <1>1, <1>2 DEF Inv, Owners, Breakages, Distinct
<1>6. Users'
  BY <1>1 DEF Inv, Users, TypeOK
<1>7. ASSUME ~disturbed PROVE Phases' /\ Counts' /\ Sleepers'
  <2>1. Phases /\ Counts /\ Sleepers
    BY <1>7 DEF Inv, Undisturbed
  <2>2. Phases'
    BY <1>1, <1>7, <2>1 DEF Phases, Inv, TypeOK, Places
  <2>3. Counts'
    BY <1>1, <1>2, <2>1 DEF Counts, WithinMax
  <2>4. CASE asleep' = asleep /\ Waiting' = Waiting
    <3>1. Awake' = Awake
      BY <2>4 DEF Awake
    <3> QED
      BY <1>1, <2>1, <2>2, <2>3, <2>4, <3>1 DEF Sleepers
  <2>5. CASE connections = <<>> /\ (Waiting' # {} => Waiting # {} \/ active >= Max)
    <3>1. Len(connections) = 0 /\ active \in Nat /\ dropped \in Nat /\ Max \in Nat
      BY <2>5, Numbers
    <3>2. Awake' \in SUBSET Client
      BY DEF Awake, Waiting
    <3>3. Cardinality(Awake') \in Nat
      BY <3>2, ClientsFinite
    <3>4. Waiting' # {} => active' + dropped' + Len(connections') >= Max
      BY <1>1, <2>1, <2>5, <3>1 DEF Sleepers
    <3>5. asleep' # {} => Len(connections') <= Cardinality(Awake')
      BY <1>1, <2>5, <3>1, <3>3
    <3> QED
      BY <2>2, <2>3, <3>4, <3>5 DEF Sleepers
  <2> QED
    BY <2>4, <2>5
<1> QED
  BY <1>1, <1>4, <1>5, <1>6, <1>7 DEF Inv, Undisturbed
-----------------------------------------------------------------------------
(* A connection that leaves the queue is counted instead.                  *)
LEMMA OneForOne ==
    ASSUME NEW a \in Nat, NEW d \in Nat, NEW l \in Nat, NEW k \in Nat, NEW m \in Nat,
           a + d + l >= m, k >= l - 1
    PROVE  (a + 1) + d + k >= m
OBVIOUS

LEMMA MoreOnBalance ==
    ASSUME NEW a \in Nat, NEW d \in Nat, NEW l \in Nat, NEW b \in Nat, NEW k \in Nat, NEW m \in Nat,
           b + k >= a + l, a + d + l >= m
    PROVE  b + d + k >= m
OBVIOUS

(* getConnection ends: the queue has lost its front, or it was empty and a *)
(* connection more may be opened; the client leaves with a connection that *)
(* nobody has, or with none.                                               *)
Shorter(rest) == \/ connections # <<>> /\ Len(rest) = Len(connections) - 1
                 \/ connections = <<>> /\ rest = <<>> /\ active < Max

LEMMA TakenStep ==
    ASSUME Inv, NEW c \in Client, pc[c] \in {"get", "wait"}, NEW conn \in Conn, Use(c, conn),
           connections' \in Seq(Conn), Distinct(connections'), Shorter(connections'),
           Elements(connections') \subseteq Queued,
           conn \notin Elements(connections'), \A d \in InUse : held[d] # conn,
           broken' \subseteq broken,
           broken' \subseteq Elements(connections') \cup {held[d] : d \in InUse},
           UNCHANGED <<initialized, aborted, uncounted, dropped, disturbed, bounds>>
    PROVE  Inv'
<1>1. /\ held' = [held EXCEPT ![c] = conn] /\ active' = Increment(active)
      /\ pc' = [pc EXCEPT ![c] = "use"] /\ asleep' = asleep \ {c}
      /\ UNCHANGED <<breaks, shutdowns>>
  BY DEF Use, Goto, bounds
<1>2. held[c] = NoConn
  BY DEF Inv, Users
<1>3. /\ InUse' = InUse \cup {c} /\ Cardinality(InUse') = Cardinality(InUse) + 1
      /\ held'[c] = conn /\ \A d \in InUse : d # c /\ held'[d] = held[d]
  BY <1>1, <1>2, InUseAdd
<1>4. Queued' = Elements(connections')
  BY DEF Queued, Elements
<1>5. {held[d] : d \in InUse} \subseteq {held'[d] : d \in InUse'}
  BY <1>3
<1>6. broken' \subseteq Open'
  BY <1>4, <1>5 DEF Open
<1>7. Waiting' = Waiting \ {c}
  BY <1>1 DEF Inv, TypeOK, Waiting
<1>8. asleep' \subseteq Waiting'
  BY <1>1, <1>7 DEF Inv, TypeOK
<1>9. held' \in [Client -> Conn \cup {NoConn}] /\ active' \in 0..SizeMax
  BY <1>1, PoolAssumption DEF Inv, TypeOK, Increment
<1>10. TypeOK'
  BY <1>1, <1>6, <1>8, <1>9 DEF Inv, TypeOK
<1>11. Owners'
  <2>1. \A d \in InUse' : held'[d] \notin Queued'
    BY <1>3, <1>4 DEF Inv, Owners
  <2>2. \A d, e \in InUse' : held'[d] = held'[e] => d = e
    BY <1>3 DEF Inv, Owners
  <2> QED
    BY <2>1, <2>2 DEF Owners
<1>12. Users'
  BY <1>1, PoolAssumption DEF Inv, Users, TypeOK
<1>13. Breakages'
  <2>1. Cardinality(broken') <= Cardinality(broken) /\ Cardinality(broken') \in Nat
    BY Finite, FS_Subset, FS_CardinalityType DEF Inv
  <2> QED
    BY <1>1, <2>1, Numbers DEF Breakages
<1>14. ASSUME ~disturbed PROVE Phases' /\ Counts' /\ Sleepers'
  <2>1. Phases /\ Counts /\ Sleepers /\ initialized
    BY <1>14 DEF Inv, Undisturbed, Phases
  <2>2. Phases'
    BY <1>1, <2>1 DEF Phases, Inv, TypeOK
  <2>3. active' = active + 1
    BY <1>1, <1>14, Numbers DEF Increment
  <2>4. Len(connections) \in Nat /\ (connections = <<>> => Len(connections) = 0)
    BY Numbers
  <2>5. Counts'
    <3>1. Len(connections) + Cardinality(InUse) <= Max /\ active = Cardinality(InUse) + uncounted
      BY <2>1 DEF Counts, WithinMax
    <3>2. active' = Cardinality(InUse') + uncounted'
      BY <1>3, <2>3, <3>1, Numbers
    <3>3. Len(connections') + Cardinality(InUse') <= Max
      <4>1. CASE connections # <<>> /\ Len(connections') = Len(connections) - 1
        BY <1>3, <2>4, <3>1, <4>1, Numbers
      <4>2. CASE connections = <<>> /\ connections' = <<>> /\ active < Max
        BY <1>3, <2>4, <3>1, <4>2, Numbers
      <4> QED
        BY <4>1, <4>2 DEF Shorter
    <3> QED
      BY <3>2, <3>3 DEF Counts, WithinMax
  <2>6. ASSUME Waiting' # {} PROVE active' + dropped' + Len(connections') >= Max
    <3>1. Waiting # {} /\ dropped' = dropped
      BY <1>7, <2>6
    <3>2. active + dropped + Len(connections) >= Max
      BY <2>1, <3>1 DEF Sleepers
    <3>3. Len(connections') >= Len(connections) - 1
      <4>1. CASE connections # <<>> /\ Len(connections') = Len(connections) - 1
        BY <2>4, <4>1
      <4>2. CASE connections = <<>> /\ connections' = <<>> /\ active < Max
        BY <2>4, <4>2
      <4> QED
        BY <4>1, <4>2 DEF Shorter
    <3>4. Len(connections') \in Nat
      BY LenProperties
    <3>5. active \in Nat /\ dropped \in Nat /\ Max \in Nat /\ Len(connections) \in Nat
      BY Numbers
    <3>6. (active + 1) + dropped + Len(connections') >= Max
      BY <3>2, <3>3, <3>4, <3>5, OneForOne, Zenon
    <3> QED
      BY <2>3, <3>1, <3>6
  <2>7. ASSUME asleep' # {} PROVE Len(connections') <= Cardinality(Awake')
    <3>1. asleep # {} /\ Len(connections) <= Cardinality(Awake)
      BY <1>1, <2>1, <2>7 DEF Sleepers
    <3>2. Awake' = Awake \ {c}
      BY <1>1, <1>7 DEF Awake
    <3>3. IsFiniteSet(Awake) /\ Cardinality(Awake) \in Nat
      BY Finite DEF Inv
    <3>4. Cardinality(Awake \ {c}) = IF c \in Awake THEN Cardinality(Awake) - 1 ELSE Cardinality(Awake)
      BY <3>3, FS_RemoveElement
    <3>5. Awake \ {c} \in SUBSET Client
      BY DEF Awake, Waiting
    <3>6. Cardinality(Awake \ {c}) \in Nat
      BY <3>5, ClientsFinite
    <3>7. Cardinality(Awake') >= Cardinality(Awake) - 1 /\ Cardinality(Awake') \in Nat
      BY <3>2, <3>3, <3>4, <3>6
    <3> QED
      BY <2>4, <3>1, <3>3, <3>7 DEF Shorter
  <2> QED
    BY <2>2, <2>5, <2>6, <2>7 DEF Sleepers
<1> QED
  BY <1>10, <1>11, <1>12, <1>13, <1>14 DEF Inv, Undisturbed

(* The front was broken and could not be replaced.                         *)
LEMMA LostStep ==
    ASSUME Inv, NEW c \in Client, pc[c] \in {"get", "wait"}, Return(c),
           connections # <<>> , connections' = Tail(connections),
           Head(connections) \in broken, broken' = broken \ {Head(connections)}, dropped' = dropped + 1,
           UNCHANGED <<active, initialized, held, aborted, uncounted, disturbed, bounds>>
    PROVE  Inv'
<1>1. /\ pc' = [pc EXCEPT ![c] = "idle"] /\ asleep' = asleep \ {c}
      /\ UNCHANGED <<breaks, shutdowns>>
  BY DEF Return, Goto, bounds
<1>2. /\ connections' \in Seq(Conn) /\ Len(connections') = Len(connections) - 1
      /\ Distinct(connections') /\ Queued' = Queued \ {Head(connections)}
      /\ Len(connections) \in Nat \ {0}
  <2>1. Queued' = Elements(connections')
    BY DEF Queued, Elements
  <2> QED
    BY <2>1, TailOf, QueueElements DEF Inv, TypeOK, Owners
<1>3. InUse' = InUse
  BY DEF InUse
<1>4. broken' \subseteq Open'
  BY <1>2, <1>3 DEF Inv, TypeOK, Open
<1>5. Waiting' = Waiting \ {c}
  BY <1>1 DEF Inv, TypeOK, Waiting
<1>6. TypeOK'
  BY <1>1, <1>2, <1>4, <1>5 DEF Inv, TypeOK
<1>7. Owners'
  BY <1>2, <1>3 DEF Inv, Owners
<1>8. Users'
  BY <1>1 DEF Inv, Users, TypeOK
<1>9. Breakages'
  <2>1. IsFiniteSet(broken)
    BY Finite DEF Inv
  <2>2. Cardinality(broken \ {Head(connections)}) = Cardinality(broken) - 1
    BY <2>1, FS_RemoveElement
  <2>3. Cardinality(broken') = Cardinality(broken) - 1
    BY <2>2
  <2> QED
    BY <1>1, <2>3, Numbers DEF Breakages
<1>10. ASSUME ~disturbed PROVE Phases' /\ Counts' /\ Sleepers'
  <2>1. Phases /\ Counts /\ Sleepers /\ initialized
    BY <1>10 DEF Inv, Undisturbed, Phases
  <2>2. Phases'
    BY <1>1, <2>1 DEF Phases, Inv, TypeOK
  <2>3. Counts'
    <3>1. Len(connections) + Cardinality(InUse) <= Max /\ active = Cardinality(InUse) + uncounted
      BY <2>1 DEF Counts, WithinMax
    <3>2. Len(connections') + Cardinality(InUse') <= Max
      BY <1>2, <1>3, <3>1, Numbers
    <3> QED
      BY <1>3, <3>1, <3>2 DEF Counts, WithinMax
  <2>4. ASSUME Waiting' # {} PROVE active' + dropped' + Len(connections') >= Max
    <3>1. active + dropped + Len(connections) >= Max
      BY <1>5, <2>1, <2>4 DEF Sleepers
    <3>2. dropped \in Nat /\ active \in Nat /\ Len(connections) \in Nat /\ Max \in Nat
      BY Numbers
    <3>3. Len(connections') = Len(connections) - 1
      BY <1>2
    <3> QED
      BY <3>1, <3>2, <3>3
  <2>5. ASSUME asleep' # {} PROVE Len(connections') <= Cardinality(Awake')
    <3>1. asleep # {} /\ Len(connections) <= Cardinality(Awake)
      BY <1>1, <2>1, <2>5 DEF Sleepers
    <3>2. Awake' = Awake \ {c}
      BY <1>1, <1>5 DEF Awake
    <3>3. IsFiniteSet(Awake) /\ Cardinality(Awake) \in Nat
      BY Finite DEF Inv
    <3>4. Cardinality(Awake \ {c}) = IF c \in Awake THEN Cardinality(Awake) - 1 ELSE Cardinality(Awake)
      BY <3>3, FS_RemoveElement
    <3>5. Awake \ {c} \in SUBSET Client
      BY DEF Awake, Waiting
    <3>6. Cardinality(Awake \ {c}) \in Nat
      BY <3>5, ClientsFinite
    <3>7. Cardinality(Awake') >= Cardinality(Awake) - 1 /\ Cardinality(Awake') \in Nat
      BY <3>2, <3>3, <3>4, <3>6
    <3> QED
      BY <1>2, <3>1, <3>3, <3>7
  <2> QED
    BY <2>2, <2>3, <2>4, <2>5 DEF Sleepers
<1> QED
  BY <1>6, <1>7, <1>8, <1>9, <1>10 DEF Inv, Undisturbed

LEMMA FreshIsNew ==
    ASSUME Inv, NEW new \in Fresh
    PROVE  /\ new \in Conn /\ new \notin Queued /\ new \notin broken
           /\ \A d \in InUse : held[d] # new
BY DEF Fresh, Open, Inv, TypeOK

LEMMA TakeFrontStep ==
    ASSUME Inv, NEW c \in Client, pc[c] \in {"get", "wait"},
           connections # <<>>, Take(c, connections),
           UNCHANGED <<initialized, aborted, uncounted, disturbed, bounds>>
    PROVE  Inv'
<1> DEFINE front == Head(connections)
<1>1. /\ connections' = Tail(connections) /\ broken' = broken \ {front}
      /\ \/ front \notin broken /\ Use(c, front) /\ UNCHANGED dropped
         \/ front \in broken /\ \E new \in Fresh : Use(c, new) /\ UNCHANGED dropped
         \/ front \in broken /\ Return(c) /\ dropped' = dropped + 1 /\ UNCHANGED <<held, active>>
  BY DEF Take
<1>2. /\ connections' \in Seq(Conn) /\ Len(connections') = Len(connections) - 1
      /\ Distinct(connections') /\ Elements(connections') = Queued \ {front}
      /\ front \in Queued /\ front \in Conn
  BY <1>1, TailOf, QueueElements DEF Inv, TypeOK, Owners
<1>3. broken' \subseteq broken /\ broken' \subseteq Elements(connections') \cup {held[d] : d \in InUse}
  BY <1>1, <1>2 DEF Inv, TypeOK, Open
<1>4. Shorter(connections')
  BY <1>2 DEF Shorter
<1>5. CASE front \notin broken /\ Use(c, front) /\ UNCHANGED dropped
  <2>1. \A d \in InUse : held[d] # front
    BY <1>2 DEF Inv, Owners
  <2>2. front \notin Elements(connections') /\ Elements(connections') \subseteq Queued
    BY <1>2
  <2> HIDE DEF front
  <2> QED
    BY <1>2, <1>3, <1>4, <1>5, <2>1, <2>2, TakenStep
<1>6. CASE front \in broken /\ \E new \in Fresh : Use(c, new) /\ UNCHANGED dropped
  <2>1. PICK new \in Fresh : Use(c, new) /\ UNCHANGED dropped
    BY <1>6
  <2>2. /\ new \in Conn /\ \A d \in InUse : held[d] # new
        /\ new \notin Elements(connections') /\ Elements(connections') \subseteq Queued
    BY <1>2, FreshIsNew
  <2> QED
    BY <1>2, <1>3, <1>4, <2>1, <2>2, TakenStep
<1>7. CASE front \in broken /\ Return(c) /\ dropped' = dropped + 1 /\ UNCHANGED <<held, active>>
  BY <1>1, <1>7, LostStep
<1> QED
  BY <1>1, <1>5, <1>6, <1>7

LEMMA TakeNewStep ==
    ASSUME Inv, NEW c \in Client, pc[c] = "get", MayOpen, NEW new \in Fresh, Take(c, <<new>>),
           UNCHANGED <<initialized, aborted, uncounted, disturbed, bounds>>
    PROVE  Inv'
<1>1. connections = <<>> /\ active < Max
  BY DEF MayOpen
<1>2. /\ new \in Conn /\ new \notin Queued /\ new \notin broken
      /\ \A d \in InUse : held[d] # new
  BY FreshIsNew
<1>3. Head(<<new>>) = new /\ Tail(<<new>>) = <<>>
  BY <1>2, Singleton
<1>4. connections' = <<>> /\ broken' = broken \ {new} /\ Use(c, new) /\ UNCHANGED dropped
  BY <1>2, <1>3 DEF Take
<1>5. /\ connections' \in Seq(Conn) /\ Distinct(connections')
      /\ Elements(connections') = {} /\ Queued = {}
  BY <1>1, <1>4, EmptySeq DEF Distinct, Elements, Queued
<1>6. Shorter(connections')
  BY <1>1, <1>4 DEF Shorter
<1>7. broken' \subseteq broken /\ broken' \subseteq Elements(connections') \cup {held[d] : d \in InUse}
  BY <1>4, <1>5 DEF Inv, TypeOK, Open
<1>8. new \notin Elements(connections') /\ Elements(connections') \subseteq Queued
  BY <1>5
<1> QED
  BY <1>2, <1>4, <1>5, <1>6, <1>7, <1>8, TakenStep

(* The steps of getConnection.                                             *)
LEMMA GetStep == ASSUME Inv, NEW c \in Client, Get(c) PROVE Inv'
<1>1. pc[c] = "get" /\ UNCHANGED <<initialized, aborted, uncounted, disturbed, bounds>>
  BY DEF Get
<1>2. initialized \/ disturbed
  BY <1>1 DEF Inv, Undisturbed, Phases
<1>3. held[c] = NoConn /\ c \notin asleep /\ aborted \in BOOLEAN
  BY <1>1 DEF Inv, Users, TypeOK, Waiting
<1>4. CASE MayOpen /\ \E new \in Fresh : Take(c, <<new>>)
  BY <1>1, <1>4, TakeNewStep
<1>5. CASE connections # <<>> /\ Take(c, connections)
  BY <1>1, <1>5, TakeFrontStep
<1>6. CASE /\ MayOpen /\ Return(c)
           /\ UNCHANGED <<connections, active, held, broken, dropped>>
  <2>1. pc' = [pc EXCEPT ![c] = "idle"] /\ asleep' = asleep
    BY <1>3, <1>6 DEF Return, Goto
  <2>2. Waiting' = Waiting /\ asleep' \subseteq Waiting'
    BY <1>1, <2>1 DEF Inv, TypeOK, Waiting
  <2>3. UNCHANGED <<pool, held, broken, history, bounds>> /\ aborted' \in BOOLEAN
    BY <1>1, <1>3, <1>6 DEF pool, history
  <2> QED
    BY <1>3, <2>1, <2>2, <2>3, PlaceStep DEF Places
<1>7. CASE /\ connections = <<>> /\ ~MayOpen
           /\ Goto(c, "wait") /\ asleep' = asleep \cup {c}
           /\ UNCHANGED <<connections, active, held, broken, dropped>>
  <2>1. pc' = [pc EXCEPT ![c] = "wait"]
    BY <1>7 DEF Goto
  <2>2. asleep' \subseteq Waiting'
    BY <1>7, <2>1 DEF Inv, TypeOK, Waiting
  <2>3. UNCHANGED <<pool, held, broken, history, bounds>> /\ aborted' \in BOOLEAN
    BY <1>1, <1>3, <1>7 DEF pool, history
  <2>4. active >= Max
    BY <1>7, Numbers DEF MayOpen
  <2> QED
    BY <1>2, <1>3, <1>7, <2>1, <2>2, <2>3, <2>4, PlaceStep DEF Places
<1> QED
  BY <1>4, <1>5, <1>6, <1>7 DEF Get

LEMMA WakeStep == ASSUME Inv, NEW c \in Client, Wake(c) PROVE Inv'
<1>1. pc[c] = "wait" /\ UNCHANGED <<initialized, aborted, uncounted, disturbed, bounds>>
  BY DEF Wake
<1>2. CASE connections # <<>> /\ Take(c, connections)
  BY <1>1, <1>2, TakeFrontStep
<1>3. CASE /\ connections = <<>> /\ asleep' = asleep \cup {c}
           /\ UNCHANGED <<connections, active, pc, held, broken, dropped>>
  <2>1. pc' = [pc EXCEPT ![c] = "wait"] /\ Waiting' = Waiting
    BY <1>1, <1>3 DEF Inv, TypeOK, Waiting
  <2>2. asleep' \subseteq Waiting'
    BY <1>1, <1>3, <2>1 DEF Inv, TypeOK, Waiting
  <2>3. UNCHANGED <<pool, held, broken, history, bounds>> /\ aborted' \in BOOLEAN
    BY <1>1, <1>3 DEF pool, history, Inv, TypeOK
  <2>4. held[c] = NoConn /\ (initialized \/ disturbed)
    BY <1>1 DEF Inv, Users, Undisturbed, Phases
  <2> QED
    BY <1>3, <2>1, <2>2, <2>3, <2>4, PlaceStep DEF Places
<1> QED
  BY <1>2, <1>3 DEF Wake

LEMMA TimeoutStep == ASSUME Inv, NEW c \in Client, Timeout(c) PROVE Inv'
<1>1. pc[c] = "wait" /\ UNCHANGED <<initialized, aborted, uncounted, disturbed, bounds>>
  BY DEF Timeout
<1>2. CASE connections # <<>> /\ Take(c, connections)
  BY <1>1, <1>2, TakeFrontStep
<1>3. CASE /\ connections = <<>> /\ Return(c)
           /\ UNCHANGED <<connections, active, held, broken, dropped>>
  <2>1. pc' = [pc EXCEPT ![c] = "idle"] /\ asleep' = asleep \ {c}
    BY <1>3 DEF Return, Goto
  <2>2. Waiting' = Waiting \ {c} /\ asleep' \subseteq Waiting'
    BY <2>1 DEF Inv, TypeOK, Waiting
  <2>3. UNCHANGED <<pool, held, broken, history, bounds>> /\ aborted' \in BOOLEAN
    BY <1>1, <1>3 DEF pool, history, Inv, TypeOK
  <2>4. held[c] = NoConn
    BY <1>1 DEF Inv, Users
  <2> QED
    BY <1>3, <2>1, <2>2, <2>3, <2>4, PlaceStep DEF Places
<1> QED
  BY <1>2, <1>3 DEF Timeout

LEMMA CheckStep ==
    ASSUME Inv, NEW c \in Client, InitCheck(c) \/ GetCheck(c) \/ Execute(c)
    PROVE  Inv'
<1> DEFINE p == IF InitCheck(c) THEN "init" ELSE IF GetCheck(c) THEN "get" ELSE "return"
<1>1. /\ pc' = [pc EXCEPT ![c] = p] /\ asleep' = asleep /\ p \in {"init", "get", "return"}
      /\ UNCHANGED <<pool, held, broken, history, bounds>> /\ aborted' = aborted
      /\ p = "return" <=> pc[c] = "use"
      /\ p # "return" => pc[c] = "idle"
      /\ p = "init" => ~initialized
      /\ p = "get" => initialized
  BY DEF InitCheck, GetCheck, Execute, Goto
<1> HIDE DEF p
<1>2. held[c] # NoConn <=> p \in {"use", "return"}
  BY <1>1 DEF Inv, Users
<1>3. Waiting' = Waiting
  BY <1>1 DEF Inv, TypeOK, Waiting
<1>4. p \notin {"idle", "init"} => initialized \/ disturbed
  BY <1>1 DEF Inv, Undisturbed, Phases
<1>5. asleep' \subseteq Waiting' /\ aborted' \in BOOLEAN /\ p \in Places
  BY <1>1, <1>3 DEF Inv, TypeOK, Places
<1> QED
  BY <1>1, <1>2, <1>3, <1>4, <1>5, PlaceStep
-----------------------------------------------------------------------------
LEMMA InitCreateStep == ASSUME Inv, NEW c \in Client, InitCreate(c) PROVE Inv'
<1>1. /\ pc[c] = "init" /\ pc' = [pc EXCEPT ![c] = "idle"] /\ asleep' = asleep
      /\ UNCHANGED <<active, held, broken, aborted, uncounted, dropped, breaks, shutdowns>>
      /\ disturbed' = (disturbed \/ ~Quiet(c) \/ connections # <<>>)
  BY DEF InitCreate, Return, Goto, bounds, Inv, TypeOK, Waiting
<1>2. PICK n \in 0..Min : \E new \in [1..n -> Fresh] :
          /\ \A i, j \in 1..n : new[i] = new[j] => i = j
          /\ connections' = connections \o new
          /\ initialized' = (initialized \/ n = Min)
  BY DEF InitCreate
<1>3. PICK new \in [1..n -> Fresh] :
          /\ \A i, j \in 1..n : new[i] = new[j] => i = j
          /\ connections' = connections \o new
          /\ initialized' = (initialized \/ n = Min)
  BY <1>2
<1>4. /\ connections' \in Seq(Conn) /\ Len(connections') = Len(connections) + n
      /\ Distinct(connections') /\ n \in Nat /\ n <= Min
      /\ Elements(connections') \subseteq Queued \cup Fresh
      /\ Queued \subseteq Elements(connections')
  <2>1. n \in Nat /\ n <= Min
    BY PoolAssumption
  <2>2. Fresh \in SUBSET Conn /\ Fresh \cap Elements(connections) = {}
    BY QueueElements DEF Fresh, Open
  <2>3. connections \in Seq(Conn) /\ Distinct(connections)
    BY DEF Inv, TypeOK, Owners
  <2> QED
    BY <1>3, <2>1, <2>2, <2>3, ConcatTo, QueueElements
<1>5. Queued' = Elements(connections') /\ InUse' = InUse
  BY <1>1 DEF Queued, Elements, InUse
<1>6. broken' \subseteq Open'
  BY <1>1, <1>4, <1>5 DEF Inv, TypeOK, Open
<1>7. Waiting' = Waiting
  BY <1>1 DEF Inv, TypeOK, Waiting
<1>8. TypeOK'
  <2>1. initialized' \in BOOLEAN /\ disturbed' \in BOOLEAN
    BY <1>1, <1>3
  <2>2. pc' \in [Client -> {"idle", "init", "get", "wait", "use", "return"}]
    BY <1>1 DEF Inv, TypeOK
  <2> QED
    BY <1>1, <1>4, <1>6, <1>7, <2>1, <2>2 DEF Inv, TypeOK
<1>9. Owners'
  <2>1. \A d \in InUse' : held'[d] \notin Queued'
    BY <1>1, <1>4, <1>5, FreshIsNew DEF Inv, Owners
  <2> QED
    BY <1>1, <1>4, <1>5, <2>1 DEF Inv, Owners
<1>10. Users' /\ Breakages'
  BY <1>1 DEF Inv, Users, TypeOK, Breakages
<1>11. ASSUME ~disturbed' PROVE Phases' /\ Counts' /\ Sleepers'
  <2>1. ~disturbed /\ Quiet(c) /\ connections = <<>>
    BY <1>1, <1>11 DEF Inv, TypeOK
  <2>2. \A d \in Client : pc'[d] = "idle" /\ pc[d] \notin {"use", "return", "wait"}
    BY <1>1, <2>1 DEF Quiet, Inv, TypeOK
  <2>3. InUse = {} /\ Waiting = {} /\ asleep = {}
    BY <2>2 DEF InUse, Waiting, Inv, Users, TypeOK
  <2>4. Phases'
    BY <2>2 DEF Phases
  <2>5. Counts'
    <3>1. active = Cardinality(InUse) + uncounted
      BY <2>1 DEF Inv, Undisturbed, Counts
    <3>2. Cardinality(InUse') = 0
      BY <1>5, <2>3, FS_EmptySet
    <3>3. Len(connections') = n
      BY <1>4, <2>1
    <3> QED
      BY <1>1, <1>4, <1>5, <3>1, <3>2, <3>3, PoolAssumption DEF Counts, WithinMax
  <2>6. Sleepers'
    BY <1>1, <1>7, <2>3 DEF Sleepers
  <2> QED
    BY <2>4, <2>5, <2>6
<1> QED
  BY <1>8, <1>9, <1>10, <1>11 DEF Inv, Undisturbed

LEMMA ShutdownStep == ASSUME Inv, Shutdown PROVE Inv'
<1>1. /\ shutdowns < MaxShutdown /\ shutdowns' = shutdowns + 1
      /\ connections' = <<>> /\ active' = 0 /\ initialized' = FALSE
      /\ broken' = broken \ Queued /\ uncounted' = 0 /\ dropped' = 0
      /\ disturbed' = (disturbed \/ \E c \in Client : pc[c] # "idle")
      /\ UNCHANGED <<pc, asleep, held, aborted, breaks>>
  BY DEF Shutdown
<1>2. /\ connections' \in Seq(Conn) /\ Len(connections') = 0
      /\ Distinct(connections') /\ Queued' = {} /\ InUse' = InUse /\ Waiting' = Waiting
  BY <1>1, EmptySeq DEF Distinct, Queued, InUse, Waiting
<1>3. broken' \subseteq Open'
  BY <1>1, <1>2 DEF Inv, TypeOK, Open
<1>4. TypeOK'
  <2>1. active' \in 0..SizeMax /\ uncounted' \in Nat /\ dropped' \in Nat
    BY <1>1, PoolAssumption
  <2>2. shutdowns' \in 0..MaxShutdown
    BY <1>1, PoolAssumption DEF Inv, TypeOK
  <2>3. initialized' \in BOOLEAN /\ disturbed' \in BOOLEAN
    BY <1>1
  <2> QED
    BY <1>1, <1>2, <1>3, <2>1, <2>2, <2>3 DEF Inv, TypeOK
<1>5. Owners' /\ Users'
  BY <1>1, <1>2 DEF Inv, Owners, Users
<1>6. Breakages'
  <2>1. Cardinality(broken') <= Cardinality(broken) /\ Cardinality(broken') \in Nat
    BY <1>1, Finite, FS_Subset, FS_CardinalityType DEF Inv
  <2> QED
    BY <1>1, <2>1, Numbers DEF Breakages
<1>7. ASSUME ~disturbed' PROVE Phases' /\ Counts' /\ Sleepers'
  <2>1. \A c \in Client : pc[c] = "idle"
    BY <1>1, <1>7
  <2>2. InUse = {} /\ Waiting = {} /\ asleep = {}
    BY <2>1 DEF InUse, Waiting, Inv, Users, TypeOK
  <2>3. Phases' /\ Sleepers'
    BY <1>1, <1>2, <2>1, <2>2 DEF Phases, Sleepers
  <2>4. Cardinality(InUse') = 0
    BY <1>2, <2>2, FS_EmptySet
  <2>5. Counts'
    BY <1>1, <1>2, <2>4, PoolAssumption DEF Counts, WithinMax
  <2> QED
    BY <2>3, <2>5
<1> QED
  BY <1>4, <1>5, <1>6, <1>7 DEF Inv, Undisturbed

LEMMA BreakStep == ASSUME Inv, Break PROVE Inv'
<1>1. PICK conn \in Open \ broken : broken' = broken \cup {conn}
  BY DEF Break
<1>2. /\ breaks < MaxBreak /\ breaks' = breaks + 1
      /\ UNCHANGED <<connections, active, initialized, pc, asleep, held, aborted,
                     uncounted, dropped, disturbed, shutdowns>>
  BY DEF Break, pool, history
<1>3. UNCHANGED <<Queued, InUse, Open, Waiting, Awake>>
  BY <1>2 DEF Queued, InUse, Open, Waiting, Awake
<1>4. TypeOK'
  BY <1>1, <1>2, <1>3, PoolAssumption DEF Inv, TypeOK
<1>5. Owners' /\ Users'
  BY <1>2, <1>3 DEF Inv, Owners, Users, Distinct
<1>6. Breakages'
  <2>1. IsFiniteSet(broken)
    BY Finite DEF Inv
  <2>2. Cardinality(broken') = Cardinality(broken) + 1
    BY <1>1, <2>1, FS_AddElement
  <2> QED
    BY <1>2, <2>2, Numbers DEF Breakages
<1>7. Undisturbed'
  BY <1>2, <1>3 DEF Inv, Undisturbed, Phases, Counts, WithinMax, Sleepers
<1> QED
  BY <1>4, <1>5, <1>6, <1>7 DEF Inv
-----------------------------------------------------------------------------
(* releaseConnection: the queue has at most one connection more, which no  *)
(* other client uses; a broken one is not subtracted from the counter; and *)
(* a sleeper is woken, or nothing has come into the queue.                 *)
LEMMA GiveBackStep ==
    ASSUME Inv, NEW c \in Client, GiveBack(c),
           connections' \in Seq(Conn), Distinct(connections'),
           Len(connections') \in {Len(connections), Len(connections) + 1},
           Queued \subseteq Elements(connections'),
           \A d \in InUse \ {c} : held[d] \notin Elements(connections'),
           broken' \subseteq broken,
           held[c] \in broken' => held[c] \in Elements(connections'),
           aborted' \in BOOLEAN,
           \/ /\ active' = Decrement(active) /\ uncounted' = uncounted
              /\ Len(connections') = Len(connections) + 1
           \/ /\ active' = active /\ uncounted' = uncounted + 1
              /\ held[c] \in broken /\ broken' = broken \ {held[c]},
           NotifyOne \/ (asleep' = asleep /\ connections' = connections)
    PROVE  Inv'
<1>1. /\ pc[c] = "return" /\ pc' = [pc EXCEPT ![c] = "idle"]
      /\ held' = [held EXCEPT ![c] = NoConn]
      /\ UNCHANGED <<initialized, dropped, disturbed, breaks, shutdowns>>
  BY DEF GiveBack, Goto, bounds
<1>2. held[c] # NoConn
  BY <1>1 DEF Inv, Users
<1>3. /\ c \in InUse /\ InUse' = InUse \ {c} /\ Cardinality(InUse) > 0
      /\ Cardinality(InUse') = Cardinality(InUse) - 1
      /\ held'[c] = NoConn /\ \A d \in InUse' : held'[d] = held[d]
  BY <1>1, <1>2, InUseRemove
<1>4. Queued' = Elements(connections')
  BY DEF Queued, Elements
<1>5. ASSUME NEW x \in broken' PROVE x \in Open'
  <2>1. x \in broken /\ (x \in Queued \/ \E d \in InUse : x = held[d])
    BY DEF Inv, TypeOK, Open
  <2>2. CASE x \in Queued
    BY <1>4, <2>2 DEF Open
  <2>3. ASSUME NEW d \in InUse, x = held[d] PROVE x \in Open'
    <3>1. CASE d = c
      BY <1>4, <2>3, <3>1 DEF Open
    <3>2. CASE d # c
      <4>1. d \in InUse' /\ held'[d] = x
        BY <1>3, <2>3, <3>2
      <4> QED
        BY <4>1 DEF Open
    <3> QED
      BY <3>1, <3>2
  <2> QED
    BY <2>1, <2>2, <2>3
<1>6. asleep' \subseteq asleep /\ Waiting' = Waiting
  BY <1>1 DEF NotifyOne, Inv, TypeOK, Waiting
<1>7. TypeOK'
  <2>1. active' \in 0..SizeMax /\ uncounted' \in Nat
    BY PoolAssumption DEF Inv, TypeOK, Decrement
  <2>2. pc' \in [Client -> {"idle", "init", "get", "wait", "use", "return"}]
        /\ held' \in [Client -> Conn \cup {NoConn}]
    BY <1>1 DEF Inv, TypeOK
  <2> QED
    BY <1>1, <1>5, <1>6, <2>1, <2>2 DEF Inv, TypeOK
<1>8. Owners'
  <2>1. \A d \in InUse' : held'[d] \notin Queued'
    BY <1>3, <1>4
  <2>2. \A d, e \in InUse' : held'[d] = held'[e] => d = e
    BY <1>3 DEF Inv, Owners
  <2> QED
    BY <2>1, <2>2 DEF Owners
<1>9. Users'
  BY <1>1, <1>3 DEF Inv, Users, TypeOK
<1>10. Breakages'
  <2>1. IsFiniteSet(broken) /\ Cardinality(broken) \in Nat
    BY Finite DEF Inv
  <2>2. Cardinality(broken') \in Nat /\ Cardinality(broken') <= Cardinality(broken)
    BY <2>1, FS_Subset, FS_CardinalityType
  <2>3. CASE uncounted' = uncounted
    BY <1>1, <2>2, <2>3, Numbers DEF Breakages
  <2>4. CASE uncounted' = uncounted + 1 /\ held[c] \in broken /\ broken' = broken \ {held[c]}
    <3>1. Cardinality(broken') = Cardinality(broken) - 1
      BY <2>1, <2>4, FS_RemoveElement
    <3> QED
      BY <1>1, <2>4, <3>1, Numbers DEF Breakages
  <2> QED
    BY <2>3, <2>4
<1>11. ASSUME ~disturbed PROVE Phases' /\ Counts' /\ Sleepers'
  <2>1. Phases /\ Counts /\ Sleepers /\ initialized
    BY <1>1, <1>11 DEF Inv, Undisturbed, Phases
  <2>2. Phases'
    BY <1>1, <2>1 DEF Phases, Inv, TypeOK
  <2>3. Len(connections) + Cardinality(InUse) <= Max /\ active = Cardinality(InUse) + uncounted
    BY <2>1 DEF Counts, WithinMax
  <2>4. active > 0
    BY <1>3, <2>3, Numbers
  <2>5. active' = Cardinality(InUse') + uncounted'
        /\ active' + Len(connections') >= active + Len(connections)
    <3>1. /\ Len(connections) \in Nat /\ Cardinality(InUse) \in Nat /\ uncounted \in Nat
          /\ active \in Nat
      BY Numbers
    <3>2. Decrement(active) = active - 1
      BY <2>4, <3>1 DEF Decrement
    <3>3. Cardinality(InUse') = Cardinality(InUse) - 1
      BY <1>3
    <3>4. PICK a, n, q \in Nat : a = active /\ n = Cardinality(InUse) /\ q = Len(connections)
      BY <3>1
    <3>5. CASE active' = a - 1 /\ uncounted' = uncounted /\ Len(connections') = q + 1
      <4>1. a = n + uncounted /\ n \in Nat /\ q \in Nat /\ uncounted \in Nat
        BY <2>3, <3>1, <3>4
      <4>2. Cardinality(InUse') = n - 1
        BY <3>3, <3>4
      <4>3. active' = Cardinality(InUse') + uncounted'
        BY <3>5, <4>1, <4>2
      <4>4. active' + Len(connections') >= a + q
        BY <3>4, <3>5
      <4> QED
        BY <3>4, <4>3, <4>4
    <3>6. CASE active' = a /\ uncounted' = uncounted + 1 /\ Len(connections') \in {q, q + 1}
      <4>1. a = n + uncounted /\ n \in Nat /\ q \in Nat /\ uncounted \in Nat
        BY <2>3, <3>1, <3>4
      <4>2. Cardinality(InUse') = n - 1
        BY <3>3, <3>4
      <4>3. active' = Cardinality(InUse') + uncounted'
        BY <3>6, <4>1, <4>2
      <4>4. active' + Len(connections') >= a + q
        BY <3>4, <3>6
      <4> QED
        BY <3>4, <4>3, <4>4
    <3> QED
      BY <3>2, <3>4, <3>5, <3>6
  <2>6. Counts'
    <3>1. Len(connections') + Cardinality(InUse') <= Max
      BY <1>3, <2>3, Numbers
    <3> QED
      BY <2>5, <3>1 DEF Counts, WithinMax
  <2>7. Waiting' # {} => active' + dropped' + Len(connections') >= Max
    <3>1. active' \in Nat /\ Len(connections') \in Nat
      BY <2>4, Numbers DEF Decrement
    <3>2. Waiting # {} => active + dropped + Len(connections) >= Max
      BY <2>1 DEF Sleepers
    <3>3. active \in Nat /\ dropped \in Nat /\ dropped' = dropped /\ Len(connections) \in Nat /\ Max \in Nat
      BY <1>1, Numbers
    <3>4. active' + Len(connections') >= active + Len(connections)
      BY <2>5
    <3>5. active + dropped + Len(connections) >= Max => active' + dropped + Len(connections') >= Max
      <4>1. ASSUME active + dropped + Len(connections) >= Max
            PROVE  active' + dropped + Len(connections') >= Max
        BY <3>1, <3>3, <3>4, <4>1, MoreOnBalance, SMTT(30)
      <4> QED
        BY <4>1
    <3>6. Waiting' # {} => Waiting # {}
      BY <1>6
    <3> QED
      BY <3>2, <3>3, <3>5, <3>6
  <2>8. ASSUME asleep' # {} PROVE Len(connections') <= Cardinality(Awake')
    <3>1. asleep # {} /\ Len(connections) <= Cardinality(Awake)
      BY <1>6, <2>1, <2>8 DEF Sleepers
    <3>2. CASE asleep' = asleep /\ connections' = connections
      <4>1. Awake' = Awake
        BY <1>6, <3>2 DEF Awake
      <4> QED
        BY <3>1, <3>2, <4>1
    <3>3. CASE NotifyOne
      <4>1. PICK w \in asleep : asleep' = asleep \ {w}
        BY <3>1, <3>3 DEF NotifyOne
      <4>2. Awake' = Awake \cup {w} /\ w \notin Awake
        BY <1>6, <4>1 DEF Awake, Inv, TypeOK
      <4>3. IsFiniteSet(Awake) /\ Cardinality(Awake) \in Nat
        BY Finite DEF Inv
      <4>4. Cardinality(Awake') = Cardinality(Awake) + 1
        BY <4>2, <4>3, FS_AddElement
      <4> QED
        BY <3>1, <4>3, <4>4, Numbers
    <3> QED
      BY <3>2, <3>3
  <2> QED
    BY <2>2, <2>6, <2>7, <2>8 DEF Sleepers
<1> QED
  BY <1>1, <1>7, <1>8, <1>9, <1>10, <1>11 DEF Inv, Undisturbed

(* A connection is put into the queue that no other client uses.           *)
LEMMA PushBack ==
    ASSUME Inv, NEW c \in InUse, NEW x \in Conn, x \notin Queued,
           \A d \in InUse \ {c} : held[d] # x, connections' = Append(connections, x)
    PROVE  /\ connections' \in Seq(Conn) /\ Distinct(connections')
           /\ Len(connections') = Len(connections) + 1
           /\ Queued \subseteq Elements(connections') /\ x \in Elements(connections')
           /\ \A d \in InUse \ {c} : held[d] \notin Elements(connections')
<1>1. connections \in Seq(Conn) /\ Distinct(connections) /\ x \notin Elements(connections)
  BY QueueElements DEF Inv, TypeOK, Owners
<1>2. /\ connections' \in Seq(Conn) /\ Len(connections') = Len(connections) + 1
      /\ Distinct(connections') /\ Elements(connections') = Elements(connections) \cup {x}
  BY <1>1, AppendTo
<1>3. \A d \in InUse : held[d] \notin Queued
  BY DEF Inv, Owners
<1> QED
  BY <1>2, <1>3, QueueElements

LEMMA ReleaseValidStep == ASSUME Inv, NEW c \in Client, ReleaseValid(c) PROVE Inv'
<1>1. /\ GiveBack(c) /\ held[c] \notin broken /\ pc[c] = "return"
      /\ connections' = Append(connections, held[c]) /\ active' = Decrement(active)
      /\ NotifyOne /\ UNCHANGED <<broken, aborted, uncounted>>
  BY DEF ReleaseValid, GiveBack
<1>2. /\ c \in InUse /\ held[c] \in Conn /\ held[c] \notin Queued
      /\ \A d \in InUse \ {c} : held[d] # held[c]
  BY <1>1 DEF Inv, Users, Owners, InUse, TypeOK
<1>3. /\ connections' \in Seq(Conn) /\ Distinct(connections')
      /\ Len(connections') = Len(connections) + 1
      /\ Queued \subseteq Elements(connections') /\ held[c] \in Elements(connections')
      /\ \A d \in InUse \ {c} : held[d] \notin Elements(connections')
  BY <1>1, <1>2, PushBack
<1>4. aborted' \in BOOLEAN
  BY <1>1 DEF Inv, TypeOK
<1> QED
  BY <1>1, <1>3, <1>4, GiveBackStep

LEMMA ReleaseBrokenStep == ASSUME Inv, NEW c \in Client, ReleaseBroken(c) PROVE Inv'
<1>1. /\ GiveBack(c) /\ held[c] \in broken /\ pc[c] = "return"
      /\ broken' = broken \ {held[c]} /\ uncounted' = uncounted + 1 /\ active' = active
  BY DEF ReleaseBroken, GiveBack
<1>2. c \in InUse /\ \A d \in InUse : held[d] \notin Queued
  BY <1>1 DEF Inv, Users, Owners, InUse
<1>3. CASE (NotifyOne \/ asleep' = asleep) /\ connections' = connections /\ aborted' \in BOOLEAN
  <2>1. /\ connections' \in Seq(Conn) /\ Distinct(connections')
        /\ Elements(connections') = Queued
    BY <1>3, QueueElements DEF Inv, TypeOK, Owners
  <2> QED
    BY <1>1, <1>2, <1>3, <2>1, GiveBackStep
<1>4. ASSUME NEW new \in Fresh, connections' = Append(connections, new), NotifyOne, UNCHANGED aborted
      PROVE Inv'
  <2>1. new \in Conn /\ new \notin Queued /\ \A d \in InUse : held[d] # new
    BY FreshIsNew
  <2>2. /\ connections' \in Seq(Conn) /\ Distinct(connections')
        /\ Len(connections') = Len(connections) + 1
        /\ Queued \subseteq Elements(connections')
        /\ \A d \in InUse \ {c} : held[d] \notin Elements(connections')
    BY <1>2, <1>4, <2>1, PushBack
  <2>3. aborted' \in BOOLEAN
    BY <1>4 DEF Inv, TypeOK
  <2> QED
    BY <1>1, <1>4, <2>2, <2>3, GiveBackStep
<1> QED
  BY <1>3, <1>4 DEF ReleaseBroken, Inv, TypeOK
-----------------------------------------------------------------------------
LEMMA InvStep == Inv /\ [Next]_vars => Inv'
<1> SUFFICES ASSUME Inv, [Next]_vars PROVE Inv'
  OBVIOUS
<1>1. CASE UNCHANGED vars
  BY <1>1 DEF vars, pool, history, bounds, Inv, TypeOK, Owners, Users, Breakages, Undisturbed,
              Phases, Counts, Sleepers, WithinMax, Awake, Waiting, InUse, Queued, Open, Distinct
<1>2. ASSUME NEW c \in Client, InitCheck(c) \/ GetCheck(c) \/ Step(c) PROVE Inv'
  BY <1>2, CheckStep, InitCreateStep, GetStep, WakeStep, TimeoutStep, ReleaseValidStep,
     ReleaseBrokenStep DEF Step
<1> QED
  BY <1>1, <1>2, ShutdownStep, BreakStep DEF Next

(* What the invariant says of the queue, as the properties say it.         *)
LEMMA InvOneOwner == Inv => OneOwner
BY DistinctCount, QueueElements DEF Inv, TypeOK, Owners, OneOwner

LEMMA InvAtMostMax == Inv => AtMostMax
BY DEF Inv, Undisturbed, Counts, AtMostMax

LEMMA InvReducedMax == Inv => WaitOnlyAtReducedMax
<1> SUFFICES ASSUME Inv, ~disturbed
             PROVE  /\ Lost <= breaks
                    /\ asleep # {} => /\ Len(connections) <= Cardinality(Awake)
                                      /\ connections = <<>> => Cardinality(InUse) + Lost >= Max
  BY DEF WaitOnlyAtReducedMax, Awake
<1>1. Sleepers /\ Counts /\ (asleep # {} => Waiting # {})
  BY DEF Inv, Undisturbed, TypeOK
<1>2. connections = <<>> => Len(connections) = 0
  OBVIOUS
<1>3. Lost <= breaks
  BY Numbers DEF Lost
<1> QED
  BY <1>1, <1>2, <1>3, Numbers DEF Sleepers, Counts, Lost

LEMMA Invariance == Spec => []Inv
BY InvInit, InvStep, PTL DEF Spec

(* The counter stays an unsigned number and every broken connection is one *)
(* that is open, also while init and shutdown race with the calls that use *)
(* the pool (mysql_poll.h:49-54).                                          *)
THEOREM TypeCorrect == Spec => []TypeOK
<1>1. Inv => TypeOK
  BY DEF Inv
<1> QED
  BY <1>1, Invariance, PTL

(* A connection is in the queue once or used by one client, for any number *)
(* of clients, breakages and shutdowns (mysql_poll.h:281-304, 390).        *)
THEOREM OneOwnerAlways == Spec => []OneOwner
BY InvOneOwner, Invariance, PTL

(* Until init or shutdown disturbs the pool no more than maxConnections_   *)
(* are open and the counter is exact but for broken connections, whatever  *)
(* the minimum and the maximum are (mysql_poll.h:46, 268, 296, 391-402).   *)
THEOREM AtMostMaxAlways == Spec => []AtMostMax
BY InvAtMostMax, Invariance, PTL

(* A client sleeps only while others are awake for all that is in the      *)
(* queue, and with an empty queue only when all that breakages have left   *)
(* of the maximum is in use, each having taken one at most; for any number *)
(* of clients and breakages, until init or shutdown disturbs the pool      *)
(* (mysql_poll.h:268-276, 287-292, 391-406).                               *)
THEOREM WaitOnlyAtReducedMaxAlways == Spec => []WaitOnlyAtReducedMax
BY InvReducedMax, Invariance, PTL
=============================================================================
