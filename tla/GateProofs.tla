----------------------------- MODULE GateProofs -----------------------------
(***************************************************************************)
(* The gate implements the semaphore of FifoGate as far as safety goes,    *)
(* and loses no wakeup, for any number of clients and any limits.  Its     *)
(* counter is the number of those admitted only because a client that is   *)
(* dropped knows by its ticket which of the two it gives back, and its     *)
(* queue holds each client once.                                           *)
(***************************************************************************)
EXTENDS Gate, FiniteSetTheorems, SequenceTheorems, TLAPS

Shapes ==
    /\ active \in Nat /\ waiting \in Seq(Clients)
    /\ pc \in [Clients -> {"outside", "checking", "waiting", "admitted"}]
    /\ owed \subseteq Clients /\ permit \subseteq Clients

(* The queue holds every waiter once. *)
Lined ==
    /\ \A i \in DOMAIN waiting : waiting[i] \in Waiters
    /\ \A c \in Waiters : \E i \in DOMAIN waiting : waiting[i] = c
    /\ \A i, j \in DOMAIN waiting : waiting[i] = waiting[j] => i = j

Counted ==
    /\ IsFiniteSet(Admitted) /\ active = Cardinality(Admitted)
    /\ IsFiniteSet(Waiters) /\ Len(waiting) = Cardinality(Waiters)

GateInvariant == Shapes /\ Lined /\ Counted /\ FrontIsCalled

LEMMA CountsAlike == \A S : Fifo!Cardinality(S) = Cardinality(S)
  BY DEF Fifo!Cardinality, Cardinality
-----------------------------------------------------------------------------
(* A client that moves is counted where it goes and no longer where it was. *)
LEMMA MoveCounts ==
    ASSUME GateInvariant, NEW c \in Clients,
           NEW p \in {"outside", "checking", "waiting", "admitted"}, Moves(c, p)
    PROVE  /\ pc' \in [Clients -> {"outside", "checking", "waiting", "admitted"}]
           /\ pc'[c] = p /\ \A d \in Clients \ {c} : pc'[d] = pc[d]
           /\ Admitted' = IF p = "admitted" THEN Admitted \cup {c} ELSE Admitted \ {c}
           /\ Waiters' = IF p \in {"checking", "waiting"} THEN Waiters \cup {c} ELSE Waiters \ {c}
           /\ IsFiniteSet(Admitted') /\ IsFiniteSet(Waiters')
           /\ Cardinality(Admitted \cup {c}) = active + IF c \in Admitted THEN 0 ELSE 1
           /\ Cardinality(Admitted \ {c}) = active - IF c \in Admitted THEN 1 ELSE 0
           /\ Cardinality(Waiters \cup {c}) = Len(waiting) + IF c \in Waiters THEN 0 ELSE 1
           /\ Cardinality(Waiters \ {c}) = Len(waiting) - IF c \in Waiters THEN 1 ELSE 0
<1>1. pc \in [Clients -> {"outside", "checking", "waiting", "admitted"}] /\ active \in Nat
      /\ Len(waiting) \in Nat
  BY LenProperties DEF GateInvariant, Shapes
<1>2. /\ pc' \in [Clients -> {"outside", "checking", "waiting", "admitted"}]
      /\ pc'[c] = p /\ \A d \in Clients \ {c} : pc'[d] = pc[d]
  BY <1>1 DEF Moves
<1>3. Admitted' = IF p = "admitted" THEN Admitted \cup {c} ELSE Admitted \ {c}
  BY <1>2 DEF Admitted
<1>4. Waiters' = IF p \in {"checking", "waiting"} THEN Waiters \cup {c} ELSE Waiters \ {c}
  BY <1>2 DEF Waiters
<1>5. /\ IsFiniteSet(Admitted) /\ active = Cardinality(Admitted)
      /\ IsFiniteSet(Waiters) /\ Len(waiting) = Cardinality(Waiters)
  BY DEF GateInvariant, Counted
<1>6. /\ IsFiniteSet(Admitted \cup {c}) /\ IsFiniteSet(Admitted \ {c})
      /\ Cardinality(Admitted \cup {c}) = active + IF c \in Admitted THEN 0 ELSE 1
      /\ Cardinality(Admitted \ {c}) = active - IF c \in Admitted THEN 1 ELSE 0
  BY <1>1, <1>5, FS_AddElement, FS_RemoveElement
<1>7. /\ IsFiniteSet(Waiters \cup {c}) /\ IsFiniteSet(Waiters \ {c})
      /\ Cardinality(Waiters \cup {c}) = Len(waiting) + IF c \in Waiters THEN 0 ELSE 1
      /\ Cardinality(Waiters \ {c}) = Len(waiting) - IF c \in Waiters THEN 1 ELSE 0
  BY <1>1, <1>5, FS_AddElement, FS_RemoveElement
<1> QED BY <1>2, <1>3, <1>4, <1>6, <1>7

LEMMA QueueIs ==
    ASSUME GateInvariant
    PROVE  /\ Len(waiting) \in Nat /\ DOMAIN waiting = 1..Len(waiting)
           /\ \A i \in 1..Len(waiting) : waiting[i] \in Clients
           /\ waiting # <<>> => /\ Len(waiting) >= 1 /\ Head(waiting) = waiting[1]
                                /\ Head(waiting) \in Clients /\ Head(waiting) \in Waiters
           /\ waiting = <<>> => Waiters = {}
           /\ Waiters \cap Admitted = {}
<1>1. waiting \in Seq(Clients) /\ Len(waiting) \in Nat /\ DOMAIN waiting = 1..Len(waiting)
  BY LenProperties DEF GateInvariant, Shapes
<1>2. \A i \in 1..Len(waiting) : waiting[i] \in Clients
  BY <1>1, ElementOfSeq
<1>3. waiting # <<>> => Len(waiting) >= 1 /\ Head(waiting) = waiting[1]
  BY <1>1, EmptySeq
<1>4. waiting = <<>> => Len(waiting) = 0
  BY EmptySeq
<1> QED BY <1>1, <1>2, <1>3, <1>4 DEF GateInvariant, Lined, Waiters, Admitted

(* Whoever is notified is a client. *)
LEMMA NotifiedIs ==
    ASSUME GateInvariant, NEW n, NEW q \in Seq(Clients)
    PROVE  /\ NextNotification(n, q) \subseteq Clients
           /\ q # <<>> /\ n < Limit[Head(q)] => Head(q) \in NextNotification(n, q)
<1>1. q # <<>> => Head(q) \in Clients
  BY HeadTailProperties
<1> QED BY <1>1 DEF NextNotification
-----------------------------------------------------------------------------
LEMMA ReserveKeeps ==
    ASSUME GateInvariant, NEW c \in Clients, Reserve(c)
    PROVE  GateInvariant' /\ Fifo!Enter(c)
<1> DEFINE n == Len(waiting)
<1>1. /\ n \in Nat /\ DOMAIN waiting = 1..n /\ active = Cardinality(Admitted) /\ active \in Nat
      /\ waiting \in Seq(Clients)
      /\ pc[c] = "outside" /\ UNCHANGED <<owed, permit>>
      /\ c \notin Admitted /\ c \notin Waiters
      /\ (\A i \in DOMAIN waiting : waiting[i] # c)
  BY QueueIs DEF Reserve, GateInvariant, Counted, Shapes, Lined, Admitted, Waiters
<1>2. Fifo!Outside(c)
  BY <1>1 DEF Fifo!Outside, Fifo!InLine
<1>3. CASE waiting = <<>> /\ active < Limit[c] /\ active' = active + 1 /\ Moves(c, "admitted")
           /\ UNCHANGED waiting
  <2>1. /\ pc' \in [Clients -> {"outside", "checking", "waiting", "admitted"}]
        /\ Admitted' = Admitted \cup {c} /\ Waiters' = Waiters
        /\ IsFiniteSet(Admitted') /\ IsFiniteSet(Waiters')
        /\ Cardinality(Admitted') = active + 1 /\ Cardinality(Waiters') = Len(waiting)
    <3>1. /\ pc' \in [Clients -> {"outside", "checking", "waiting", "admitted"}]
          /\ Admitted' = Admitted \cup {c} /\ Waiters' = Waiters \ {c}
          /\ IsFiniteSet(Admitted') /\ IsFiniteSet(Waiters')
          /\ Cardinality(Admitted') = active + 1
      BY <1>1, <1>3, MoveCounts
    <3>2. Waiters' = Waiters /\ Cardinality(Waiters) = Len(waiting)
      BY <1>1, <3>1 DEF GateInvariant, Counted
    <3> QED BY <3>1, <3>2
  <2>2. Shapes' /\ Counted'
    BY <1>1, <1>3, <2>1 DEF GateInvariant, Shapes, Counted
  <2>3. Lined' /\ FrontIsCalled'
    BY <1>1, <1>3, <2>1 DEF GateInvariant, Lined, FrontIsCalled
  <2>4. Fifo!Enter(c)
    BY <1>1, <1>2, <1>3, <2>1, CountsAlike DEF Fifo!Enter
  <2> QED BY <2>2, <2>3, <2>4 DEF GateInvariant
<1>4. CASE /\ waiting # <<>> \/ active >= Limit[c]
           /\ Len(waiting) < Pending[c]
           /\ waiting' = Append(waiting, c) /\ Moves(c, "checking") /\ UNCHANGED active
  <2>1. /\ pc' \in [Clients -> {"outside", "checking", "waiting", "admitted"}]
        /\ pc'[c] = "checking" /\ \A d \in Clients \ {c} : pc'[d] = pc[d]
        /\ Waiters' = Waiters \cup {c} /\ Admitted' = Admitted \ {c} /\ Admitted' = Admitted
        /\ IsFiniteSet(Admitted') /\ IsFiniteSet(Waiters')
        /\ Cardinality(Admitted') = active /\ Cardinality(Waiters') = n + 1
    BY <1>1, <1>4, MoveCounts
  <2>2. /\ waiting' \in Seq(Clients) /\ Len(waiting') = n + 1
        /\ \A i \in 1..n : waiting'[i] = waiting[i]
        /\ waiting'[n + 1] = c
    BY <1>1, <1>4, AppendProperties
  <2>3. DOMAIN waiting' = 1..n + 1
    BY <2>2, LenProperties
  <2> HIDE DEF n
  <2>4. \A i \in 1..n + 1 : i \in 1..n \/ i = n + 1
    BY <1>1
  <2>5. Shapes' /\ Counted'
    BY <1>1, <1>4, <2>1, <2>2 DEF GateInvariant, Shapes, Counted
  <2>6. Lined'
    <3>1. \A i \in DOMAIN waiting' : waiting'[i] \in Waiters'
      BY <1>1, <2>1, <2>2, <2>3, <2>4 DEF GateInvariant, Lined
    <3>2. \A d \in Waiters' : \E i \in DOMAIN waiting' : waiting'[i] = d
      <4>1. n + 1 \in DOMAIN waiting' /\ 1..n \subseteq DOMAIN waiting'
        BY <1>1, <2>3
      <4> QED BY <1>1, <2>1, <2>2, <4>1 DEF GateInvariant, Lined
    <3>3. \A i, j \in DOMAIN waiting' : waiting'[i] = waiting'[j] => i = j
      BY <1>1, <2>2, <2>3, <2>4 DEF GateInvariant, Lined
    <3> QED BY <3>1, <3>2, <3>3 DEF Lined
  <2>7. FrontIsCalled'
    <3>1. CASE waiting = <<>>
      <4>1. n = 0
        BY <3>1, EmptySeq DEF n
      <4>2. Head(waiting') = c
        BY <2>2, <4>1
      <4> QED BY <2>1, <4>2 DEF FrontIsCalled
    <3>2. CASE waiting # <<>>
      <4>1. Head(waiting) = waiting[1] /\ n >= 1 /\ Head(waiting) \in Clients /\ Head(waiting) \in Waiters
        BY <3>2, QueueIs DEF n
      <4>2. Head(waiting') = Head(waiting)
        BY <1>1, <2>2, <4>1
      <4>3. Head(waiting) # c
        BY <1>1, <4>1
      <4> QED BY <1>1, <1>4, <2>1, <3>2, <4>1, <4>2, <4>3 DEF GateInvariant, FrontIsCalled
    <3> QED BY <3>1, <3>2
  <2>8. Fifo!Enter(c)
    BY <1>1, <1>2, <1>4, <2>1, CountsAlike DEF Fifo!Enter
  <2> QED BY <2>5, <2>6, <2>7, <2>8 DEF GateInvariant
<1> QED BY <1>3, <1>4 DEF Reserve

LEMMA CheckKeeps ==
    ASSUME GateInvariant, NEW c \in Clients, Check(c)
    PROVE  GateInvariant' /\ (Fifo!Grant(c) \/ UNCHANGED <<Admitted, waiting>>)
<1> DEFINE n == Len(waiting)
<1>1. /\ n \in Nat /\ DOMAIN waiting = 1..n /\ active = Cardinality(Admitted) /\ active \in Nat
      /\ waiting \in Seq(Clients) /\ pc[c] = "checking"
      /\ c \notin Admitted /\ c \in Waiters
      /\ n = Cardinality(Waiters)
  BY QueueIs DEF Check, GateInvariant, Counted, Shapes, Lined, Admitted, Waiters
<1>2. waiting # <<>> /\ n >= 1 /\ Head(waiting) = waiting[1]
  BY <1>1, QueueIs
<1>3. CASE /\ Head(waiting) = c /\ active < Limit[c]
           /\ waiting' = Tail(waiting) /\ active' = active + 1
           /\ owed' = (owed \ {c}) \cup NextNotification(active', waiting')
           /\ permit' = permit \ {c} /\ Moves(c, "admitted")
  <2>1. /\ pc' \in [Clients -> {"outside", "checking", "waiting", "admitted"}]
        /\ Waiters' = Waiters \ {c} /\ Admitted' = Admitted \cup {c}
        /\ IsFiniteSet(Admitted') /\ IsFiniteSet(Waiters')
        /\ Cardinality(Admitted') = active + 1 /\ Cardinality(Waiters') = n - 1
    BY <1>1, <1>3, MoveCounts
  <2>2. /\ waiting' \in Seq(Clients) /\ Len(waiting') = n - 1
        /\ \A i \in 1..(n - 1) : waiting'[i] = waiting[i + 1]
    BY <1>1, <1>2, <1>3, HeadTailProperties
  <2>3. DOMAIN waiting' = 1..(n - 1)
    BY <2>2, LenProperties
  <2>4. Shapes' /\ Counted'
    <3>1. owed' \subseteq Clients /\ permit' \subseteq Clients
      BY <1>3, <2>2, NotifiedIs DEF GateInvariant, Shapes
    <3> QED BY <1>1, <1>3, <2>1, <2>2, <3>1 DEF Shapes, Counted
  <2> HIDE DEF n
  <2>5. Lined'
    <3>1. \A i \in 1..(n - 1) : i + 1 \in 1..n /\ i + 1 # 1 /\ waiting[i + 1] # c
      BY <1>1, <1>2, <1>3 DEF GateInvariant, Lined
    <3>2. \A i \in DOMAIN waiting' : waiting'[i] \in Waiters'
      <4> SUFFICES ASSUME NEW i \in 1..(n - 1) PROVE waiting'[i] \in Waiters \ {c}
        BY <2>1, <2>3
      <4>1. waiting'[i] = waiting[i + 1] /\ waiting[i + 1] # c /\ i + 1 \in DOMAIN waiting
        BY <1>1, <2>2, <3>1
      <4> QED BY <4>1 DEF GateInvariant, Lined
    <3>3. ASSUME NEW d \in Waiters' PROVE \E i \in DOMAIN waiting' : waiting'[i] = d
      <4>1. PICK i \in 1..n : waiting[i] = d
        BY <1>1, <2>1 DEF GateInvariant, Lined
      <4>2. i # 1
        BY <1>2, <1>3, <2>1, <4>1
      <4>3. i - 1 \in 1..(n - 1) /\ (i - 1) + 1 = i
        BY <1>1, <4>2
      <4> QED BY <2>2, <2>3, <4>1, <4>3
    <3>4. \A i, j \in DOMAIN waiting' : waiting'[i] = waiting'[j] => i = j
      <4> SUFFICES ASSUME NEW i \in 1..(n - 1), NEW j \in 1..(n - 1), waiting'[i] = waiting'[j]
                   PROVE  i = j
        BY <2>3
      <4>1. waiting[i + 1] = waiting[j + 1] /\ i + 1 \in 1..n /\ j + 1 \in 1..n
        BY <2>2, <3>1
      <4>2. i + 1 = j + 1
        BY <1>1, <4>1 DEF GateInvariant, Lined
      <4> QED BY <4>2
    <3> QED BY <3>2, <3>3, <3>4 DEF Lined
  <2>6. FrontIsCalled'
    BY <1>3, <2>2, NotifiedIs DEF FrontIsCalled
  <2>7. Fifo!Grant(c)
    BY <1>1, <1>2, <1>3, <2>1, CountsAlike DEF Fifo!Grant
  <2> QED BY <2>4, <2>5, <2>6, <2>7 DEF GateInvariant
<1>4. CASE /\ ~(Head(waiting) = c /\ active < Limit[c])
           /\ Moves(c, "waiting") /\ UNCHANGED <<active, waiting, owed, permit>>
  <2>1. /\ pc' \in [Clients -> {"outside", "checking", "waiting", "admitted"}]
        /\ pc'[c] = "waiting" /\ \A d \in Clients \ {c} : pc'[d] = pc[d]
        /\ Waiters' = Waiters /\ Admitted' = Admitted
    BY <1>1, <1>4, MoveCounts
  <2>2. Shapes' /\ Counted' /\ Lined'
    BY <1>4, <2>1 DEF GateInvariant, Shapes, Counted, Lined
  <2>3. FrontIsCalled'
    BY <1>2, <1>4, <2>1 DEF GateInvariant, FrontIsCalled
  <2> QED BY <1>4, <2>1, <2>2, <2>3 DEF GateInvariant
<1> QED BY <1>3, <1>4 DEF Check

(* A notification changes who looks at the state, and nothing else. *)
LEMMA NotificationKeeps ==
    ASSUME GateInvariant, NEW c \in Clients, Notify(c) \/ Wake(c)
    PROVE  GateInvariant' /\ UNCHANGED <<Admitted, waiting>>
<1>1. CASE Notify(c)
  <2>1. Admitted' = Admitted /\ Waiters' = Waiters
    BY <1>1 DEF Notify, Admitted, Waiters
  <2>2. Shapes' /\ Counted' /\ Lined'
    BY <1>1, <2>1 DEF Notify, GateInvariant, Shapes, Counted, Lined
  <2>3. FrontIsCalled'
    BY <1>1 DEF Notify, GateInvariant, FrontIsCalled
  <2> QED BY <1>1, <2>1, <2>2, <2>3 DEF Notify, GateInvariant
<1>2. CASE Wake(c)
  <2>1. /\ pc' \in [Clients -> {"outside", "checking", "waiting", "admitted"}]
        /\ pc'[c] = "checking" /\ \A d \in Clients \ {c} : pc'[d] = pc[d]
        /\ Waiters' = Waiters \cup {c} /\ Admitted' = Admitted \ {c}
    BY <1>2, MoveCounts DEF Wake
  <2>2. Waiters' = Waiters /\ Admitted' = Admitted
    BY <1>2, <2>1 DEF Wake, Waiters, Admitted
  <2>3. Shapes' /\ Counted' /\ Lined'
    BY <1>2, <2>1, <2>2 DEF Wake, GateInvariant, Shapes, Counted, Lined
  <2>4. FrontIsCalled'
    BY <1>2, <2>1 DEF Wake, GateInvariant, FrontIsCalled
  <2> QED BY <1>2, <2>2, <2>3, <2>4 DEF Wake, GateInvariant
<1> QED BY <1>1, <1>2

(* An entry is retained unless its ticket is the one that is dropped. *)
LEMMA CancelKeeps ==
    ASSUME GateInvariant, NEW c \in Clients, Cancel(c)
    PROVE  GateInvariant' /\ Fifo!GiveUp(c)
<1> DEFINE n == Len(waiting)
<1>1. /\ n \in Nat /\ DOMAIN waiting = 1..n /\ active = Cardinality(Admitted) /\ active \in Nat
      /\ waiting \in Seq(Clients) /\ c \notin Admitted /\ c \in Waiters
      /\ \A i \in 1..n : waiting[i] \in Clients
  BY QueueIs DEF Cancel, GateInvariant, Counted, Shapes, Admitted, Waiters
<1>2. /\ waiting' = Retained(c) /\ UNCHANGED active
      /\ owed' = (owed \ {c}) \cup NextNotification(active, waiting')
      /\ permit' = permit \ {c} /\ Moves(c, "outside")
  BY DEF Cancel
<1>3. \E i \in DOMAIN waiting : waiting[i] = c
  BY <1>1 DEF GateInvariant, Lined
<1>4. PICK p \in 1..n : p = PlaceOf(c) /\ waiting[p] = c
  BY <1>1, <1>3, Zenon DEF PlaceOf
<1>5. /\ waiting' \in Seq(Clients) /\ Len(waiting') = n - 1 /\ DOMAIN waiting' = 1..(n - 1)
      /\ n - 1 \in Nat
      /\ \A i \in 1..(n - 1) : waiting'[i] = IF i < p THEN waiting[i] ELSE waiting[i + 1]
  <2>1. waiting' = [i \in 1..n - 1 |-> IF i < p THEN waiting[i] ELSE waiting[i + 1]]
    BY <1>2, <1>4 DEF Retained
  <2>2. n - 1 \in Nat /\ \A i \in 1..n - 1 : (IF i < p THEN waiting[i] ELSE waiting[i + 1]) \in Clients
    BY <1>1, <1>4
  <2>3. PICK k \in Nat : k = n - 1
    BY <2>2
  <2>4. waiting' \in [1..k -> Clients]
    BY <2>1, <2>2, <2>3
  <2>5. waiting' \in Seq(Clients) /\ DOMAIN waiting' = 1..k
    BY <2>4, SeqDef
  <2>6. Len(waiting') = k
    BY <2>3, <2>5, LenProperties
  <2> QED BY <2>1, <2>2, <2>3, <2>5, <2>6
<1>6. /\ pc' \in [Clients -> {"outside", "checking", "waiting", "admitted"}]
      /\ Waiters' = Waiters \ {c} /\ Admitted' = Admitted
      /\ IsFiniteSet(Admitted') /\ IsFiniteSet(Waiters')
      /\ Cardinality(Admitted') = active /\ Cardinality(Waiters') = n - 1
  <2>1. /\ pc' \in [Clients -> {"outside", "checking", "waiting", "admitted"}]
        /\ Waiters' = Waiters \ {c} /\ Admitted' = Admitted \ {c}
        /\ IsFiniteSet(Admitted') /\ IsFiniteSet(Waiters')
        /\ Cardinality(Waiters') = n - 1
    BY <1>1, <1>2, MoveCounts
  <2>2. Admitted' = Admitted
    BY <1>1, <2>1
  <2> QED BY <1>1, <2>1, <2>2
<1>7. Shapes' /\ Counted'
  BY <1>1, <1>2, <1>5, <1>6, NotifiedIs DEF GateInvariant, Shapes, Counted
<1>8. /\ \A i, j \in 1..n : waiting[i] = waiting[j] => i = j
      /\ \A i \in 1..n : waiting[i] \in Waiters
      /\ \A d \in Waiters : \E i \in 1..n : waiting[i] = d
  BY <1>1 DEF GateInvariant, Lined
<1> HIDE DEF n
<1>9. \A i \in 1..(n - 1) : \E k \in 1..n : k # p /\ waiting'[i] = waiting[k]
                                           /\ k = IF i < p THEN i ELSE i + 1
  BY <1>1, <1>5
<1>10. Lined'
  <2>1. \A i \in DOMAIN waiting' : waiting'[i] \in Waiters'
    <3> SUFFICES ASSUME NEW i \in 1..(n - 1) PROVE waiting'[i] \in Waiters \ {c}
      BY <1>5, <1>6
    <3>1. PICK k \in 1..n : k # p /\ waiting'[i] = waiting[k]
      BY <1>9
    <3> QED BY <1>4, <1>8, <3>1
  <2>2. ASSUME NEW d \in Waiters' PROVE \E i \in DOMAIN waiting' : waiting'[i] = d
    <3>1. PICK k \in 1..n : waiting[k] = d
      BY <1>6, <1>8
    <3>2. k # p
      BY <1>4, <1>6, <3>1
    <3>3. CASE k < p
      <4>1. k \in 1..(n - 1)
        BY <1>1, <3>3
      <4> QED BY <1>5, <3>1, <3>3, <4>1
    <3>4. CASE k > p
      <4>1. k - 1 \in 1..(n - 1) /\ (k - 1) + 1 = k /\ ~(k - 1 < p)
        BY <1>1, <3>4
      <4> QED BY <1>5, <3>1, <4>1
    <3> QED BY <3>2, <3>3, <3>4
  <2>3. ASSUME NEW i \in 1..(n - 1), NEW j \in 1..(n - 1), waiting'[i] = waiting'[j]
        PROVE  i = j
    <3>1. PICK k \in 1..n : waiting'[i] = waiting[k] /\ k = IF i < p THEN i ELSE i + 1
      BY <1>9
    <3>2. PICK l \in 1..n : waiting'[j] = waiting[l] /\ l = IF j < p THEN j ELSE j + 1
      BY <1>9
    <3>3. k = l
      BY <1>8, <2>3, <3>1, <3>2
    <3> QED BY <1>1, <3>1, <3>2, <3>3
  <2> QED BY <1>5, <2>1, <2>2, <2>3 DEF Lined
<1>11. FrontIsCalled'
  BY <1>2, <1>5, NotifiedIs DEF FrontIsCalled
<1>12. Fifo!GiveUp(c)
  <2>1. c \in Fifo!InLine
    BY <1>3 DEF Fifo!InLine
  <2>2. waiting' = Fifo!Without(c)
    BY <1>2 DEF Retained, PlaceOf, Fifo!Without, Fifo!PlaceOf
  <2> QED BY <1>6, <2>1, <2>2 DEF Fifo!GiveUp
<1> QED BY <1>7, <1>10, <1>11, <1>12 DEF GateInvariant

LEMMA ReleaseKeeps ==
    ASSUME GateInvariant, NEW c \in Clients, Release(c)
    PROVE  GateInvariant' /\ Fifo!Leave(c)
<1>1. /\ pc[c] = "admitted" /\ active' = active - 1 /\ Moves(c, "outside")
      /\ owed' = owed \cup NextNotification(active', waiting) /\ UNCHANGED <<waiting, permit>>
  BY DEF Release
<1>2. c \in Admitted /\ c \notin Waiters /\ waiting \in Seq(Clients) /\ Len(waiting) \in Nat
  BY <1>1, QueueIs DEF Admitted, Waiters, GateInvariant, Shapes
<1>3. /\ pc' \in [Clients -> {"outside", "checking", "waiting", "admitted"}]
      /\ Waiters' = Waiters /\ Admitted' = Admitted \ {c}
      /\ IsFiniteSet(Admitted') /\ IsFiniteSet(Waiters')
      /\ Cardinality(Admitted') = active - 1 /\ Cardinality(Waiters') = Len(waiting)
  <2>1. /\ pc' \in [Clients -> {"outside", "checking", "waiting", "admitted"}]
        /\ Waiters' = Waiters \ {c} /\ Admitted' = Admitted \ {c}
        /\ IsFiniteSet(Admitted') /\ IsFiniteSet(Waiters')
        /\ Cardinality(Admitted') = active - 1
    BY <1>1, <1>2, MoveCounts
  <2>2. Waiters' = Waiters
    BY <1>2, <2>1
  <2> QED BY <2>1, <2>2 DEF GateInvariant, Counted
<1>4. active' \in Nat
  <2>1. Cardinality(Admitted') \in Nat
    BY <1>3, FS_CardinalityType
  <2> QED BY <1>1, <1>3, <2>1
<1>5. Shapes' /\ Counted' /\ Lined'
  BY <1>1, <1>2, <1>3, <1>4, NotifiedIs DEF GateInvariant, Shapes, Counted, Lined
<1>6. FrontIsCalled'
  BY <1>1, <1>2, NotifiedIs DEF FrontIsCalled
<1> QED BY <1>1, <1>2, <1>3, <1>5, <1>6 DEF GateInvariant, Fifo!Leave
-----------------------------------------------------------------------------
LEMMA GateStarts ==
    ASSUME Init
    PROVE  GateInvariant /\ FifoInit
<1>1. <<>> \in Seq(Clients) /\ Len(<<>>) = 0 /\ DOMAIN waiting = {}
  <2>1. <<>> \in Seq(Clients) /\ Len(<<>>) = 0 /\ DOMAIN <<>> = 1..0
    BY EmptySeq, LenProperties
  <2>2. 1..0 = {}
    OBVIOUS
  <2> QED BY <2>1, <2>2 DEF Init
<1>2. Admitted = {} /\ Waiters = {}
  BY DEF Init, Admitted, Waiters
<1>3. Shapes /\ Lined /\ Counted
  BY <1>1, <1>2, FS_EmptySet DEF Init, Shapes, Lined, Counted
<1>4. FrontIsCalled
  BY DEF Init, FrontIsCalled
<1> QED BY <1>2, <1>3, <1>4 DEF Init, GateInvariant, FifoInit, Fifo!GateInit

LEMMA GateStepsKeep ==
    ASSUME GateInvariant, [Next]_vars
    PROVE  GateInvariant' /\ FifoStep
<1>1. CASE UNCHANGED vars
  <2>1. Admitted' = Admitted /\ Waiters' = Waiters
    BY <1>1 DEF vars, Admitted, Waiters
  <2>2. Shapes' /\ Counted' /\ Lined' /\ FrontIsCalled'
    BY <1>1, <2>1 DEF vars, GateInvariant, Shapes, Counted, Lined, FrontIsCalled
  <2> QED BY <1>1, <2>1, <2>2 DEF vars, GateInvariant, FifoStep, Fifo!gateVars
<1>2. CASE Next
  <2>1. PICK c \in Clients :
            Reserve(c) \/ Check(c) \/ Notify(c) \/ Wake(c) \/ Cancel(c) \/ Release(c)
    BY <1>2 DEF Next
  <2>2. /\ GateInvariant'
        /\ \/ Fifo!Enter(c) \/ Fifo!Grant(c) \/ Fifo!GiveUp(c) \/ Fifo!Leave(c)
           \/ UNCHANGED <<Admitted, waiting>>
    BY <2>1, ReserveKeeps, CheckKeeps, NotificationKeeps, CancelKeeps, ReleaseKeeps
  <2> QED BY <2>2 DEF FifoStep, Fifo!GateNext, Fifo!gateVars
<1> QED BY <1>1, <1>2

(* However admissions end, in whatever order locks are taken and futures are *)
(* dropped: `active` counts the admitted, `waiting` has each waiter once.    *)
THEOREM GateStaysAccounted == Spec => []Accounted
<1>1. Init => GateInvariant
  BY GateStarts
<1>2. GateInvariant /\ [Next]_vars => GateInvariant'
  BY GateStepsKeep
<1>3. GateInvariant => Accounted
  BY DEF GateInvariant, Counted, Lined, Accounted
<1> QED BY <1>1, <1>2, <1>3, PTL DEF Spec

(* The notification is chosen under the mutex and sent after it is released, *)
(* while waiters are cancelled and admitted: the front is never forgotten.   *)
THEOREM NoWakeupLost == Spec => []FrontIsCalled
<1>1. Init => GateInvariant
  BY GateStarts
<1>2. GateInvariant /\ [Next]_vars => GateInvariant'
  BY GateStepsKeep
<1>3. GateInvariant => FrontIsCalled
  BY DEF GateInvariant
<1> QED BY <1>1, <1>2, <1>3, PTL DEF Spec

(* Gate implements FifoGate: every step of the counter, the queue and the    *)
(* notifications is a step of the first-come-first-served semaphore, or is   *)
(* invisible there.                                                          *)
THEOREM GateImplementsFifo == Spec => FifoInit /\ [][FifoStep]_vars
<1>1. Init => GateInvariant /\ FifoInit
  BY GateStarts
<1>2. GateInvariant /\ [Next]_vars => GateInvariant' /\ FifoStep
  BY GateStepsKeep
<1>3. FifoStep => [FifoStep]_vars
  OBVIOUS
<1> QED BY <1>1, <1>2, <1>3, PTL DEF Spec
=============================================================================
