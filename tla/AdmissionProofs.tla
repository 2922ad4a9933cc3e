--------------------------- MODULE AdmissionProofs --------------------------
(***************************************************************************)
(* The request queue is consistent and fair, for any finite number of      *)
(* requests, any accounts and any limits.  The argument: rotation and      *)
(* removal keep the order within an account and between the others, and a  *)
(* request that was passed by an account stays before all of it; every     *)
(* step that could make somebody the next eligible one tells him, or finds *)
(* him still checking; and of any set of admitted requests, the last one   *)
(* admitted saw all the others.                                            *)
(*                                                                         *)
(* The connection pool is consistent for any clients, limits, lifetimes    *)
(* and executors.  The argument: connections in use are held by holders of *)
(* a place, whose number one client's limit allows; and a client that      *)
(* takes its connection first closes what its limit leaves no room for.    *)
(***************************************************************************)
EXTENDS Requests, ConnectionPool, FiniteSetTheorems, SequenceTheorems, WellFoundedInduction, TLAPS

Account(q, i) == AccountOf[q[i].client]
Distinct(q) == \A i, j \in DOMAIN q : q[i].client = q[j].client => i = j
(* HeadsAreFirst, of a queue. *)
Heads(q) ==
    \A i \in DOMAIN q : q[i].head <=> \A k \in 1..(i - 1) : Account(q, k) # Account(q, i)
(* Client d stands before everyone of account y. *)
Before(q, d, y) ==
    \A i, j \in DOMAIN q : q[i].client = d /\ Account(q, j) = y => i < j

Present == {c \in Requesters : pc[c] # "idle"}
InQueue == {c \in Requesters : pc[c] \in {"checking", "waiting"}}

Shapes ==
    /\ accounts \in [Accounts -> Nat] /\ queue \in Seq(Entry)
    /\ pc \in [Requesters -> {"idle", "reserved", "checking", "waiting", "admitted", "leaving"}]
    /\ owed \subseteq Requesters /\ permit \subseteq Requesters
    /\ passed \subseteq Requesters \X Accounts
Counted ==
    /\ reserved = Cardinality(Present)
    /\ active = Cardinality(Admitted)
    /\ \A a \in Accounts : accounts[a] = Cardinality(AdmittedOf(a))
Queued == Distinct(queue) /\ Waits(queue) = InQueue
(* Any of the admitted requests taken together are within the limits of one of
   them: the last one that was admitted. *)
Narrow ==
    /\ \A S \in SUBSET Admitted : S # {} => \E c \in S : Cardinality(S) <= ActiveLimit(c)
    /\ \A a \in Accounts : \A S \in SUBSET AdmittedOf(a) :
           S # {} => \E c \in S : Cardinality(S) <= AccountLimit(c)
(* Who was passed by an account still waits, and stands before all of it. *)
PassedStand ==
    \A d \in Requesters, y \in Accounts : <<d, y>> \in passed =>
        d \in Waits(queue) /\ Before(queue, d, y)

RequestsInvariant ==
    Shapes /\ Counted /\ Queued /\ Narrow /\ Heads(queue) /\ NoLostWakeup /\ PassedStand

-----------------------------------------------------------------------------
(* Counting gives every place of a set its rank, and every rank its place. *)
LEMMA NthFacts ==
    ASSUME NEW S, IsFiniteSet(S), S \subseteq Nat
    PROVE  /\ Cardinality(S) \in Nat
           /\ \A j \in 1..Cardinality(S) : Nth(S, j) \in S
           /\ \A i \in S : \E j \in 1..Cardinality(S) : Nth(S, j) = i
           /\ \A j, k \in 1..Cardinality(S) : j < k => Nth(S, j) < Nth(S, k)
<1> DEFINE n == Cardinality(S)
           Below(i) == {k \in S : k <= i}
           f == [i \in S |-> Cardinality(Below(i))]
<1>0. n \in Nat
  BY FS_CardinalityType
<1>1. \A i \in S : IsFiniteSet(Below(i)) /\ Cardinality(Below(i)) \in 1..n
  <2> SUFFICES ASSUME NEW i \in S
               PROVE  IsFiniteSet(Below(i)) /\ Cardinality(Below(i)) \in 1..n
    OBVIOUS
  <2>1. Below(i) \subseteq S /\ i \in Below(i)
    OBVIOUS
  <2>2. IsFiniteSet(Below(i)) /\ Cardinality(Below(i)) <= n
    BY <2>1, FS_Subset
  <2>3. Cardinality(Below(i)) \in Nat /\ Cardinality(Below(i)) # 0
    BY <2>1, <2>2, FS_CardinalityType, FS_EmptySet
  <2> QED BY <1>0, <2>2, <2>3
<1>2. \A i, j \in S : i < j => Cardinality(Below(i)) < Cardinality(Below(j))
  <2> SUFFICES ASSUME NEW i \in S, NEW j \in S, i < j
               PROVE  Cardinality(Below(i)) < Cardinality(Below(j))
    OBVIOUS
  <2>0. i \in Nat /\ j \in Nat /\ \A k \in S : k \in Nat
    OBVIOUS
  <2>1. Below(i) \subseteq Below(j) \ {j} /\ j \in Below(j)
    <3>1. \A k \in Nat : k <= i => k <= j /\ k # j
      BY <2>0
    <3>2. j <= j
      BY <2>0
    <3> QED BY <2>0, <3>1, <3>2, Zenon
  <2>2. IsFiniteSet(Below(j) \ {j}) /\ Cardinality(Below(j) \ {j}) = Cardinality(Below(j)) - 1
    BY <1>1, <2>1, FS_RemoveElement
  <2>3. Cardinality(Below(i)) <= Cardinality(Below(j) \ {j})
    BY <2>1, <2>2, FS_Subset
  <2>4. Cardinality(Below(i)) \in Nat /\ Cardinality(Below(j)) \in Nat
    BY <1>1
  <2> HIDE DEF Below
  <2> QED BY <2>2, <2>3, <2>4
<1> HIDE DEF Below
<1>3. f \in Injection(S, 1..n)
  <2>1. f \in [S -> 1..n]
    BY <1>1
  <2>2. \A i, j \in S : f[i] = f[j] => i = j
    <3> SUFFICES ASSUME NEW i \in S, NEW j \in S, f[i] = f[j] PROVE i = j
      OBVIOUS
    <3>1. f[i] \in Nat /\ f[j] \in Nat /\ i \in Nat /\ j \in Nat
      BY <1>1
    <3>2. ~(i < j) /\ ~(j < i)
      BY <1>2, <3>1
    <3> QED BY <3>1, <3>2
  <2> QED BY <2>1, <2>2 DEF Injection, IsInjective
<1>4. f \in Surjection(S, 1..n)
  <2>1. IsFiniteSet(1..n) /\ Cardinality(1..n) = n
    BY <1>0, FS_Interval
  <2> QED BY <1>3, <2>1, FS_Injection
<1>5. \A j \in 1..n : \E i \in S : Cardinality(Below(i)) = j
  BY <1>4 DEF Surjection
<1>6. \A j \in 1..n : Nth(S, j) \in S /\ Cardinality(Below(Nth(S, j))) = j
  BY <1>5 DEF Nth, Below
<1>7. \A i \in S : \E j \in 1..n : Nth(S, j) = i
  <2> SUFFICES ASSUME NEW i \in S PROVE \E j \in 1..n : Nth(S, j) = i
    OBVIOUS
  <2>1. Cardinality(Below(i)) \in 1..n
    BY <1>1
  <2>2. f[Nth(S, Cardinality(Below(i)))] = f[i] /\ Nth(S, Cardinality(Below(i))) \in S
    BY <1>6, <2>1
  <2>3. \A x, y \in S : f[x] = f[y] => x = y
    BY <1>3 DEF Injection, IsInjective
  <2> HIDE DEF f
  <2> QED BY <2>1, <2>2, <2>3
<1>8. \A j, k \in 1..n : j < k => Nth(S, j) < Nth(S, k)
  <2> SUFFICES ASSUME NEW j \in 1..n, NEW k \in 1..n, j < k PROVE Nth(S, j) < Nth(S, k)
    OBVIOUS
  <2>1. /\ Nth(S, j) \in S /\ Nth(S, k) \in S
        /\ Cardinality(Below(Nth(S, j))) = j /\ Cardinality(Below(Nth(S, k))) = k
    BY <1>6
  <2>2. j \in Nat /\ k \in Nat /\ Nth(S, j) \in Nat /\ Nth(S, k) \in Nat
    <3>1. Nth(S, j) \in Nat /\ Nth(S, k) \in Nat
      BY <2>1, Zenon
    <3> QED BY <1>0, <3>1
  <2>3. ~(Nth(S, k) < Nth(S, j)) /\ Nth(S, j) # Nth(S, k)
    BY <1>2, <2>1, <2>2
  <2> QED BY <2>2, <2>3
<1> QED BY <1>0, <1>6, <1>7, <1>8

(* What is kept of a queue: its entries at those places, in their order. *)
LEMMA KeptFacts ==
    ASSUME NEW T, NEW q \in Seq(T), NEW S \in SUBSET DOMAIN q
    PROVE  /\ IsFiniteSet(S) /\ Cardinality(S) \in Nat /\ Cardinality(S) <= Len(q)
           /\ Kept(q, S) \in Seq(T) /\ Len(Kept(q, S)) = Cardinality(S)
           /\ DOMAIN Kept(q, S) = 1..Cardinality(S)
           /\ \A j \in 1..Cardinality(S) : Nth(S, j) \in S /\ Kept(q, S)[j] = q[Nth(S, j)]
           /\ \A i \in S : \E j \in 1..Cardinality(S) : Nth(S, j) = i
           /\ \A j, k \in 1..Cardinality(S) : j < k => Nth(S, j) < Nth(S, k)
<1>1. DOMAIN q = 1..Len(q) /\ Len(q) \in Nat
  OBVIOUS
<1>2. IsFiniteSet(1..Len(q)) /\ Cardinality(1..Len(q)) = Len(q)
  <2>1. 1 \in Int /\ Len(q) \in Int
    BY <1>1
  <2>2. /\ IsFiniteSet(1..Len(q))
        /\ Cardinality(1..Len(q)) = IF 1 > Len(q) THEN 0 ELSE Len(q) - 1 + 1
    BY <2>1, FS_Interval
  <2> QED BY <1>1, <2>2
<1>3. IsFiniteSet(S) /\ Cardinality(S) <= Len(q) /\ S \subseteq Nat
  BY <1>1, <1>2, FS_Subset
<1>4. /\ Cardinality(S) \in Nat
      /\ \A j \in 1..Cardinality(S) : Nth(S, j) \in S
      /\ \A i \in S : \E j \in 1..Cardinality(S) : Nth(S, j) = i
      /\ \A j, k \in 1..Cardinality(S) : j < k => Nth(S, j) < Nth(S, k)
  BY <1>3, NthFacts
<1>5. \A j \in 1..Cardinality(S) : q[Nth(S, j)] \in T
  BY <1>1, <1>4
<1>6. Kept(q, S) \in Seq(T) /\ Len(Kept(q, S)) = Cardinality(S)
      /\ DOMAIN Kept(q, S) = 1..Cardinality(S)
  BY <1>4, <1>5 DEF Kept
<1>7. \A j \in 1..Cardinality(S) : Kept(q, S)[j] = q[Nth(S, j)]
  BY DEF Kept
<1> QED BY <1>3, <1>4, <1>6, <1>7

-----------------------------------------------------------------------------
(* Rotation is a rearrangement: it moves the account behind all others and
   keeps the order of the rest. *)
Rearranges(p, q, r, a) ==
    /\ p \in [DOMAIN r -> DOMAIN q]
    /\ \A i \in DOMAIN r : r[i] = q[p[i]]
    /\ \A k \in DOMAIN q : \E i \in DOMAIN r : p[i] = k
    /\ \A i, j \in DOMAIN r : i < j =>
           \/ Account(q, p[i]) # a /\ Account(q, p[j]) = a
           \/ p[i] < p[j] /\ (Account(q, p[i]) = a <=> Account(q, p[j]) = a)

LEMMA Concatenation ==
    ASSUME NEW T, NEW s \in Seq(T), NEW t \in Seq(T)
    PROVE  /\ s \o t \in Seq(T) /\ Len(s \o t) = Len(s) + Len(t)
           /\ DOMAIN (s \o t) = 1..(Len(s) + Len(t))
           /\ \A i \in 1..(Len(s) + Len(t)) :
                  (s \o t)[i] = IF i <= Len(s) THEN s[i] ELSE t[i - Len(s)]
OBVIOUS

LEMMA RotateFacts ==
    ASSUME NEW q \in Seq(Entry), NEW a
    PROVE  /\ Rotate(q, a) \in Seq(Entry)
           /\ \E p : Rearranges(p, q, Rotate(q, a), a)
<1> DEFINE O == PlacesOfOthers(q, a)
           A == PlacesOf(q, a)
           x == Kept(q, O)
           y == Kept(q, A)
           m == Cardinality(O)
           n == Cardinality(A)
           r == x \o y
           p == [i \in DOMAIN r |-> IF i <= m THEN Nth(O, i) ELSE Nth(A, i - m)]
<1>1. /\ O \in SUBSET DOMAIN q /\ A \in SUBSET DOMAIN q
      /\ \A i \in O : Account(q, i) # a
      /\ \A i \in A : Account(q, i) = a
      /\ \A i \in DOMAIN q : i \in O \/ i \in A
  BY DEF PlacesOfOthers, PlacesOf, Account
<1> HIDE DEF O, A
<1>2. /\ x \in Seq(Entry) /\ Len(x) = m /\ m \in Nat
      /\ \A j \in 1..m : Nth(O, j) \in O /\ x[j] = q[Nth(O, j)]
      /\ \A i \in O : \E j \in 1..m : Nth(O, j) = i
      /\ \A j, k \in 1..m : j < k => Nth(O, j) < Nth(O, k)
  BY <1>1, KeptFacts
<1>3. /\ y \in Seq(Entry) /\ Len(y) = n /\ n \in Nat
      /\ \A j \in 1..n : Nth(A, j) \in A /\ y[j] = q[Nth(A, j)]
      /\ \A i \in A : \E j \in 1..n : Nth(A, j) = i
      /\ \A j, k \in 1..n : j < k => Nth(A, j) < Nth(A, k)
  BY <1>1, KeptFacts
<1> HIDE DEF x, y, m, n
<1>4. /\ r \in Seq(Entry) /\ DOMAIN r = 1..(m + n)
      /\ \A i \in 1..m : r[i] = x[i]
      /\ \A i \in (m + 1)..(m + n) : r[i] = y[i - m]
  <2>0. x \in Seq(Entry) /\ y \in Seq(Entry)
    BY <1>2, <1>3
  <2>1. /\ r \in Seq(Entry) /\ Len(r) = Len(x) + Len(y)
        /\ \A i \in 1..(Len(x) + Len(y)) :
               r[i] = IF i <= Len(x) THEN x[i] ELSE y[i - Len(x)]
    BY <2>0, Concatenation
  <2> HIDE DEF r
  <2>2. /\ DOMAIN r = 1..(m + n)
        /\ \A i \in 1..(m + n) : r[i] = IF i <= m THEN x[i] ELSE y[i - m]
    BY <1>2, <1>3, <2>1
  <2> QED BY <1>2, <1>3, <2>1, <2>2
<1>5. Rotate(q, a) = r
  BY DEF Rotate, r, x, y, O, A
<1> HIDE DEF r
<1>6. \A i \in 1..m : p[i] = Nth(O, i) /\ p[i] \in O
  BY <1>2, <1>3, <1>4
<1>7. \A i \in (m + 1)..(m + n) : p[i] = Nth(A, i - m) /\ p[i] \in A /\ i - m \in 1..n
  BY <1>2, <1>3, <1>4
<1>8. \A i \in DOMAIN r : i \in 1..m \/ i \in (m + 1)..(m + n)
  BY <1>2, <1>3, <1>4
<1>9. Rearranges(p, q, r, a)
  <2>1. p \in [DOMAIN r -> DOMAIN q]
    <3>1. \A i \in DOMAIN r : p[i] \in DOMAIN q
      BY <1>1, <1>6, <1>7, <1>8
    <3>2. p = [i \in DOMAIN r |-> p[i]]
      OBVIOUS
    <3> HIDE DEF p
    <3> QED BY <3>1, <3>2
  <2> HIDE DEF p
  <2>2. \A i \in DOMAIN r : r[i] = q[p[i]]
    <3> SUFFICES ASSUME NEW i \in DOMAIN r PROVE r[i] = q[p[i]]
      OBVIOUS
    <3>1. CASE i \in 1..m
      BY <1>2, <1>4, <1>6, <3>1
    <3>2. CASE i \in (m + 1)..(m + n)
      BY <1>3, <1>4, <1>7, <3>2
    <3> QED BY <1>8, <3>1, <3>2
  <2>3. \A k \in DOMAIN q : \E i \in DOMAIN r : p[i] = k
    <3> SUFFICES ASSUME NEW k \in DOMAIN q PROVE \E i \in DOMAIN r : p[i] = k
      OBVIOUS
    <3>1. CASE k \in O
      <4>1. PICK j \in 1..m : Nth(O, j) = k
        BY <1>2, <3>1
      <4>2. p[j] = k /\ j \in DOMAIN r
        BY <1>2, <1>3, <1>4, <1>6, <4>1
      <4> QED BY <4>2
    <3>2. CASE k \in A
      <4>1. PICK j \in 1..n : Nth(A, j) = k
        BY <1>3, <3>2
      <4>2. j + m \in (m + 1)..(m + n) /\ (j + m) - m = j /\ j + m \in DOMAIN r
        BY <1>2, <1>3, <1>4, <4>1
      <4>3. p[j + m] = k
        BY <1>7, <4>1, <4>2
      <4> QED BY <4>2, <4>3
    <3> QED BY <1>1, <3>1, <3>2
  <2>4. ASSUME NEW i \in DOMAIN r, NEW j \in DOMAIN r, i < j
        PROVE  \/ Account(q, p[i]) # a /\ Account(q, p[j]) = a
               \/ p[i] < p[j] /\ (Account(q, p[i]) = a <=> Account(q, p[j]) = a)
    <3>1. CASE i \in 1..m /\ j \in 1..m
      BY <1>1, <1>2, <1>6, <2>4, <3>1
    <3>2. CASE i \in (m + 1)..(m + n) /\ j \in (m + 1)..(m + n)
      <4>1. i - m < j - m
        BY <1>2, <1>3, <2>4, <3>2
      <4> QED BY <1>1, <1>3, <1>7, <3>2, <4>1
    <3>3. CASE i \in 1..m /\ j \in (m + 1)..(m + n)
      BY <1>1, <1>6, <1>7, <3>3
    <3>4. ~(i \in (m + 1)..(m + n) /\ j \in 1..m)
      BY <1>2, <1>3, <2>4
    <3> QED BY <1>8, <3>1, <3>2, <3>3, <3>4
  <2> QED BY <2>1, <2>2, <2>3, <2>4 DEF Rearranges
<1> QED BY <1>4, <1>5, <1>9

(* What rotation keeps: who waits, once each; which are heads; and who stands
   before an account, which all others do before the rotated one. *)
LEMMA RotateKeeps ==
    ASSUME NEW q \in Seq(Entry), NEW a, NEW r, r = Rotate(q, a)
    PROVE  /\ r \in Seq(Entry) /\ Waits(r) = Waits(q)
           /\ Distinct(q) => Distinct(r)
           /\ Heads(q) => Heads(r)
           /\ \A d, y : AccountOf[d] # a /\ (y = a \/ Before(q, d, y)) => Before(r, d, y)
<1>1. r \in Seq(Entry)
  BY RotateFacts
<1>2. PICK p : Rearranges(p, q, r, a)
  BY RotateFacts
<1>3. /\ DOMAIN r = 1..Len(r) /\ Len(r) \in Nat /\ DOMAIN q = 1..Len(q) /\ Len(q) \in Nat
      /\ \A i \in DOMAIN r : i \in Nat
      /\ \A i \in DOMAIN q : i \in Nat
  BY <1>1
<1>4. /\ \A i \in DOMAIN r : p[i] \in DOMAIN q /\ r[i] = q[p[i]]
      /\ \A k \in DOMAIN q : \E i \in DOMAIN r : p[i] = k
  BY <1>2 DEF Rearranges
<1>5. \A i \in DOMAIN r : Account(r, i) = Account(q, p[i])
  BY <1>4 DEF Account
<1>6. ASSUME NEW i \in DOMAIN r, NEW j \in DOMAIN r, i < j
      PROVE  \/ Account(q, p[i]) # a /\ Account(q, p[j]) = a
             \/ p[i] < p[j] /\ (Account(q, p[i]) = a <=> Account(q, p[j]) = a)
  BY <1>2, <1>6 DEF Rearranges
<1>7. ASSUME NEW i \in DOMAIN r, NEW j \in DOMAIN r, i # j
      PROVE  p[i] # p[j]
  <2>1. i < j \/ j < i
    BY <1>3, <1>7
  <2>2. p[i] \in Nat /\ p[j] \in Nat
    BY <1>3, <1>4
  <2> QED BY <1>6, <2>1, <2>2
<1>8. ASSUME NEW i \in DOMAIN r, NEW j \in DOMAIN r, p[i] < p[j],
             Account(q, p[i]) = a <=> Account(q, p[j]) = a
      PROVE  i < j
  <2>1. p[i] \in Nat /\ p[j] \in Nat /\ i \in Nat /\ j \in Nat
    BY <1>3, <1>4
  <2>2. i # j /\ ~(j < i)
    BY <1>6, <1>8, <2>1
  <2> QED BY <2>1, <2>2
<1>9. Waits(r) = Waits(q)
  <2>1. \A i \in DOMAIN r : r[i].client \in Waits(q)
    BY <1>4 DEF Waits
  <2>2. \A k \in DOMAIN q : q[k].client \in Waits(r)
    BY <1>4 DEF Waits
  <2> QED BY <2>1, <2>2 DEF Waits
<1>10. ASSUME Distinct(q) PROVE Distinct(r)
  <2> SUFFICES ASSUME NEW i \in DOMAIN r, NEW j \in DOMAIN r, r[i].client = r[j].client
               PROVE  i = j
    BY DEF Distinct
  <2>1. p[i] = p[j]
    BY <1>4, <1>10 DEF Distinct
  <2> QED BY <1>7, <2>1
<1>11. ASSUME Heads(q) PROVE Heads(r)
  <2> SUFFICES ASSUME NEW i \in DOMAIN r
               PROVE  r[i].head <=> \A k \in 1..(i - 1) : Account(r, k) # Account(r, i)
    BY DEF Heads
  <2>1. r[i].head <=> \A k \in 1..(p[i] - 1) : Account(q, k) # Account(q, p[i])
    BY <1>4, <1>11 DEF Heads
  <2>2. ASSUME NEW k \in 1..(i - 1), Account(r, k) = Account(r, i)
        PROVE  \E h \in 1..(p[i] - 1) : Account(q, h) = Account(q, p[i])
    <3>1. k \in DOMAIN r /\ k < i
      BY <1>3
    <3>2. p[k] < p[i] /\ p[k] \in DOMAIN q /\ p[i] \in DOMAIN q
      BY <1>4, <1>5, <1>6, <2>2, <3>1
    <3>3. p[k] \in 1..(p[i] - 1)
      BY <1>3, <3>2
    <3> QED BY <1>5, <2>2, <3>1, <3>3
  <2>3. ASSUME NEW h \in 1..(p[i] - 1), Account(q, h) = Account(q, p[i])
        PROVE  \E k \in 1..(i - 1) : Account(r, k) = Account(r, i)
    <3>0. p[i] \in DOMAIN q
      BY <1>4
    <3>1. h \in DOMAIN q /\ h < p[i]
      BY <1>3, <3>0
    <3>2. PICK k \in DOMAIN r : p[k] = h
      BY <1>4, <3>1
    <3>3. k < i
      BY <1>8, <2>3, <3>1, <3>2
    <3>4. k \in 1..(i - 1)
      BY <1>3, <3>3
    <3> QED BY <1>5, <2>3, <3>2, <3>4
  <2> QED BY <2>1, <2>2, <2>3
<1>12. ASSUME NEW d, NEW y, AccountOf[d] # a, y = a \/ Before(q, d, y)
       PROVE  Before(r, d, y)
  <2> SUFFICES ASSUME NEW i \in DOMAIN r, NEW j \in DOMAIN r,
                      r[i].client = d, Account(r, j) = y
               PROVE  i < j
    BY DEF Before
  <2>1. /\ i \in Nat /\ j \in Nat /\ p[i] \in DOMAIN q /\ p[j] \in DOMAIN q
        /\ p[i] \in Nat /\ p[j] \in Nat
    BY <1>3, <1>4
  <2>2. q[p[i]].client = d /\ Account(q, p[i]) # a /\ Account(q, p[j]) = y
    BY <1>4, <1>5, <1>12 DEF Account
  <2>3. CASE y = a
    <3>1. i # j /\ ~(j < i)
      BY <1>6, <2>1, <2>2, <2>3
    <3> QED BY <2>1, <3>1
  <2>4. CASE y # a
    <3>1. p[i] < p[j]
      BY <1>12, <2>1, <2>2, <2>4 DEF Before
    <3> QED BY <1>8, <2>2, <2>4, <3>1
  <2> QED BY <2>3, <2>4
<1> QED BY <1>1, <1>9, <1>10, <1>11, <1>12

-----------------------------------------------------------------------------
(* Removal leaves the others in their order, and the head flag of the one that
   left goes to the next of its account. *)
Leaves(p, q, r, c) ==
    /\ p \in [DOMAIN r -> DOMAIN q]
    /\ \A i \in DOMAIN r : r[i].client = q[p[i]].client /\ r[i].client # c
    /\ \A k \in DOMAIN q : q[k].client # c => \E i \in DOMAIN r : p[i] = k
    /\ \A i, j \in DOMAIN r : i < j => p[i] < p[j]
    /\ \A i \in DOMAIN r :
           r[i].head = \/ q[p[i]].head
                       \/ /\ \E h \in DOMAIN q : q[h].client = c /\ q[h].head
                          /\ Account(r, i) = AccountOf[c]
                          /\ \A k \in 1..(i - 1) : Account(r, k) # AccountOf[c]

LEMMA RemoveFacts ==
    ASSUME NEW q \in Seq(Entry), NEW c
    PROVE  /\ RemoveWaiting(q, c) \in Seq(Entry)
           /\ \E p : Leaves(p, q, RemoveWaiting(q, c), c)
<1> DEFINE S == {i \in DOMAIN q : q[i].client # c}
           rest == Kept(q, S)
           n == Cardinality(S)
           wasHead == \E i \in DOMAIN q : q[i].client = c /\ q[i].head
           Inherits(i) == /\ wasHead
                          /\ AccountOf[rest[i].client] = AccountOf[c]
                          /\ \A k \in 1..(i - 1) : AccountOf[rest[k].client] # AccountOf[c]
           r == [i \in DOMAIN rest |-> IF Inherits(i) THEN [rest[i] EXCEPT !.head = TRUE]
                                                      ELSE rest[i]]
           p == [i \in 1..n |-> Nth(S, i)]
<1>1. /\ S \in SUBSET DOMAIN q /\ \A i \in S : q[i].client # c
      /\ \A i \in DOMAIN q : q[i].client # c => i \in S
  OBVIOUS
<1>2. RemoveWaiting(q, c) = r
  BY DEF RemoveWaiting
<1> HIDE DEF S
<1>3. /\ rest \in Seq(Entry) /\ n \in Nat /\ DOMAIN rest = 1..n
      /\ \A j \in 1..n : Nth(S, j) \in S /\ rest[j] = q[Nth(S, j)]
      /\ \A i \in S : \E j \in 1..n : Nth(S, j) = i
      /\ \A j, k \in 1..n : j < k => Nth(S, j) < Nth(S, k)
  BY <1>1, KeptFacts
<1> HIDE DEF rest, n
<1>4. \A i \in 1..n : rest[i] \in Entry
  BY <1>3
<1>5. /\ DOMAIN r = 1..n /\ DOMAIN p = 1..n
      /\ \A i \in 1..n : p[i] = Nth(S, i)
      /\ \A i \in 1..n : r[i] = IF Inherits(i) THEN [rest[i] EXCEPT !.head = TRUE]
                                               ELSE rest[i]
  BY <1>3
<1> HIDE DEF r, p, Inherits
<1>6. \A i \in 1..n : /\ r[i] \in Entry /\ r[i].client = rest[i].client
                      /\ r[i].head = (rest[i].head \/ Inherits(i))
  BY <1>4, <1>5 DEF Entry
<1>7. r \in Seq(Entry)
  <2>1. r = [i \in 1..n |-> r[i]]
    BY <1>3 DEF r
  <2> QED BY <1>3, <1>6, <2>1
<1>8. ASSUME NEW i \in 1..n
      PROVE  Inherits(i) = /\ wasHead
                           /\ Account(r, i) = AccountOf[c]
                           /\ \A k \in 1..(i - 1) : Account(r, k) # AccountOf[c]
  <2>1. \A k \in 1..(i - 1) : k \in 1..n
    BY <1>3
  <2> QED BY <1>6, <2>1 DEF Inherits, Account
<1>9. Leaves(p, q, r, c)
  <2>1. p \in [DOMAIN r -> DOMAIN q]
    BY <1>1, <1>3, <1>5 DEF p
  <2>2. \A i \in 1..n : rest[i] = q[p[i]] /\ q[p[i]].client # c
    BY <1>1, <1>3, <1>5
  <2>3. \A k \in DOMAIN q : q[k].client # c => \E i \in DOMAIN r : p[i] = k
    BY <1>1, <1>3, <1>5
  <2>4. \A i, j \in DOMAIN r : i < j => p[i] < p[j]
    BY <1>3, <1>5
  <2>5. \A i \in DOMAIN r : r[i].client = q[p[i]].client /\ r[i].client # c
    BY <1>5, <1>6, <2>2
  <2>6. \A i \in DOMAIN r :
           r[i].head = \/ q[p[i]].head
                       \/ /\ \E h \in DOMAIN q : q[h].client = c /\ q[h].head
                          /\ Account(r, i) = AccountOf[c]
                          /\ \A k \in 1..(i - 1) : Account(r, k) # AccountOf[c]
    BY <1>5, <1>6, <1>8, <2>2
  <2> QED BY <2>1, <2>3, <2>4, <2>5, <2>6 DEF Leaves
<1> QED BY <1>2, <1>7, <1>9

(* What removal keeps: the other waiters, once each, and who stands before an
   account; and the heads, because the flag is inherited. *)
LEMMA RemoveKeeps ==
    ASSUME NEW q \in Seq(Entry), NEW c, NEW r, r = RemoveWaiting(q, c)
    PROVE  /\ r \in Seq(Entry) /\ Waits(r) = Waits(q) \ {c}
           /\ Distinct(q) => Distinct(r)
           /\ Distinct(q) /\ Heads(q) => Heads(r)
           /\ \A d, y : Before(q, d, y) => Before(r, d, y)
<1>1. r \in Seq(Entry)
  BY RemoveFacts
<1>2. PICK p : Leaves(p, q, r, c)
  BY RemoveFacts
<1>3. /\ DOMAIN r = 1..Len(r) /\ Len(r) \in Nat /\ DOMAIN q = 1..Len(q) /\ Len(q) \in Nat
      /\ \A i \in DOMAIN r : i \in Nat
      /\ \A i \in DOMAIN q : i \in Nat
  BY <1>1
<1>4. /\ \A i \in DOMAIN r : /\ p[i] \in DOMAIN q
                             /\ r[i].client = q[p[i]].client /\ r[i].client # c
      /\ \A k \in DOMAIN q : q[k].client # c => \E i \in DOMAIN r : p[i] = k
      /\ \A i, j \in DOMAIN r : i < j => p[i] < p[j]
  BY <1>2 DEF Leaves
<1>5. \A i \in DOMAIN r : Account(r, i) = Account(q, p[i])
  BY <1>4 DEF Account
<1>6. ASSUME NEW i \in DOMAIN r, NEW j \in DOMAIN r
      PROVE  (p[i] < p[j] => i < j) /\ (p[i] = p[j] => i = j)
  <2>1. p[i] \in Nat /\ p[j] \in Nat /\ i \in Nat /\ j \in Nat
    BY <1>3, <1>4
  <2>2. CASE i < j
    BY <1>4, <2>1, <2>2
  <2>3. CASE j < i
    BY <1>4, <2>1, <2>3
  <2>4. CASE i = j
    BY <2>1, <2>4
  <2> QED BY <2>1, <2>2, <2>3, <2>4
<1>7. Waits(r) = Waits(q) \ {c}
  <2>1. \A i \in DOMAIN r : r[i].client \in Waits(q) \ {c}
    BY <1>4 DEF Waits
  <2>2. \A k \in DOMAIN q : q[k].client # c => q[k].client \in Waits(r)
    BY <1>4 DEF Waits
  <2> QED BY <2>1, <2>2 DEF Waits
<1>8. ASSUME Distinct(q) PROVE Distinct(r)
  <2> SUFFICES ASSUME NEW i \in DOMAIN r, NEW j \in DOMAIN r, r[i].client = r[j].client
               PROVE  i = j
    BY DEF Distinct
  <2>1. p[i] = p[j]
    BY <1>4, <1>8 DEF Distinct
  <2> QED BY <1>6, <2>1
<1>9. ASSUME Distinct(q), Heads(q) PROVE Heads(r)
  <2> SUFFICES ASSUME NEW i \in DOMAIN r
               PROVE  r[i].head <=> \A k \in 1..(i - 1) : Account(r, k) # Account(r, i)
    BY DEF Heads
  <2> DEFINE First == \A k \in 1..(i - 1) : Account(r, k) # Account(r, i)
  <2>0. p[i] \in DOMAIN q /\ i \in Nat /\ p[i] \in Nat
    BY <1>3, <1>4
  <2>1. \A h \in DOMAIN q :
            q[h].head <=> \A k \in 1..(h - 1) : Account(q, k) # Account(q, h)
    BY <1>9 DEF Heads
  <2>2. r[i].head = \/ q[p[i]].head
                    \/ /\ \E h \in DOMAIN q : q[h].client = c /\ q[h].head
                       /\ Account(r, i) = AccountOf[c]
                       /\ \A k \in 1..(i - 1) : Account(r, k) # AccountOf[c]
    BY <1>2 DEF Leaves
  (* Nobody of the same account who stays can stand before the first. *)
  <2>3. ASSUME First, NEW h \in DOMAIN q, h < p[i], q[h].client # c
        PROVE  Account(q, h) # Account(q, p[i])
    <3>1. PICK k \in DOMAIN r : p[k] = h
      BY <1>4, <2>3
    <3>2. k < i
      BY <1>6, <2>3, <3>1
    <3>3. k \in 1..(i - 1)
      BY <1>3, <3>2
    <3> QED BY <1>5, <2>3, <3>1, <3>3
  <2>4. ASSUME ~First PROVE ~q[p[i]].head
    <3>1. PICK k \in 1..(i - 1) : Account(r, k) = Account(r, i)
      BY <2>4
    <3>2. k \in DOMAIN r /\ k < i
      BY <1>3, <3>1
    <3>3. p[k] < p[i] /\ p[k] \in DOMAIN q
      BY <1>4, <3>2
    <3>4. p[k] \in 1..(p[i] - 1)
      BY <1>3, <2>0, <3>3
    <3> QED BY <1>5, <2>0, <2>1, <3>1, <3>2, <3>4
  <2>5. ASSUME First, ~q[p[i]].head
        PROVE  /\ Account(q, p[i]) = AccountOf[c]
               /\ \E h \in DOMAIN q : q[h].client = c /\ q[h].head
    <3>1. PICK h \in 1..(p[i] - 1) : Account(q, h) = Account(q, p[i])
      BY <2>0, <2>1, <2>5
    <3>2. h \in DOMAIN q /\ h < p[i] /\ h \in Nat
      BY <1>3, <2>0
    <3>3. q[h].client = c
      BY <2>3, <2>5, <3>1, <3>2
    <3>4. q[h].head
      <4> SUFFICES ASSUME NEW k \in 1..(h - 1), Account(q, k) = Account(q, h) PROVE FALSE
        BY <2>1, <3>2
      <4>1. k \in DOMAIN q /\ k < p[i] /\ k # h
        BY <1>3, <2>0, <3>2
      <4>2. q[k].client # c
        BY <1>9, <3>2, <3>3, <4>1 DEF Distinct
      <4> QED BY <2>3, <2>5, <3>1, <4>1, <4>2
    <3> QED BY <3>1, <3>2, <3>3, <3>4 DEF Account
  <2>6. CASE First
    BY <1>5, <2>2, <2>5, <2>6
  <2>7. CASE ~First
    BY <2>2, <2>4, <2>7
  <2> QED BY <2>6, <2>7
<1>10. ASSUME NEW d, NEW y, Before(q, d, y) PROVE Before(r, d, y)
  BY <1>4, <1>5, <1>6, <1>10 DEF Before
<1> QED BY <1>1, <1>7, <1>8, <1>9, <1>10

(* A newcomer goes to the end. *)
LEMMA AppendKeeps ==
    ASSUME NEW q \in Seq(Entry), NEW e \in Entry, NEW r, r = Append(q, e),
           e.client \notin Waits(q)
    PROVE  /\ r \in Seq(Entry) /\ Waits(r) = Waits(q) \cup {e.client}
           /\ Distinct(q) => Distinct(r)
           /\ Heads(q) /\ (e.head <=> PlacesOf(q, AccountOf[e.client]) = {}) => Heads(r)
           /\ \A d, y : d # e.client /\ d \in Waits(q) /\ Before(q, d, y) => Before(r, d, y)
<1> DEFINE c == e.client
           n == Len(q)
<1>1. n \in Nat /\ DOMAIN q = 1..n
  OBVIOUS
<1>2. /\ r \in Seq(Entry) /\ DOMAIN r = 1..(n + 1) /\ r[n + 1] = e
      /\ \A i \in 1..n : r[i] = q[i]
  BY <1>1
<1>3. \A i \in DOMAIN r : i \in Nat /\ (i \in DOMAIN q \/ i = n + 1)
  BY <1>1, <1>2
<1>4. n + 1 \in DOMAIN r /\ (\A i \in DOMAIN q : i \in DOMAIN r /\ r[i] = q[i] /\ i < n + 1)
  BY <1>1, <1>2
<1>5. \A i \in DOMAIN q : q[i].client # c
  BY DEF Waits
<1>6. r[n + 1].client = c /\ r[n + 1].head = e.head
  BY <1>2
<1> HIDE DEF n
<1>7. Waits(r) = Waits(q) \cup {e.client}
  <2>1. \A i \in DOMAIN r : r[i].client \in Waits(q) \cup {c}
    BY <1>3, <1>4, <1>6 DEF Waits
  <2>2. c \in Waits(r) /\ \A i \in DOMAIN q : q[i].client \in Waits(r)
    BY <1>4, <1>6 DEF Waits
  <2> QED BY <2>1, <2>2 DEF Waits
<1>8. ASSUME Distinct(q) PROVE Distinct(r)
  BY <1>3, <1>4, <1>5, <1>6, <1>8 DEF Distinct
<1>9. ASSUME Heads(q), e.head <=> PlacesOf(q, AccountOf[c]) = {} PROVE Heads(r)
  <2> SUFFICES ASSUME NEW i \in DOMAIN r
               PROVE  r[i].head <=> \A k \in 1..(i - 1) : Account(r, k) # Account(r, i)
    BY DEF Heads
  <2>1. CASE i \in DOMAIN q
    <3>1. \A k \in 1..(i - 1) : k \in DOMAIN q
      BY <1>1, <2>1
    <3> QED BY <1>4, <1>9, <2>1, <3>1 DEF Heads, Account
  <2>2. CASE i = n + 1
    <3>1. 1..(i - 1) = DOMAIN q
      BY <1>1, <2>2
    <3> QED BY <1>4, <1>6, <1>9, <2>2, <3>1 DEF PlacesOf, Account
  <2> QED BY <1>3, <2>1, <2>2
<1>10. ASSUME NEW d, NEW y, d # c, d \in Waits(q), Before(q, d, y) PROVE Before(r, d, y)
  <2> SUFFICES ASSUME NEW i \in DOMAIN r, NEW j \in DOMAIN r,
                      r[i].client = d, Account(r, j) = y
               PROVE  i < j
    BY DEF Before
  <2>1. i \in DOMAIN q /\ q[i].client = d
    BY <1>3, <1>4, <1>6, <1>10
  <2>2. CASE j \in DOMAIN q
    BY <1>4, <1>10, <2>1, <2>2 DEF Before, Account
  <2>3. CASE j = n + 1
    BY <1>4, <2>1, <2>3
  <2> QED BY <1>3, <2>2, <2>3
<1> QED BY <1>2, <1>7, <1>8, <1>9, <1>10

-----------------------------------------------------------------------------
(* Counting requests, and the entries of a queue. *)
LEMMA Counting ==
    ASSUME RequestsAssumption, NEW A \in SUBSET Requesters
    PROVE  /\ IsFiniteSet(A) /\ Cardinality(A) \in Nat
           /\ Cardinality(A) <= Cardinality(Requesters) /\ Cardinality(Requesters) \in Nat
           /\ \A x : x \notin A => Cardinality(A \cup {x}) = Cardinality(A) + 1
           /\ \A x \in A : Cardinality(A \ {x}) = Cardinality(A) - 1 /\ Cardinality(A) # 0
           /\ \A B \in SUBSET A : Cardinality(B) <= Cardinality(A)
<1>1. IsFiniteSet(Requesters)
  BY DEF RequestsAssumption
<1>2. IsFiniteSet(A) /\ Cardinality(A) <= Cardinality(Requesters)
  BY <1>1, FS_Subset
<1>3. Cardinality(A) \in Nat /\ Cardinality(Requesters) \in Nat
  BY <1>1, <1>2, FS_CardinalityType
<1>4. \A x : x \notin A => Cardinality(A \cup {x}) = Cardinality(A) + 1
  BY <1>2, FS_AddElement
<1>5. \A x \in A : Cardinality(A \ {x}) = Cardinality(A) - 1 /\ Cardinality(A) # 0
  BY <1>2, FS_RemoveElement, FS_EmptySet
<1>6. \A B \in SUBSET A : Cardinality(B) <= Cardinality(A)
  BY <1>2, FS_Subset
<1> QED BY <1>2, <1>3, <1>4, <1>5, <1>6

LEMMA DistinctCounts ==
    ASSUME NEW q \in Seq(Entry), Distinct(q)
    PROVE  Len(q) = Cardinality(Waits(q))
<1> DEFINE n == Len(q)
           f == [i \in 1..n |-> q[i].client]
<1>1. n \in Nat /\ DOMAIN q = 1..n
  OBVIOUS
<1>2. IsFiniteSet(1..n) /\ Cardinality(1..n) = n
  <2>1. 1 \in Int /\ n \in Int
    BY <1>1
  <2>2. IsFiniteSet(1..n) /\ Cardinality(1..n) = IF 1 > n THEN 0 ELSE n - 1 + 1
    BY <2>1, FS_Interval
  <2> QED BY <1>1, <2>2
<1>3. f \in [1..n -> Waits(q)]
  BY <1>1 DEF Waits
<1>4. f \in Injection(1..n, Waits(q))
  BY <1>1, <1>3 DEF Injection, IsInjective, Distinct
<1>5. f \in Surjection(1..n, Waits(q))
  BY <1>1, <1>3 DEF Surjection, Waits
<1>6. ExistsBijection(1..n, Waits(q))
  BY <1>4, <1>5 DEF ExistsBijection, Bijection
<1> QED BY <1>2, <1>6, FS_Bijection

LEMMA LeastNumber ==
    ASSUME NEW T, T \subseteq Nat, T # {}
    PROVE  \E x \in T : \A y \in T : x <= y
<1> DEFINE R == OpToRel(<, Nat)
<1>1. IsWellFoundedOn(R, Nat)
  BY NatLessThanWellFounded, Zenon
<1>2. R = {ss \in Nat \X Nat : ss[1] < ss[2]}
  BY DEF OpToRel
<1> HIDE DEF R
<1>3. PICK x \in T : \A y \in T : ~ (<<y, x>> \in R)
  BY <1>1, WFMin
<1>4. \A y \in T : ~(y < x)
  BY <1>2, <1>3
<1> QED BY <1>3, <1>4

(* When somebody in the queue could go, the scan finds somebody. *)
LEMMA SomeoneIsNext ==
    ASSUME NEW q \in Seq(Entry), NEW n, NEW acc,
           \E i \in DOMAIN q : Eligible(q[i], n, acc)
    PROVE  NextEligible(q, n, acc) # {}
<1> DEFINE T == {i \in DOMAIN q : Eligible(q[i], n, acc)}
<1>1. T \subseteq Nat /\ T # {} /\ DOMAIN q = 1..Len(q) /\ Len(q) \in Nat
  OBVIOUS
<1>2. PICK j \in T : \A i \in T : j <= i
  BY <1>1, LeastNumber
<1>3. ASSUME NEW k \in 1..(j - 1) PROVE ~Eligible(q[k], n, acc)
  <2>1. k \in DOMAIN q /\ ~(j <= k)
    BY <1>1
  <2> QED BY <1>2, <2>1
<1>4. q[j].client \in NextEligible(q, n, acc)
  BY <1>2, <1>3 DEF NextEligible
<1> QED BY <1>4

(* The client the scan finds is in the queue, eligible, and no one before it is. *)
LEMMA NextIsFirst ==
    ASSUME NEW q \in Seq(Entry), NEW n, NEW acc, NEW c \in NextEligible(q, n, acc)
    PROVE  \E j \in DOMAIN q : /\ q[j].client = c /\ c \in Waits(q) /\ c \in Requesters
                               /\ Eligible(q[j], n, acc)
                               /\ \A k \in 1..(j - 1) : ~Eligible(q[k], n, acc)
<1>1. \A j \in DOMAIN q : q[j] \in Entry
  OBVIOUS
<1> QED BY <1>1 DEF NextEligible, Waits, Entry

(* One request changes its place: who is present, queued and admitted then. *)
LEMMA Moves ==
    ASSUME RequestsAssumption, Shapes, NEW c \in Requesters,
           NEW s \in {"idle", "reserved", "checking", "waiting", "admitted", "leaving"},
           pc' = [pc EXCEPT ![c] = s]
    PROVE  /\ pc' \in [Requesters -> {"idle", "reserved", "checking", "waiting", "admitted",
                                      "leaving"}]
           /\ pc'[c] = s /\ \A d \in Requesters : d # c => pc'[d] = pc[d]
           /\ Present' = IF s = "idle" THEN Present \ {c} ELSE Present \cup {c}
           /\ InQueue' = IF s \in {"checking", "waiting"} THEN InQueue \cup {c}
                                                          ELSE InQueue \ {c}
           /\ Admitted' = IF s = "admitted" THEN Admitted \cup {c} ELSE Admitted \ {c}
           /\ \A a \in Accounts : AdmittedOf(a)' =
                  IF s = "admitted" /\ AccountOf[c] = a THEN AdmittedOf(a) \cup {c}
                                                        ELSE AdmittedOf(a) \ {c}
<1>1. /\ pc' \in [Requesters -> {"idle", "reserved", "checking", "waiting", "admitted",
                                 "leaving"}]
      /\ pc'[c] = s /\ \A d \in Requesters : d # c => pc'[d] = pc[d]
  BY DEF Shapes
<1>2. Present' = IF s = "idle" THEN Present \ {c} ELSE Present \cup {c}
  BY <1>1 DEF Present
<1>3. InQueue' = IF s \in {"checking", "waiting"} THEN InQueue \cup {c} ELSE InQueue \ {c}
  BY <1>1 DEF InQueue
<1>4. Admitted' = IF s = "admitted" THEN Admitted \cup {c} ELSE Admitted \ {c}
  BY <1>1 DEF Admitted
<1>5. \A a \in Accounts : AdmittedOf(a)' =
                  IF s = "admitted" /\ AccountOf[c] = a THEN AdmittedOf(a) \cup {c}
                                                        ELSE AdmittedOf(a) \ {c}
  BY <1>4 DEF AdmittedOf
<1> QED BY <1>1, <1>2, <1>3, <1>4, <1>5

(* Limits are numbers. *)
LEMMA LimitsAreNumbers ==
    ASSUME RequestsAssumption, NEW c \in Requesters
    PROVE  ActiveLimit(c) \in Nat /\ AccountLimit(c) \in Nat /\ AccountOf[c] \in Accounts
BY DEF RequestsAssumption, ActiveLimit, AccountLimit

(* Admitting a request that fits counts it, and it is the one whose limits hold
   for every set it is part of. *)
LEMMA AdmittingCounts ==
    ASSUME RequestsAssumption, Shapes, Counted, Narrow, NEW c \in Requesters,
           pc[c] \in {"reserved", "checking"}, pc' = [pc EXCEPT ![c] = "admitted"],
           reserved' = reserved, active' = active + 1, accounts' = Taken(c, 1),
           active < ActiveLimit(c), accounts[AccountOf[c]] < AccountLimit(c)
    PROVE  Counted' /\ Narrow' /\ accounts' \in [Accounts -> Nat]
<1> DEFINE b == AccountOf[c]
<1>1. ActiveLimit(c) \in Nat /\ AccountLimit(c) \in Nat /\ b \in Accounts
  BY LimitsAreNumbers
<1>2. /\ Present' = Present \cup {c} /\ Admitted' = Admitted \cup {c}
      /\ \A a \in Accounts : AdmittedOf(a)' = IF a = b THEN AdmittedOf(a) \cup {c}
                                                       ELSE AdmittedOf(a) \ {c}
  BY Moves
<1>3. c \in Present /\ c \notin Admitted /\ \A a \in Accounts : c \notin AdmittedOf(a)
  BY DEF Present, Admitted, AdmittedOf
<1>4. Admitted \in SUBSET Requesters /\ \A a \in Accounts : AdmittedOf(a) \in SUBSET Requesters
  BY DEF Admitted, AdmittedOf
<1>5. Present' = Present
  BY <1>2, <1>3
<1>6. \A a \in Accounts : a # b => AdmittedOf(a)' = AdmittedOf(a)
  BY <1>2, <1>3
<1>7. Cardinality(Admitted') = Cardinality(Admitted) + 1 /\ Cardinality(Admitted) \in Nat
  BY <1>2, <1>3, <1>4, Counting
<1>8. /\ Cardinality(AdmittedOf(b)') = Cardinality(AdmittedOf(b)) + 1
      /\ Cardinality(AdmittedOf(b)) \in Nat
  BY <1>1, <1>2, <1>3, <1>4, Counting
<1>9. /\ accounts' \in [Accounts -> Nat] /\ accounts'[b] = accounts[b] + 1
      /\ \A a \in Accounts : a # b => accounts'[a] = accounts[a]
  BY <1>1 DEF Taken, Shapes
<1>10. Counted'
  <2>1. reserved' = Cardinality(Present')
    BY <1>5 DEF Counted
  <2>2. active' = Cardinality(Admitted')
    BY <1>7 DEF Counted
  <2>3. \A a \in Accounts : accounts'[a] = Cardinality(AdmittedOf(a)')
    BY <1>1, <1>6, <1>8, <1>9 DEF Counted
  <2> QED BY <2>1, <2>2, <2>3 DEF Counted
<1>11. ASSUME NEW S \in SUBSET (Admitted'), S # {}
       PROVE  \E d \in S : Cardinality(S) <= ActiveLimit(d)
  <2>1. CASE c \notin S
    BY <1>2, <1>11, <2>1 DEF Narrow
  <2>2. CASE c \in S
    <3>1. Admitted' \in SUBSET Requesters
      BY <1>2, <1>4
    <3>2. Cardinality(S) <= Cardinality(Admitted') /\ Cardinality(S) \in Nat
      BY <3>1, Counting
    <3>3. active = Cardinality(Admitted)
      BY DEF Counted
    <3>4. Cardinality(S) <= ActiveLimit(c)
      BY <1>1, <1>7, <3>2, <3>3
    <3> QED BY <2>2, <3>4
  <2> QED BY <2>1, <2>2
<1>12. ASSUME NEW a \in Accounts, NEW S \in SUBSET (AdmittedOf(a)'), S # {}
       PROVE  \E d \in S : Cardinality(S) <= AccountLimit(d)
  <2>1. CASE c \notin S
    <3>1. S \in SUBSET AdmittedOf(a)
      BY <1>2, <2>1
    <3> QED BY <1>12, <3>1 DEF Narrow
  <2>2. CASE c \in S
    <3>0. a = b
      BY <1>2, <2>2
    <3>1. AdmittedOf(a)' \in SUBSET Requesters
      BY <1>2, <1>4
    <3>2. Cardinality(S) <= Cardinality(AdmittedOf(a)') /\ Cardinality(S) \in Nat
      BY <3>1, Counting
    <3>3. accounts[b] = Cardinality(AdmittedOf(b))
      BY <1>1 DEF Counted
    <3>4. Cardinality(S) <= AccountLimit(c)
      BY <1>1, <1>8, <3>0, <3>2, <3>3
    <3> QED BY <2>2, <3>4
  <2> QED BY <2>1, <2>2
<1>13. Narrow'
  BY <1>11, <1>12 DEF Narrow, ActiveLimit, AccountLimit
<1> QED BY <1>9, <1>10, <1>13

(* A smaller set of admitted requests stays within limits. *)
LEMMA NarrowShrinks ==
    ASSUME Narrow, Admitted' \subseteq Admitted,
           \A a \in Accounts : AdmittedOf(a)' \subseteq AdmittedOf(a)
    PROVE  Narrow'
<1>1. \A S \in SUBSET (Admitted') : S # {} => \E c \in S : Cardinality(S) <= ActiveLimit(c)
  BY DEF Narrow
<1>2. \A a \in Accounts : \A S \in SUBSET (AdmittedOf(a)') :
           S # {} => \E c \in S : Cardinality(S) <= AccountLimit(c)
  BY DEF Narrow
<1> QED BY <1>1, <1>2 DEF Narrow, ActiveLimit, AccountLimit

(* A request that is not admitted moves to another place where it is not, and
   stays counted. *)
LEMMA MovingCounts ==
    ASSUME RequestsAssumption, Shapes, Counted, Narrow, NEW c \in Requesters,
           NEW s \in {"reserved", "checking", "waiting", "leaving"},
           pc[c] \notin {"admitted", "idle"}, pc' = [pc EXCEPT ![c] = s],
           reserved' = reserved, active' = active, accounts' = accounts
    PROVE  Counted' /\ Narrow'
<1>1. c \in Present /\ c \notin Admitted /\ \A a \in Accounts : c \notin AdmittedOf(a)
  BY DEF Present, Admitted, AdmittedOf
<1>2. /\ Present' = Present /\ Admitted' = Admitted
      /\ \A a \in Accounts : AdmittedOf(a)' = AdmittedOf(a)
  <2>1. /\ s \in {"idle", "reserved", "checking", "waiting", "admitted", "leaving"}
        /\ s # "idle" /\ s # "admitted"
    OBVIOUS
  <2>2. /\ Present' = Present \cup {c} /\ Admitted' = Admitted \ {c}
        /\ \A a \in Accounts : AdmittedOf(a)' = AdmittedOf(a) \ {c}
    BY <2>1, Moves
  <2> QED BY <1>1, <2>2
<1>3. Counted'
  BY <1>2 DEF Counted
<1> QED BY <1>2, <1>3, NarrowShrinks

(* Whoever leaves the admitted ones is counted out. *)
LEMMA LeavingCounts ==
    ASSUME RequestsAssumption, Shapes, Counted, Narrow, NEW c \in Requesters,
           pc[c] = "admitted", pc' = [pc EXCEPT ![c] = "leaving"],
           reserved' = reserved, active' = active - 1, accounts' = Taken(c, 0 - 1)
    PROVE  Counted' /\ Narrow' /\ accounts' \in [Accounts -> Nat]
<1> DEFINE b == AccountOf[c]
<1>1. b \in Accounts
  BY LimitsAreNumbers
<1>2. /\ Present' = Present \cup {c} /\ Admitted' = Admitted \ {c}
      /\ \A a \in Accounts : AdmittedOf(a)' = AdmittedOf(a) \ {c}
  BY Moves
<1>3. /\ c \in Present /\ c \in Admitted /\ c \in AdmittedOf(b)
      /\ \A a \in Accounts : a # b => c \notin AdmittedOf(a)
  BY DEF Present, Admitted, AdmittedOf
<1>4. Admitted \in SUBSET Requesters /\ AdmittedOf(b) \in SUBSET Requesters
  BY DEF Admitted, AdmittedOf
<1>5. Present' = Present
  BY <1>2, <1>3
<1>6. \A a \in Accounts : a # b => AdmittedOf(a)' = AdmittedOf(a)
  BY <1>2, <1>3
<1>7. Cardinality(Admitted') = Cardinality(Admitted) - 1
  BY <1>2, <1>3, <1>4, Counting
<1>8. /\ Cardinality(AdmittedOf(b)') = Cardinality(AdmittedOf(b)) - 1
      /\ Cardinality(AdmittedOf(b)) \in Nat /\ Cardinality(AdmittedOf(b)) # 0
  BY <1>1, <1>2, <1>3, <1>4, Counting
<1>9. /\ accounts' \in [Accounts -> Nat] /\ accounts'[b] = accounts[b] - 1
      /\ \A a \in Accounts : a # b => accounts'[a] = accounts[a]
  <2>1. accounts[b] \in Nat /\ accounts[b] # 0 /\ accounts \in [Accounts -> Nat]
    BY <1>1, <1>8 DEF Counted, Shapes
  <2>2. accounts' = [accounts EXCEPT ![b] = accounts[b] + (0 - 1)]
    BY DEF Taken
  <2>3. accounts[b] + (0 - 1) = accounts[b] - 1 /\ accounts[b] - 1 \in Nat
    BY <2>1
  <2> QED BY <1>1, <2>1, <2>2, <2>3
<1>10. Counted'
  <2>1. reserved' = Cardinality(Present')
    BY <1>5 DEF Counted
  <2>2. active' = Cardinality(Admitted')
    BY <1>7 DEF Counted
  <2>3. \A a \in Accounts : accounts'[a] = Cardinality(AdmittedOf(a)')
    BY <1>1, <1>6, <1>8, <1>9 DEF Counted
  <2> QED BY <2>1, <2>2, <2>3 DEF Counted
<1> QED BY <1>2, <1>9, <1>10, NarrowShrinks

-----------------------------------------------------------------------------
(* Every operation keeps the invariant. *)
LEMMA ReserveKeeps ==
    ASSUME RequestsAssumption, RequestsInvariant, NEW c \in Requesters, Reserve(c)
    PROVE  RequestsInvariant'
<1> USE DEF RequestsInvariant
<1>1. pc[c] = "idle" /\ pc' = [pc EXCEPT ![c] = "reserved"] /\ reserved' = reserved + 1
      /\ UNCHANGED <<active, accounts, queue, owed, permit, passed>>
  BY DEF Reserve
<1>2. /\ pc' \in [Requesters -> {"idle", "reserved", "checking", "waiting", "admitted",
                                 "leaving"}]
      /\ \A d \in Requesters : d # c => pc'[d] = pc[d]
      /\ Present' = Present \cup {c} /\ InQueue' = InQueue \ {c}
      /\ Admitted' = Admitted \ {c}
      /\ \A a \in Accounts : AdmittedOf(a)' = AdmittedOf(a) \ {c}
  BY <1>1, Moves
<1>3. /\ c \notin Present /\ c \notin InQueue /\ c \notin Admitted
      /\ \A a \in Accounts : c \notin AdmittedOf(a)
  BY <1>1 DEF Present, InQueue, Admitted, AdmittedOf
<1>4. /\ InQueue' = InQueue /\ Admitted' = Admitted
      /\ \A a \in Accounts : AdmittedOf(a)' = AdmittedOf(a)
  BY <1>2, <1>3
<1>5. Cardinality(Present') = Cardinality(Present) + 1
  <2>1. Present \in SUBSET Requesters
    BY DEF Present
  <2> QED BY <1>2, <1>3, <2>1, Counting
<1>6. Shapes' /\ Counted' /\ Queued' /\ Heads(queue)' /\ PassedStand'
  BY <1>1, <1>2, <1>4, <1>5 DEF Shapes, Counted, Queued, PassedStand
<1>7. Narrow'
  BY <1>4, NarrowShrinks
<1>8. NoLostWakeup'
  <2> SUFFICES ASSUME NEW d \in NextEligible(queue, active, accounts)
               PROVE  d \in owed \/ d \in permit \/ pc'[d] = "checking"
    BY <1>1 DEF NoLostWakeup
  <2>1. d \in Requesters
    BY NextIsFirst DEF Shapes
  <2> QED BY <1>1, <1>2, <2>1 DEF NoLostWakeup
<1> QED BY <1>6, <1>7, <1>8

LEMMA DropReservationKeeps ==
    ASSUME RequestsAssumption, RequestsInvariant, NEW c \in Requesters, DropReservation(c)
    PROVE  RequestsInvariant'
<1> USE DEF RequestsInvariant
<1>1. pc[c] = "leaving" /\ pc' = [pc EXCEPT ![c] = "idle"] /\ reserved' = reserved - 1
      /\ UNCHANGED <<active, accounts, queue, owed, permit, passed>>
  BY DEF DropReservation
<1>2. /\ pc' \in [Requesters -> {"idle", "reserved", "checking", "waiting", "admitted",
                                 "leaving"}]
      /\ \A d \in Requesters : d # c => pc'[d] = pc[d]
      /\ Present' = Present \ {c} /\ InQueue' = InQueue \ {c}
      /\ Admitted' = Admitted \ {c}
      /\ \A a \in Accounts : AdmittedOf(a)' = AdmittedOf(a) \ {c}
  BY <1>1, Moves
<1>3. /\ c \in Present /\ c \notin InQueue /\ c \notin Admitted
      /\ \A a \in Accounts : c \notin AdmittedOf(a)
  BY <1>1 DEF Present, InQueue, Admitted, AdmittedOf
<1>4. /\ InQueue' = InQueue /\ Admitted' = Admitted
      /\ \A a \in Accounts : AdmittedOf(a)' = AdmittedOf(a)
  BY <1>2, <1>3
<1>5. Cardinality(Present') = Cardinality(Present) - 1
  <2>1. Present \in SUBSET Requesters
    BY DEF Present
  <2> QED BY <1>2, <1>3, <2>1, Counting
<1>6. Shapes' /\ Counted' /\ Queued' /\ Heads(queue)' /\ PassedStand'
  BY <1>1, <1>2, <1>4, <1>5 DEF Shapes, Counted, Queued, PassedStand
<1>7. Narrow'
  BY <1>4, NarrowShrinks
<1>8. NoLostWakeup'
  <2> SUFFICES ASSUME NEW d \in NextEligible(queue, active, accounts)
               PROVE  d \in owed \/ d \in permit \/ pc'[d] = "checking"
    BY <1>1 DEF NoLostWakeup
  <2>1. d \in Requesters
    BY NextIsFirst DEF Shapes
  <2> QED BY <1>1, <1>2, <2>1 DEF NoLostWakeup
<1> QED BY <1>6, <1>7, <1>8

LEMMA NotifyKeeps ==
    ASSUME RequestsAssumption, RequestsInvariant, NEW c \in Requesters, Notify(c)
    PROVE  RequestsInvariant'
<1> USE DEF RequestsInvariant
<1>1. /\ c \in owed /\ owed' = owed \ {c} /\ permit' = permit \cup {c}
      /\ UNCHANGED <<reserved, active, accounts, queue, pc, passed>>
  BY DEF Notify, queueVars
<1>2. /\ Present' = Present /\ InQueue' = InQueue /\ Admitted' = Admitted
      /\ \A a \in Accounts : AdmittedOf(a)' = AdmittedOf(a)
  BY <1>1 DEF Present, InQueue, Admitted, AdmittedOf
<1>3. Shapes' /\ Counted' /\ Queued' /\ Heads(queue)' /\ PassedStand'
  BY <1>1, <1>2 DEF Shapes, Counted, Queued, PassedStand
<1>4. Narrow'
  BY <1>2, NarrowShrinks
<1>5. NoLostWakeup'
  <2>1. \A d \in NextEligible(queue, active, accounts) :
            d \in owed' \/ d \in permit' \/ pc[d] = "checking"
    BY <1>1 DEF NoLostWakeup
  <2> QED BY <1>1, <2>1 DEF NoLostWakeup
<1> QED BY <1>3, <1>4, <1>5

LEMMA WakeKeeps ==
    ASSUME RequestsAssumption, RequestsInvariant, NEW c \in Requesters, Wake(c)
    PROVE  RequestsInvariant'
<1> USE DEF RequestsInvariant
<1>1. /\ pc[c] = "waiting" /\ pc' = [pc EXCEPT ![c] = "checking"] /\ permit' = permit \ {c}
      /\ UNCHANGED <<reserved, active, accounts, queue, owed, passed>>
  BY DEF Wake, queueVars
<1>2. /\ pc' \in [Requesters -> {"idle", "reserved", "checking", "waiting", "admitted",
                                 "leaving"}]
      /\ pc'[c] = "checking" /\ \A d \in Requesters : d # c => pc'[d] = pc[d]
      /\ InQueue' = InQueue \cup {c}
  BY <1>1, Moves
<1>3. InQueue' = InQueue
  BY <1>1, <1>2 DEF InQueue
<1>4. Counted' /\ Narrow'
  BY <1>1, MovingCounts
<1>5. Shapes' /\ Queued' /\ Heads(queue)' /\ PassedStand'
  BY <1>1, <1>2, <1>3 DEF Shapes, Queued, PassedStand
<1>6. NoLostWakeup'
  <2> SUFFICES ASSUME NEW d \in NextEligible(queue, active, accounts)
               PROVE  d \in owed \/ d \in permit' \/ pc'[d] = "checking"
    BY <1>1 DEF NoLostWakeup
  <2>1. d \in Requesters
    BY NextIsFirst DEF Shapes
  <2> QED BY <1>1, <1>2, <2>1 DEF NoLostWakeup
<1> QED BY <1>4, <1>5, <1>6

(* A release rotates the account behind the others. *)
LEMMA ReleaseAdmissionKeeps ==
    ASSUME RequestsAssumption, RequestsInvariant, NEW c \in Requesters, ReleaseAdmission(c)
    PROVE  RequestsInvariant'
<1> USE DEF RequestsInvariant
<1>1. /\ pc[c] = "admitted" /\ pc' = [pc EXCEPT ![c] = "leaving"]
      /\ active' = active - 1 /\ accounts' = Taken(c, 0 - 1)
      /\ queue' = Rotate(queue, AccountOf[c])
      /\ owed' = owed \cup NextEligible(queue', active', accounts')
      /\ passed' = StillPassed(queue', AccountOf[c])
      /\ reserved' = reserved /\ permit' = permit
  BY DEF ReleaseAdmission
<1>2. /\ pc' \in [Requesters -> {"idle", "reserved", "checking", "waiting", "admitted",
                                 "leaving"}]
      /\ InQueue' = InQueue \ {c}
  BY <1>1, Moves
<1>3. InQueue' = InQueue
  BY <1>1, <1>2 DEF InQueue
<1>4. Counted' /\ Narrow' /\ accounts' \in [Accounts -> Nat]
  BY <1>1, LeavingCounts
<1>5. /\ queue' \in Seq(Entry) /\ Waits(queue') = Waits(queue)
      /\ Distinct(queue') /\ Heads(queue')
      /\ \A d, y : AccountOf[d] # AccountOf[c] /\ Before(queue, d, y) => Before(queue', d, y)
  BY <1>1, RotateKeeps DEF Shapes, Queued
<1>6. Queued'
  BY <1>3, <1>5 DEF Queued
<1>7. PassedStand'
  BY <1>1, <1>5 DEF PassedStand, StillPassed
<1>8. Shapes'
  <2>1. NextEligible(queue', active', accounts') \subseteq Requesters
    BY <1>5, NextIsFirst
  <2> QED BY <1>1, <1>2, <1>4, <1>5, <2>1 DEF Shapes, StillPassed
<1>9. NoLostWakeup'
  BY <1>1 DEF NoLostWakeup
<1> QED BY <1>4, <1>5, <1>6, <1>7, <1>8, <1>9

LEMMA CancelKeeps ==
    ASSUME RequestsAssumption, RequestsInvariant, NEW c \in Requesters, Cancel(c)
    PROVE  RequestsInvariant'
<1> USE DEF RequestsInvariant
<1>1. /\ pc[c] = "waiting" /\ pc' = [pc EXCEPT ![c] = "leaving"]
      /\ queue' = RemoveWaiting(queue, c)
      /\ owed' = (owed \ {c}) \cup NextEligible(queue', active, accounts)
      /\ permit' = permit \ {c} /\ passed' = {p \in passed : p[1] # c}
      /\ UNCHANGED <<reserved, active, accounts>>
  BY DEF Cancel
<1>2. /\ pc' \in [Requesters -> {"idle", "reserved", "checking", "waiting", "admitted",
                                 "leaving"}]
      /\ InQueue' = InQueue \ {c}
  BY <1>1, Moves
<1>3. Counted' /\ Narrow'
  BY <1>1, MovingCounts
<1>4. /\ queue' \in Seq(Entry) /\ Waits(queue') = Waits(queue) \ {c}
      /\ Distinct(queue') /\ Heads(queue')
      /\ \A d, y : Before(queue, d, y) => Before(queue', d, y)
  BY <1>1, RemoveKeeps DEF Shapes, Queued
<1>5. Queued'
  BY <1>2, <1>4 DEF Queued
<1>6. PassedStand'
  BY <1>1, <1>4 DEF PassedStand
<1>7. Shapes'
  <2>1. NextEligible(queue', active, accounts) \subseteq Requesters
    BY <1>4, NextIsFirst
  <2> QED BY <1>1, <1>2, <1>4, <2>1 DEF Shapes
<1>8. NoLostWakeup'
  BY <1>1 DEF NoLostWakeup
<1> QED BY <1>3, <1>4, <1>5, <1>6, <1>7, <1>8

(* A newcomer goes past the queue only when the scan finds nobody; otherwise it
   is refused, or waits at the end and checks once more. *)
LEMMA AdmitKeeps ==
    ASSUME RequestsAssumption, RequestsInvariant, NEW c \in Requesters, Admit(c)
    PROVE  RequestsInvariant'
<1> USE DEF RequestsInvariant
<1> DEFINE pending == Cardinality(PlacesOf(queue, AccountOf[c]))
<1>0. /\ pc[c] = "reserved" /\ UNCHANGED <<reserved, owed, permit, passed>>
      /\ queue \in Seq(Entry)
  BY DEF Admit, Shapes
<1>1. CASE /\ ~MustWait(c)
           /\ active' = active + 1 /\ accounts' = Taken(c, 1)
           /\ pc' = [pc EXCEPT ![c] = "admitted"] /\ UNCHANGED queue
  <2>1. /\ ActiveLimit(c) \in Nat /\ AccountLimit(c) \in Nat /\ AccountOf[c] \in Accounts
        /\ active \in Nat /\ accounts \in [Accounts -> Nat]
    <3>1. Admitted \in SUBSET Requesters
      BY DEF Admitted
    <3> QED BY <3>1, LimitsAreNumbers, Counting DEF Shapes, Counted
  <2>2. /\ active < ActiveLimit(c) /\ accounts[AccountOf[c]] < AccountLimit(c)
        /\ NextEligible(queue, active, accounts) = {}
    BY <1>1, <2>1 DEF MustWait
  <2>3. Counted' /\ Narrow' /\ accounts' \in [Accounts -> Nat]
    BY <1>0, <1>1, <2>2, AdmittingCounts
  <2>4. /\ pc' \in [Requesters -> {"idle", "reserved", "checking", "waiting", "admitted",
                                   "leaving"}]
        /\ InQueue' = InQueue \ {c}
    BY <1>1, Moves
  <2>5. InQueue' = InQueue
    BY <1>0, <2>4 DEF InQueue
  <2>6. Shapes' /\ Queued' /\ Heads(queue)' /\ PassedStand'
    BY <1>0, <1>1, <2>3, <2>4, <2>5 DEF Shapes, Queued, PassedStand
  <2>7. NextEligible(queue', active', accounts') = {}
    <3> SUFFICES ASSUME NEW d \in NextEligible(queue', active', accounts') PROVE FALSE
      OBVIOUS
    <3>1. PICK j \in DOMAIN queue : /\ Eligible(queue[j], active', accounts')
                                    /\ queue[j].client = d /\ d \in Requesters
      BY <1>0, <1>1, NextIsFirst
    <3>2. queue[j].client \in Requesters
      BY <3>1
    <3> DEFINE x == queue[j].client
    <3>3. ActiveLimit(x) \in Nat /\ AccountLimit(x) \in Nat /\ AccountOf[x] \in Accounts
      BY <3>2, LimitsAreNumbers
    <3>4. \A a \in Accounts : accounts[a] \in Nat /\ accounts'[a] \in Nat /\ accounts[a] <= accounts'[a]
      BY <1>1, <2>1 DEF Taken
    <3>5. Eligible(queue[j], active, accounts)
      BY <1>1, <2>1, <3>1, <3>3, <3>4 DEF Eligible
    <3> QED BY <1>0, <2>2, <3>5, SomeoneIsNext
  <2>8. NoLostWakeup'
    BY <2>7 DEF NoLostWakeup
  <2> QED BY <2>3, <2>6, <2>8
<1>2. CASE pc' = [pc EXCEPT ![c] = "leaving"] /\ UNCHANGED <<active, accounts, queue>>
  <2>1. /\ pc' \in [Requesters -> {"idle", "reserved", "checking", "waiting", "admitted",
                                   "leaving"}]
        /\ \A d \in Requesters : d # c => pc'[d] = pc[d]
        /\ InQueue' = InQueue \ {c}
    BY <1>2, Moves
  <2>2. InQueue' = InQueue
    BY <1>0, <2>1 DEF InQueue
  <2>3. Counted' /\ Narrow'
    BY <1>0, <1>2, MovingCounts
  <2>4. Shapes' /\ Queued' /\ Heads(queue)' /\ PassedStand'
    BY <1>0, <1>2, <2>1, <2>2 DEF Shapes, Queued, PassedStand
  <2>5. NoLostWakeup'
    <3> SUFFICES ASSUME NEW d \in NextEligible(queue, active, accounts)
                 PROVE  d \in owed \/ d \in permit \/ pc'[d] = "checking"
      BY <1>0, <1>2 DEF NoLostWakeup
    <3>1. d \in Requesters
      BY <1>0, NextIsFirst
    <3> QED BY <1>0, <2>1, <3>1 DEF NoLostWakeup
  <2> QED BY <2>3, <2>4, <2>5
<1>3. CASE /\ queue' = Append(queue, [client |-> c, head |-> pending = 0])
           /\ pc' = [pc EXCEPT ![c] = "checking"] /\ UNCHANGED <<active, accounts>>
  <2>1. /\ pc' \in [Requesters -> {"idle", "reserved", "checking", "waiting", "admitted",
                                   "leaving"}]
        /\ pc'[c] = "checking" /\ \A d \in Requesters : d # c => pc'[d] = pc[d]
        /\ InQueue' = InQueue \cup {c}
    BY <1>3, Moves
  <2>2. Counted' /\ Narrow'
    BY <1>0, <1>3, MovingCounts
  <2>3. c \notin Waits(queue)
    BY <1>0 DEF Queued, InQueue
  <2>4. (pending = 0) <=> PlacesOf(queue, AccountOf[c]) = {}
    <3>1. PlacesOf(queue, AccountOf[c]) \in SUBSET DOMAIN queue
      BY DEF PlacesOf
    <3>2. IsFiniteSet(PlacesOf(queue, AccountOf[c]))
      BY <1>0, <3>1, KeptFacts
    <3> QED BY <3>2, FS_EmptySet
  <2>5. PICK e \in Entry : /\ queue' = Append(queue, e) /\ e.client = c
                           /\ e.head <=> PlacesOf(queue, AccountOf[c]) = {}
    <3> DEFINE e == [client |-> c, head |-> pending = 0]
    <3> HIDE DEF pending
    <3>1. e \in Entry /\ e.client = c /\ (e.head <=> pending = 0)
      BY DEF Entry
    <3>2. queue' = Append(queue, e)
      BY <1>3
    <3> HIDE DEF e
    <3> QED BY <2>4, <3>1, <3>2
  <2>6. /\ queue' \in Seq(Entry) /\ Waits(queue') = Waits(queue) \cup {c}
        /\ Distinct(queue') /\ Heads(queue')
        /\ \A d, y : d # c /\ d \in Waits(queue) /\ Before(queue, d, y)
                         => Before(queue', d, y)
    <3>1. Distinct(queue) /\ Heads(queue)
      BY DEF Queued
    <3> QED BY <1>0, <2>3, <2>5, <3>1, AppendKeeps
  <2>7. Queued'
    BY <2>1, <2>6 DEF Queued
  <2>8. Shapes' /\ PassedStand'
    BY <1>0, <1>3, <2>1, <2>3, <2>6 DEF Shapes, PassedStand
  <2>9. NoLostWakeup'
    <3> SUFFICES ASSUME NEW d \in NextEligible(queue', active', accounts')
                 PROVE  d \in owed' \/ d \in permit' \/ pc'[d] = "checking"
      BY DEF NoLostWakeup
    <3>0. d \in NextEligible(queue', active, accounts)
      BY <1>3
    <3>1. PICK j \in DOMAIN queue' :
              /\ queue'[j].client = d /\ d \in Requesters
              /\ Eligible(queue'[j], active, accounts)
              /\ \A k \in 1..(j - 1) : ~Eligible(queue'[k], active, accounts)
      BY <2>6, <3>0, NextIsFirst
    <3>2. CASE d = c
      BY <2>1, <3>2
    <3>3. CASE d # c
      <4>1. /\ DOMAIN queue = 1..Len(queue) /\ Len(queue) \in Nat
            /\ DOMAIN queue' = 1..(Len(queue) + 1)
            /\ queue'[Len(queue) + 1].client = c
            /\ \A i \in 1..Len(queue) : queue'[i] = queue[i]
        BY <1>0, <2>5
      <4>2. j \in DOMAIN queue /\ queue'[j] = queue[j]
        BY <3>1, <3>3, <4>1
      <4>3. \A k \in 1..(j - 1) : queue'[k] = queue[k]
        BY <4>1, <4>2
      <4>4. d \in NextEligible(queue, active, accounts)
        BY <3>1, <4>2, <4>3 DEF NextEligible
      <4> QED BY <1>0, <2>1, <3>1, <3>3, <4>4 DEF NoLostWakeup
    <3> QED BY <3>2, <3>3
  <2> QED BY <2>2, <2>6, <2>7, <2>8, <2>9
<1> QED BY <1>1, <1>2, <1>3 DEF Admit

(* The waiter that is next is admitted, and tells whoever is next then. *)
LEMMA CheckKeeps ==
    ASSUME RequestsAssumption, RequestsInvariant, NEW c \in Requesters, Check(c)
    PROVE  RequestsInvariant'
<1> USE DEF RequestsInvariant
<1> DEFINE b == AccountOf[c]
<1>0. pc[c] = "checking" /\ reserved' = reserved /\ queue \in Seq(Entry)
  BY DEF Check, Shapes
<1>1. CASE c \in NextEligible(queue, active, accounts)
  <2>0. AdmitWaiting(c)
    BY <1>1 DEF Check
  <2>1. /\ pc' = [pc EXCEPT ![c] = "admitted"]
        /\ queue' = Rotate(RemoveWaiting(queue, c), b)
        /\ active' = active + 1 /\ accounts' = Taken(c, 1)
        /\ owed' = (owed \ {c}) \cup NextEligible(queue', active', accounts')
        /\ permit' = permit \ {c}
        /\ passed' = StillPassed(queue', b) \cup PassedBy(queue', b)
    BY <2>0 DEF AdmitWaiting
  <2>2. active < ActiveLimit(c) /\ accounts[b] < AccountLimit(c)
    BY <1>0, <1>1, NextIsFirst DEF Eligible
  <2>3. Counted' /\ Narrow' /\ accounts' \in [Accounts -> Nat]
    BY <1>0, <2>1, <2>2, AdmittingCounts
  <2>4. /\ pc' \in [Requesters -> {"idle", "reserved", "checking", "waiting", "admitted",
                                   "leaving"}]
        /\ InQueue' = InQueue \ {c}
    BY <2>1, Moves
  <2> DEFINE q == RemoveWaiting(queue, c)
  <2>5. /\ q \in Seq(Entry) /\ Waits(q) = Waits(queue) \ {c} /\ Distinct(q) /\ Heads(q)
        /\ \A d, y : Before(queue, d, y) => Before(q, d, y)
    BY <1>0, RemoveKeeps DEF Queued
  <2>6. queue' = Rotate(q, b)
    BY <2>1
  <2> HIDE DEF q
  <2>7. /\ queue' \in Seq(Entry) /\ Waits(queue') = Waits(q)
        /\ Distinct(queue') /\ Heads(queue')
        /\ \A d, y : AccountOf[d] # b /\ (y = b \/ Before(q, d, y)) => Before(queue', d, y)
    BY <2>5, <2>6, RotateKeeps
  <2>8. Queued'
    BY <2>4, <2>5, <2>7 DEF Queued
  <2>9. PassedStand'
    <3> SUFFICES ASSUME NEW d \in Requesters, NEW y \in Accounts, <<d, y>> \in passed'
                 PROVE  d \in Waits(queue') /\ Before(queue', d, y)
      BY DEF PassedStand
    <3>1. CASE <<d, y>> \in StillPassed(queue', b)
      BY <2>5, <2>7, <3>1 DEF PassedStand, StillPassed
    <3>2. CASE <<d, y>> \in PassedBy(queue', b)
      BY <2>7, <3>2 DEF PassedBy
    <3> QED BY <2>1, <3>1, <3>2
  <2>10. Shapes'
    <3>1. NextEligible(queue', active', accounts') \subseteq Requesters
      BY <2>7, NextIsFirst
    <3>2. Waits(queue') \subseteq Requesters /\ b \in Accounts
      BY <2>4, <2>8, LimitsAreNumbers DEF Queued, InQueue
    <3>3. passed' \subseteq Requesters \X Accounts
      BY <2>1, <3>2 DEF Shapes, StillPassed, PassedBy
    <3> QED BY <2>1, <2>3, <2>4, <2>7, <3>1, <3>3 DEF Shapes
  <2>11. NoLostWakeup'
    BY <2>1 DEF NoLostWakeup
  <2> QED BY <2>3, <2>7, <2>8, <2>9, <2>10, <2>11
<1>2. CASE c \notin NextEligible(queue, active, accounts)
  <2>1. /\ pc' = [pc EXCEPT ![c] = "waiting"]
        /\ UNCHANGED <<active, accounts, queue, owed, permit, passed>>
    BY <1>2 DEF Check
  <2>2. /\ pc' \in [Requesters -> {"idle", "reserved", "checking", "waiting", "admitted",
                                   "leaving"}]
        /\ \A d \in Requesters : d # c => pc'[d] = pc[d]
        /\ InQueue' = InQueue \cup {c}
    BY <2>1, Moves
  <2>3. InQueue' = InQueue
    BY <1>0, <2>2 DEF InQueue
  <2>4. Counted' /\ Narrow'
    BY <1>0, <2>1, MovingCounts
  <2>5. Shapes' /\ Queued' /\ Heads(queue)' /\ PassedStand'
    BY <2>1, <2>2, <2>3 DEF Shapes, Queued, PassedStand
  <2>6. NoLostWakeup'
    <3> SUFFICES ASSUME NEW d \in NextEligible(queue, active, accounts)
                 PROVE  d \in owed \/ d \in permit \/ pc'[d] = "checking"
      BY <2>1 DEF NoLostWakeup
    <3>1. d \in Requesters /\ d # c
      BY <1>0, <1>2, NextIsFirst
    <3> QED BY <2>2, <3>1 DEF NoLostWakeup
  <2> QED BY <2>4, <2>5, <2>6
<1> QED BY <1>1, <1>2

-----------------------------------------------------------------------------
LEMMA RequestsAtInit ==
    ASSUME RequestsAssumption, RequestsInit
    PROVE  RequestsInvariant
<1>1. Present = {} /\ InQueue = {} /\ Admitted = {} /\ \A a \in Accounts : AdmittedOf(a) = {}
  BY DEF RequestsInit, Present, InQueue, Admitted, AdmittedOf
<1>2. Cardinality({}) = 0
  BY FS_EmptySet
<1>3. queue \in Seq(Entry) /\ DOMAIN queue = {} /\ Waits(queue) = {}
  BY DEF RequestsInit, Waits
<1>4. Shapes
  BY <1>3 DEF RequestsInit, Shapes
<1>5. Counted
  BY <1>1, <1>2 DEF RequestsInit, Counted
<1>6. Queued /\ Heads(queue) /\ PassedStand
  BY <1>1, <1>3 DEF RequestsInit, Queued, Distinct, Heads, PassedStand
<1>7. Narrow
  BY <1>1 DEF Narrow
<1>8. NoLostWakeup
  BY <1>3 DEF NoLostWakeup, NextEligible
<1> QED BY <1>4, <1>5, <1>6, <1>7, <1>8 DEF RequestsInvariant

LEMMA RequestsKeep ==
    ASSUME RequestsAssumption, RequestsInvariant, [RequestsNext]_requestVars
    PROVE  RequestsInvariant'
<1>1. CASE UNCHANGED requestVars
  <2>1. UNCHANGED <<reserved, active, accounts, queue, pc, owed, permit, passed>>
    BY <1>1 DEF requestVars, queueVars
  <2>2. Present' = Present /\ InQueue' = InQueue /\ Admitted' = Admitted
        /\ \A a \in Accounts : AdmittedOf(a)' = AdmittedOf(a)
    BY <2>1 DEF Present, InQueue, Admitted, AdmittedOf
  <2>3. Shapes' /\ Counted' /\ Queued' /\ Heads(queue)' /\ PassedStand'
    BY <2>1, <2>2 DEF RequestsInvariant, Shapes, Counted, Queued, PassedStand
  <2>4. Narrow'
    BY <2>2, NarrowShrinks DEF RequestsInvariant
  <2>5. NoLostWakeup'
    BY <2>1 DEF RequestsInvariant, NoLostWakeup
  <2> QED BY <2>3, <2>4, <2>5 DEF RequestsInvariant
<1>2. CASE RequestsNext
  BY <1>2, ReserveKeeps, AdmitKeeps, CheckKeeps, NotifyKeeps, WakeKeeps, CancelKeeps,
     ReleaseAdmissionKeeps, DropReservationKeeps DEF RequestsNext
<1> QED BY <1>1, <1>2

(* RequestQueue (service/requests.rs): however requests arrive, wait, are woken,
   cancelled and finish, the counters and the queue agree with the requests there
   are, admitted work is within the limits of one of its own requests, each
   account has exactly its first waiter flagged as head, and the next eligible
   waiter has been told or is about to look. *)
THEOREM QueueStaysConsistent ==
    ASSUME RequestsAssumption
    PROVE  RequestsSpec => []QueueConsistent
<1>1. RequestsInvariant => QueueConsistent
  <2> SUFFICES ASSUME RequestsInvariant PROVE QueueConsistent
    OBVIOUS
  <2> USE DEF RequestsInvariant
  <2>1. /\ Present \in SUBSET Requesters /\ Admitted \in SUBSET Requesters
        /\ \A a \in Accounts : AdmittedOf(a) \in SUBSET Requesters
    BY DEF Present, Admitted, AdmittedOf
  <2>2. \A A \in SUBSET Requesters : Cardinality(A) \in 0..Cardinality(Requesters)
    BY Counting
  <2>3. RequestsTyped
    <3>1. reserved \in 0..Cardinality(Requesters) /\ active \in 0..Cardinality(Requesters)
      BY <2>1, <2>2 DEF Counted
    <3>2. \A a \in Accounts : accounts[a] \in 0..Cardinality(Requesters)
      BY <2>1, <2>2 DEF Counted
    <3> QED BY <3>1, <3>2 DEF RequestsTyped, Shapes
  <2>4. Accounted
    <3>1. Len(queue) = Cardinality(Waits(queue))
      BY DistinctCounts DEF Shapes, Queued
    <3> QED BY <3>1 DEF Accounted, Counted, Queued, Present, InQueue
  <2>5. WithinLimits
    <3>1. Admitted # {} => \E c \in Admitted : Cardinality(Admitted) <= ActiveLimit(c)
      BY DEF Narrow
    <3>2. \A a \in Accounts : AdmittedOf(a) # {} =>
              \E c \in AdmittedOf(a) : Cardinality(AdmittedOf(a)) <= AccountLimit(c)
      BY DEF Narrow
    <3> QED BY <3>1, <3>2 DEF WithinLimits, Counted
  <2>6. HeadsAreFirst
    BY DEF Heads, HeadsAreFirst, Account
  <2> QED BY <2>3, <2>4, <2>5, <2>6 DEF QueueConsistent
<1>2. RequestsInit => RequestsInvariant
  BY RequestsAtInit
<1>3. RequestsInvariant /\ [RequestsNext]_requestVars => RequestsInvariant'
  BY RequestsKeep
<1> QED BY <1>1, <1>2, <1>3, PTL DEF RequestsSpec

(* Who is admitted in a step: a waiter the scan found, or a newcomer while it
   finds nobody. *)
LEMMA WhoIsAdmitted ==
    ASSUME RequestsAssumption, RequestsInvariant, RequestsNext,
           NEW c \in Requesters, pc'[c] = "admitted"
    PROVE  /\ pc[c] = "checking" => c \in NextEligible(queue, active, accounts)
           /\ pc[c] = "reserved" => NextEligible(queue, active, accounts) = {}
<1>0. pc \in [Requesters -> {"idle", "reserved", "checking", "waiting", "admitted", "leaving"}]
  BY DEF RequestsInvariant, Shapes
<1>1. PICK d \in Requesters :
          \/ Reserve(d) \/ Admit(d) \/ Check(d) \/ Notify(d) \/ Wake(d)
          \/ Cancel(d) \/ ReleaseAdmission(d) \/ DropReservation(d)
  BY DEF RequestsNext
<1>2. CASE pc' = pc
  BY <1>2
<1>3. CASE \E s \in {"reserved", "checking", "waiting", "leaving", "idle"} :
              pc' = [pc EXCEPT ![d] = s]
  <2>1. c # d /\ pc'[c] = pc[c]
    BY <1>0, <1>3
  <2> QED BY <2>1
<1>4. CASE Admit(d) /\ ~MustWait(d) /\ pc[d] = "reserved" /\ pc' = [pc EXCEPT ![d] = "admitted"]
  <2>1. CASE c = d
    BY <1>4, <2>1 DEF MustWait
  <2>2. CASE c # d
    BY <1>0, <1>4, <2>2
  <2> QED BY <2>1, <2>2
<1>5. CASE /\ Check(d) /\ pc[d] = "checking" /\ pc' = [pc EXCEPT ![d] = "admitted"]
           /\ d \in NextEligible(queue, active, accounts)
  <2>1. CASE c = d
    BY <1>5, <2>1
  <2>2. CASE c # d
    BY <1>0, <1>5, <2>2
  <2> QED BY <2>1, <2>2
<1>6. CASE Reserve(d)
  BY <1>3, <1>6 DEF Reserve
<1>7. CASE Admit(d)
  BY <1>3, <1>4, <1>7 DEF Admit
<1>8. CASE Check(d)
  BY <1>3, <1>5, <1>8 DEF Check, AdmitWaiting
<1>9. CASE Notify(d)
  BY <1>2, <1>9 DEF Notify
<1>10. CASE Wake(d)
  BY <1>3, <1>10 DEF Wake
<1>11. CASE Cancel(d)
  BY <1>3, <1>11 DEF Cancel
<1>12. CASE ReleaseAdmission(d)
  BY <1>3, <1>12 DEF ReleaseAdmission
<1>13. CASE DropReservation(d)
  BY <1>3, <1>13 DEF DropReservation
<1> QED BY <1>1, <1>6, <1>7, <1>8, <1>9, <1>10, <1>11, <1>12, <1>13

(* RequestQueue::admit: nobody overtakes within an account, accounts take turns,
   and a newcomer passes the queue only when nobody in it could go. *)
THEOREM AdmissionStaysFair ==
    ASSUME RequestsAssumption
    PROVE  RequestsSpec => AdmissionIsFair
<1> DEFINE Fair == FirstInFirstAdmitted /\ TakesTurns /\ NewcomersYield
<1>1. ASSUME RequestsInvariant, RequestsNext PROVE Fair
  <2>0. queue \in Seq(Entry) /\ DOMAIN queue = 1..Len(queue) /\ Len(queue) \in Nat
    BY <1>1 DEF RequestsInvariant, Shapes
  <2>1. ASSUME NEW c \in Requesters, pc[c] = "checking", pc'[c] = "admitted"
        PROVE  \E j \in DOMAIN queue :
                   /\ queue[j].client = c /\ Eligible(queue[j], active, accounts)
                   /\ \A k \in 1..(j - 1) : ~Eligible(queue[k], active, accounts)
    BY <1>1, <2>0, <2>1, WhoIsAdmitted, NextIsFirst
  <2>2. FirstInFirstAdmitted
    <3> SUFFICES ASSUME NEW c \in Requesters, pc[c] = "checking", pc'[c] = "admitted"
                 PROVE  \E i \in DOMAIN queue :
                            /\ queue[i].client = c
                            /\ \A k \in 1..(i - 1) : AccountOf[queue[k].client] # AccountOf[c]
      BY DEF FirstInFirstAdmitted
    <3>1. PICK j \in DOMAIN queue : queue[j].client = c /\ Eligible(queue[j], active, accounts)
      BY <2>1
    <3> QED BY <1>1, <3>1 DEF RequestsInvariant, Heads, Account, Eligible
  <2>3. TakesTurns
    <3> SUFFICES ASSUME NEW c \in Requesters, pc[c] = "checking", pc'[c] = "admitted",
                        NEW i \in DOMAIN queue, Eligible(queue[i], active, accounts),
                        <<queue[i].client, AccountOf[c]>> \in passed
                 PROVE  FALSE
      BY DEF TakesTurns
    <3>1. PICK j \in DOMAIN queue :
                   /\ queue[j].client = c
                   /\ \A k \in 1..(j - 1) : ~Eligible(queue[k], active, accounts)
      BY <2>1
    <3>2. queue[i] \in Entry /\ AccountOf[c] \in Accounts
      BY <2>0, LimitsAreNumbers
    <3>3. Before(queue, queue[i].client, AccountOf[c])
      BY <1>1, <3>2 DEF RequestsInvariant, PassedStand, Entry
    <3>4. i < j
      BY <3>1, <3>3 DEF Before, Account
    <3>5. i \in 1..(j - 1)
      BY <2>0, <3>4
    <3> QED BY <3>1, <3>5
  <2>4. NewcomersYield
    BY <1>1, <2>0, WhoIsAdmitted, SomeoneIsNext DEF NewcomersYield
  <2> QED BY <2>2, <2>3, <2>4
<1>2. RequestsInvariant /\ [RequestsNext]_requestVars => [Fair]_requestVars
  BY <1>1
<1>3. RequestsInit => RequestsInvariant
  BY RequestsAtInit
<1>4. RequestsInvariant /\ [RequestsNext]_requestVars => RequestsInvariant'
  BY RequestsKeep
<1> QED BY <1>2, <1>3, <1>4, PTL DEF RequestsSpec, AdmissionIsFair

-----------------------------------------------------------------------------
(* The connection pool. *)
Leased(c) == lease[c] = "leased" => conn[c] \in Connection
Places ==
    /\ IsFiniteSet(holders) /\ holders \subseteq Clients /\ line \in Seq(Clients)
    /\ holders # {} => \E c \in Clients : Cardinality(holders) <= Limit[c]
PoolInvariant ==
    /\ PoolTyped /\ Places /\ Connected \subseteq holders
    /\ ConnectionsBounded /\ IdleOwned /\ LeaseFits
    /\ \A c \in Clients : Leased(c)

(* What is left of the idle connections after some of them were closed. *)
Rest(s, q) ==
    /\ s \in Seq(Connection) /\ Len(s) <= Len(q)
    /\ \A i \in DOMAIN s : \E j \in DOMAIN q : s[i] = q[j]

LEMMA RestOfRest ==
    ASSUME NEW q \in Seq(Connection), NEW s, NEW t, Rest(s, q), Rest(t, s)
    PROVE  Rest(t, q)
BY DEF Rest

LEMMA KeptIsRest ==
    ASSUME NEW q \in Seq(Connection), NEW S \in SUBSET DOMAIN q
    PROVE  /\ Rest(Kept(q, S), q)
           /\ \A i \in DOMAIN Kept(q, S) : \E j \in S : Kept(q, S)[i] = q[j]
<1>1. /\ Cardinality(S) <= Len(q) /\ Kept(q, S) \in Seq(Connection)
      /\ Len(Kept(q, S)) = Cardinality(S) /\ DOMAIN Kept(q, S) = 1..Cardinality(S)
      /\ \A j \in 1..Cardinality(S) : Nth(S, j) \in S /\ Kept(q, S)[j] = q[Nth(S, j)]
  BY KeptFacts
<1> QED BY <1>1 DEF Rest

LEMMA SwapRemoveIsRest ==
    ASSUME NEW q \in Seq(Connection), NEW p \in DOMAIN q
    PROVE  Rest(SwapRemove(q, p), q) /\ Len(SwapRemove(q, p)) = Len(q) - 1
<1>1. Len(q) \in Nat /\ Len(q) >= 1 /\ DOMAIN q = 1..Len(q) /\ \A i \in DOMAIN q : q[i] \in Connection
  OBVIOUS
<1> DEFINE n == Len(q) - 1
           s == SwapRemove(q, p)
<1>2. s = [i \in 1..n |-> IF i = p THEN q[Len(q)] ELSE q[i]]
  BY DEF SwapRemove
<1>3. n \in Nat /\ Len(q) \in DOMAIN q /\ \A i \in 1..n : i \in DOMAIN q
  BY <1>1
<1>4. \A i \in 1..n : \E j \in DOMAIN q : s[i] = q[j]
  BY <1>2, <1>3
<1>5. s \in Seq(Connection) /\ Len(s) = n /\ DOMAIN s = 1..n
  BY <1>1, <1>2, <1>3
<1> QED BY <1>1, <1>4, <1>5 DEF Rest

LEMMA TruncateIsRest ==
    ASSUME NEW q \in Seq(Connection), NEW n \in Nat
    PROVE  Rest(Truncate(q, n), q) /\ Len(Truncate(q, n)) <= n
<1> DEFINE m == IF n < Len(q) THEN n ELSE Len(q)
           s == SubSeq(q, 1, m)
<1>1. Len(q) \in Nat /\ m \in Nat /\ m <= n /\ m <= Len(q) /\ DOMAIN q = 1..Len(q)
  OBVIOUS
<1>2. Truncate(q, n) = s
  BY DEF Truncate
<1> HIDE DEF m
<1>3. s \in Seq(Connection) /\ Len(s) = m /\ \A i \in 1..m : s[i] = q[i]
  BY <1>1
<1> HIDE DEF s
<1>4. DOMAIN s = 1..m /\ \A i \in 1..m : i \in DOMAIN q
  BY <1>1, <1>3
<1> QED BY <1>1, <1>2, <1>3, <1>4 DEF Rest

(* A set of places has a last one. *)
LEMMA LastPlace ==
    ASSUME NEW n \in Nat, NEW T \in SUBSET (1..n), T # {}
    PROVE  \E x \in T : \A y \in T : y <= x
<1> DEFINE D == {n - y : y \in T}
<1>1. D \subseteq Nat /\ D # {}
  <2>1. \A y \in 1..n : n - y \in Nat
    OBVIOUS
  <2>2. \A y \in T : n - y \in Nat
    BY <2>1, Zenon
  <2> QED BY <2>2, Zenon
<1>2. PICK d \in D : \A e \in D : d <= e
  BY <1>1, LeastNumber
<1>3. PICK x \in T : d = n - x
  BY <1>2
<1>4. \A y \in T : n - x <= n - y
  BY <1>2, <1>3
<1>5. \A y \in T : y \in 1..n
  OBVIOUS
<1> HIDE DEF D
<1> QED BY <1>3, <1>4, <1>5

(* How many connections are open never grows past the bound. *)
LEMMA StillBounded ==
    ASSUME GateAssumption, ConnectionsBounded, IsFiniteSet(Connected), idle \in Seq(Connection),
           idle' \in Seq(Connection), IsFiniteSet(Connected'),
           Len(idle') + Cardinality(Connected') <= Len(idle) + Cardinality(Connected)
    PROVE  ConnectionsBounded'
<1>1. /\ Cardinality(Connected) \in Nat /\ Cardinality(Connected') \in Nat
      /\ Len(idle) \in Nat /\ Len(idle') \in Nat
  BY FS_CardinalityType
<1>2. \A c \in Clients : Limit[c] \in Nat
  BY DEF GateAssumption
<1>3. CASE Len(idle') + Cardinality(Connected') > 0
  <2>1. PICK c \in Clients : Len(idle) + Cardinality(Connected) <= Limit[c]
    BY <1>1, <1>3 DEF ConnectionsBounded
  <2>2. Len(idle') + Cardinality(Connected') <= Limit[c]
    BY <1>1, <1>2, <2>1
  <2> QED BY <2>2 DEF ConnectionsBounded
<1>4. CASE ~(Len(idle') + Cardinality(Connected') > 0)
  BY <1>4 DEF ConnectionsBounded
<1> QED BY <1>3, <1>4

(* The gate's steps keep its holders within somebody's limit. *)
LEMMA PlaceTaken ==
    ASSUME GateAssumption, Places, NEW c \in Clients, Cardinality(holders) < Limit[c],
           holders' = holders \cup {c}, line' \in Seq(Clients)
    PROVE  Places'
<1>1. IsFiniteSet(holders) /\ holders \subseteq Clients
  BY DEF Places
<1>2. Cardinality(holders) \in Nat /\ Limit[c] \in Nat
  BY <1>1, FS_CardinalityType DEF GateAssumption
<1>3. /\ IsFiniteSet(holders')
      /\ Cardinality(holders') = IF c \in holders THEN Cardinality(holders)
                                                  ELSE Cardinality(holders) + 1
  BY <1>1, FS_AddElement
<1>4. Cardinality(holders') <= Limit[c]
  BY <1>2, <1>3
<1> QED BY <1>1, <1>3, <1>4 DEF Places

LEMMA PlaceLeft ==
    ASSUME GateAssumption, Places, holders' \subseteq holders, line' \in Seq(Clients)
    PROVE  Places'
<1>1. IsFiniteSet(holders) /\ holders \subseteq Clients
  BY DEF Places
<1>2. IsFiniteSet(holders') /\ Cardinality(holders') <= Cardinality(holders)
  BY <1>1, FS_Subset
<1>3. Cardinality(holders) \in Nat /\ Cardinality(holders') \in Nat
  BY <1>1, <1>2, FS_CardinalityType
<1>4. ASSUME holders' # {} PROVE \E c \in Clients : Cardinality(holders') <= Limit[c]
  <2>1. PICK c \in Clients : Cardinality(holders) <= Limit[c]
    BY <1>4 DEF Places
  <2>2. Limit[c] \in Nat
    BY DEF GateAssumption
  <2>3. Cardinality(holders') <= Limit[c]
    BY <1>2, <1>3, <2>1, <2>2
  <2> QED BY <2>3
<1> QED BY <1>1, <1>2, <1>4 DEF Places

LEMMA GateSteps ==
    ASSUME GateAssumption, Places, NEW c \in Clients,
           Enter(c) \/ Grant(c) \/ GiveUp(c) \/ Leave(c)
    PROVE  Places'
<1>0. line \in Seq(Clients) /\ Len(line) \in Nat /\ DOMAIN line = 1..Len(line)
  BY DEF Places
<1>1. CASE Enter(c)
  <2>1. CASE Cardinality(holders) < Limit[c] /\ holders' = holders \cup {c} /\ UNCHANGED line
    BY <1>0, <2>1, PlaceTaken
  <2>2. CASE line' = Append(line, c) /\ UNCHANGED holders
    <3>1. line' \in Seq(Clients)
      BY <1>0, <2>2
    <3> QED BY <2>2, <3>1, PlaceLeft
  <2> QED BY <1>1, <2>1, <2>2 DEF Enter
<1>2. CASE Grant(c)
  <2>1. line' \in Seq(Clients)
    BY <1>0, <1>2 DEF Grant
  <2> QED BY <1>2, <2>1, PlaceTaken DEF Grant
<1>3. CASE GiveUp(c)
  <2> DEFINE n == Len(line) - 1
             p == PlaceOf(c)
  <2>1. line' = [i \in 1..n |-> IF i < p THEN line[i] ELSE line[i + 1]]
    BY <1>3 DEF GiveUp, Without
  <2>2. n \in Nat
    <3>1. DOMAIN line # {}
      BY <1>3 DEF GiveUp, InLine
    <3> QED BY <1>0, <3>1
  <2>3. \A i \in 1..n : i \in DOMAIN line /\ i + 1 \in DOMAIN line
    BY <1>0, <2>2
  <2>4. \A i \in 1..n : line[i] \in Clients /\ line[i + 1] \in Clients
    BY <1>0, <2>3
  <2> HIDE DEF n, p
  <2>5. line' \in Seq(Clients)
    BY <2>1, <2>2, <2>4
  <2> QED BY <1>3, <2>5, PlaceLeft DEF GiveUp
<1>4. CASE Leave(c)
  BY <1>0, <1>4, PlaceLeft DEF Leave
<1> QED BY <1>1, <1>2, <1>3, <1>4

(* Those who work on a connection are finitely many. *)
LEMMA ConnectedCounts ==
    ASSUME Places, NEW A \in SUBSET holders
    PROVE  /\ IsFiniteSet(A) /\ Cardinality(A) \in Nat /\ Cardinality(A) <= Cardinality(holders)
           /\ Cardinality(holders) \in Nat
           /\ \A x : x \notin A => Cardinality(A \cup {x}) = Cardinality(A) + 1
           /\ \A x \in A : Cardinality(A \ {x}) = Cardinality(A) - 1
           /\ \A B \in SUBSET A : IsFiniteSet(B) /\ Cardinality(B) <= Cardinality(A)
<1>1. IsFiniteSet(holders)
  BY DEF Places
<1>2. IsFiniteSet(A) /\ Cardinality(A) <= Cardinality(holders)
  BY <1>1, FS_Subset
<1>3. Cardinality(A) \in Nat /\ Cardinality(holders) \in Nat
  BY <1>1, <1>2, FS_CardinalityType
<1>4. \A x : x \notin A => Cardinality(A \cup {x}) = Cardinality(A) + 1
  BY <1>2, FS_AddElement
<1>5. \A x \in A : Cardinality(A \ {x}) = Cardinality(A) - 1
  BY <1>2, FS_RemoveElement
<1>6. \A B \in SUBSET A : IsFiniteSet(B) /\ Cardinality(B) <= Cardinality(A)
  BY <1>2, FS_Subset
<1> QED BY <1>2, <1>3, <1>4, <1>5, <1>6

(* One client moves: who works on a connection then. *)
LEMMA LeaseMoves ==
    ASSUME PoolTyped, NEW c \in Clients,
           NEW s \in {"outside", "admitting", "connecting", "leased", "returned"},
           lease' = [lease EXCEPT ![c] = s]
    PROVE  /\ lease' \in [Clients -> {"outside", "admitting", "connecting", "leased",
                                      "returned"}]
           /\ lease'[c] = s /\ \A d \in Clients : d # c => lease'[d] = lease[d]
           /\ Connected' = IF s \in {"connecting", "leased"} THEN Connected \cup {c}
                                                             ELSE Connected \ {c}
<1>1. /\ lease' \in [Clients -> {"outside", "admitting", "connecting", "leased", "returned"}]
      /\ lease'[c] = s /\ \A d \in Clients : d # c => lease'[d] = lease[d]
  BY DEF PoolTyped
<1>2. Connected' = IF s \in {"connecting", "leased"} THEN Connected \cup {c}
                                                     ELSE Connected \ {c}
  BY <1>1 DEF Connected
<1> QED BY <1>1, <1>2

(* Steps in which no client moves and no connection is opened. *)
LEMMA ClientsStay ==
    ASSUME GateAssumption, PoolInvariant, UNCHANGED <<lease, conn>>, Places', holders \subseteq holders',
           Rest(idle', idle)
    PROVE  /\ Connected' \subseteq holders' /\ ConnectionsBounded' /\ LeaseFits'
           /\ \A c \in Clients : Leased(c)'
<1>1. Connected' = Connected /\ Connected \subseteq holders /\ Places
  BY DEF PoolInvariant, Connected
<1>2. LeaseFits' /\ \A c \in Clients : Leased(c)'
  BY DEF PoolInvariant, LeaseFits, Leased
<1>3. IsFiniteSet(Connected) /\ Cardinality(Connected) \in Nat
  BY <1>1, ConnectedCounts
<1>4. /\ idle \in Seq(Connection) /\ idle' \in Seq(Connection)
      /\ Len(idle') + Cardinality(Connected') <= Len(idle) + Cardinality(Connected)
  <2>1. idle \in Seq(Connection) /\ idle' \in Seq(Connection) /\ Len(idle') <= Len(idle)
    BY DEF PoolInvariant, PoolTyped, Rest
  <2>2. Len(idle) \in Nat /\ Len(idle') \in Nat
    BY <2>1
  <2> QED BY <1>1, <1>3, <2>1, <2>2
<1>5. ConnectionsBounded'
  BY <1>1, <1>3, <1>4, StillBounded DEF PoolInvariant
<1> QED BY <1>1, <1>2, <1>5

LEMMA NothingClosed ==
    ASSUME PoolInvariant, idle' = idle
    PROVE  Rest(idle', idle) /\ idle \in Seq(Connection)
BY DEF PoolInvariant, PoolTyped, Rest

(* The runtime of a client starts its expiry task at most. *)
LEMMA TasksStart ==
    ASSUME PoolTyped, NEW r \in Runtimes
    PROVE  /\ Started(r) \in [Runtimes -> {"none", "scanning", "asleep", "stopped", "gone"}]
           /\ \A x \in Runtimes : tasks[x] # "none" => Started(r)[x] = tasks[x]
BY DEF PoolTyped, Started

LEMMA StartKeepsOwned ==
    ASSUME PoolInvariant, NEW r \in Runtimes, tasks' = Started(r), idle' = idle
    PROVE  IdleOwned'
<1>1. \A i \in DOMAIN idle : idle[i].owner \in Runtimes
  <2>1. \A i \in DOMAIN idle : idle[i] \in Connection
    BY DEF PoolInvariant, PoolTyped
  <2> QED BY <2>1 DEF Connection
<1>2. \A x \in Runtimes : tasks[x] # "none" => tasks'[x] = tasks[x]
  BY TasksStart DEF PoolInvariant
<1>3. \A i \in DOMAIN idle : tasks[idle[i].owner] \in {"scanning", "asleep", "stopped"}
  BY DEF PoolInvariant, IdleOwned
<1> QED BY <1>1, <1>2, <1>3 DEF IdleOwned

(* acquire and the doctor's check, up to the gate. *)
LEMMA ArrivingKeeps ==
    ASSUME GateAssumption, PoolAssumption, PoolInvariant, NEW c \in Clients,
           lease[c] = "outside", tasks' = Started(RuntimeOf[c]),
           \/ /\ Enter(c) /\ lease' = [lease EXCEPT ![c] = "admitting"]
              /\ fresh' \in [Clients -> BOOLEAN]
           \/ UNCHANGED <<gateVars, fresh, lease>>,
           UNCHANGED <<idle, conn, alarm, told, now>>, doctorAt' \in Nat
    PROVE  PoolInvariant'
<1>0. PoolTyped /\ Places /\ Connected \subseteq holders
  BY DEF PoolInvariant
<1>1. RuntimeOf[c] \in Runtimes
  BY DEF PoolAssumption
<1>2. IdleOwned'
  BY <1>1, StartKeepsOwned
<1>3. Rest(idle', idle) /\ idle \in Seq(Connection)
  BY NothingClosed
<1>4. tasks' \in [Runtimes -> {"none", "scanning", "asleep", "stopped", "gone"}]
  BY <1>0, <1>1, TasksStart
<1>5. CASE UNCHANGED <<gateVars, fresh, lease>>
  <2>1. Places' /\ holders' = holders
    BY <1>0, <1>5 DEF Places, gateVars
  <2>2. PoolTyped'
    BY <1>0, <1>4, <1>5 DEF PoolTyped, gateVars
  <2>3. /\ Connected' \subseteq holders' /\ ConnectionsBounded' /\ LeaseFits'
        /\ \A d \in Clients : Leased(d)'
    BY <1>3, <1>5, <2>1, ClientsStay
  <2> QED BY <1>2, <2>1, <2>2, <2>3 DEF PoolInvariant
<1>6. CASE Enter(c) /\ lease' = [lease EXCEPT ![c] = "admitting"] /\ fresh' \in [Clients -> BOOLEAN]
  <2>1. Places'
    BY <1>0, <1>6, GateSteps
  <2>2. holders \subseteq holders'
    BY <1>6 DEF Enter
  <2>3. /\ lease' \in [Clients -> {"outside", "admitting", "connecting", "leased", "returned"}]
        /\ lease'[c] = "admitting" /\ \A d \in Clients : d # c => lease'[d] = lease[d]
        /\ Connected' = Connected \ {c}
    BY <1>0, <1>6, LeaseMoves
  <2>4. Connected' = Connected
    BY <2>3 DEF Connected
  <2>5. PoolTyped'
    BY <1>0, <1>4, <1>6, <2>1, <2>3 DEF PoolTyped, Places
  <2>6. LeaseFits' /\ \A d \in Clients : Leased(d)'
    BY <2>3 DEF PoolInvariant, LeaseFits, Leased
  <2>7. IsFiniteSet(Connected)
    BY <1>0, ConnectedCounts
  <2>8. ConnectionsBounded'
    BY <2>4 DEF PoolInvariant, ConnectionsBounded
  <2> QED BY <1>0, <1>2, <2>1, <2>2, <2>4, <2>5, <2>6, <2>8 DEF PoolInvariant
<1> QED BY <1>5, <1>6

LEMMA AcquireKeeps ==
    ASSUME GateAssumption, PoolAssumption, PoolInvariant, NEW c \in Clients,
           Acquire(c) \/ Doctor(c)
    PROVE  PoolInvariant'
<1>1. doctorAt \in Nat /\ now \in Nat /\ Interval \in Nat /\ fresh \in [Clients -> BOOLEAN]
  BY DEF PoolInvariant, PoolTyped, PoolAssumption
<1>2. CASE Acquire(c)
  BY <1>1, <1>2, ArrivingKeeps DEF Acquire, idleVars
<1>3. CASE Doctor(c)
  <2>1. doctorAt' \in Nat /\ [fresh EXCEPT ![c] = TRUE] \in [Clients -> BOOLEAN]
    BY <1>1, <1>3 DEF Doctor
  <2> QED BY <1>3, <2>1, ArrivingKeeps DEF Doctor
<1> QED BY <1>2, <1>3

LEMMA GrantPlaceKeeps ==
    ASSUME GateAssumption, PoolInvariant, NEW c \in Clients, GrantPlace(c)
    PROVE  PoolInvariant'
<1>0. PoolTyped /\ Places
  BY DEF PoolInvariant
<1>1. /\ Grant(c) /\ holders \subseteq holders'
      /\ UNCHANGED <<idle, doctorAt, lease, fresh, conn, tasks, alarm, told, now>>
  BY DEF GrantPlace, Grant, idleVars, clientVars, taskVars
<1>2. Places'
  BY <1>0, <1>1, GateSteps
<1>3. Rest(idle', idle)
  BY <1>1, NothingClosed
<1>4. /\ Connected' \subseteq holders' /\ ConnectionsBounded' /\ LeaseFits'
      /\ \A d \in Clients : Leased(d)'
  BY <1>1, <1>2, <1>3, ClientsStay
<1>5. PoolTyped'
  BY <1>0, <1>1, <1>2 DEF PoolTyped, Places
<1>6. IdleOwned'
  BY <1>1 DEF PoolInvariant, IdleOwned
<1> QED BY <1>2, <1>4, <1>5, <1>6 DEF PoolInvariant

(* Times and connections are numbers and connections. *)
LEMMA ConnectionFields ==
    ASSUME PoolAssumption, NEW k \in Connection
    PROVE  /\ k.owner \in Runtimes /\ k.born \in Nat /\ k.expires \in Nat
           /\ k.born \in 0..MaxNow /\ k.generation \in {GenerationOf[c] : c \in Clients}
BY DEF Connection, PoolAssumption

LEMMA ReusedFits ==
    ASSUME PoolAssumption, NEW k \in Connection, NEW c \in Clients
    PROVE  /\ Reused(c, k) \in Connection /\ Reused(c, k).generation = k.generation
           /\ Reused(c, k).expires <= Reused(c, k).born + Lifetime[c]
<1>1. /\ k.owner \in Runtimes /\ k.born \in Nat /\ k.expires \in Nat
      /\ k.born \in 0..MaxNow /\ k.generation \in {GenerationOf[d] : d \in Clients}
  BY ConnectionFields
<1>2. Lifetime[c] \in Nat
  BY DEF PoolAssumption
<1> DEFINE t == IF k.born + Lifetime[c] < k.expires THEN k.born + Lifetime[c] ELSE k.expires
<1>3. t \in Nat /\ t <= k.born + Lifetime[c]
  BY <1>1, <1>2
<1>4. Reused(c, k) = [k EXCEPT !.expires = t]
  BY DEF Reused
<1> HIDE DEF t
<1>5. /\ [k EXCEPT !.expires = t] \in Connection
      /\ [k EXCEPT !.expires = t].expires = t
      /\ [k EXCEPT !.expires = t].born = k.born
      /\ [k EXCEPT !.expires = t].generation = k.generation
  BY <1>1, <1>3 DEF Connection
<1> QED BY <1>3, <1>4, <1>5

(* The critical section of acquire_inner: what the client's limit leaves no
   room for is closed before the client works. *)
LEMMA TakeKeeps ==
    ASSUME GateAssumption, PoolAssumption, PoolInvariant, NEW c \in Clients, Take(c)
    PROVE  PoolInvariant'
<1> DEFINE usable == Usable(c)
           found == Candidates(c, usable)
           last == CHOOSE p \in found : \A q \in found : q <= p
<1>0. PoolTyped /\ Places /\ Connected \subseteq holders /\ idle \in Seq(Connection)
  BY DEF PoolInvariant, PoolTyped
<1>1. /\ lease[c] = "admitting" /\ c \in holders
      /\ UNCHANGED <<holders, line, doctorAt, fresh, tasks, alarm, told, now>>
      /\ \/ /\ found # {} /\ conn' = [conn EXCEPT ![c] = Reused(c, usable[last])]
            /\ idle' = Truncate(SwapRemove(usable, last), Spare(c))
            /\ lease' = [lease EXCEPT ![c] = "leased"]
         \/ /\ idle' = Truncate(usable, Spare(c)) /\ conn' = conn
            /\ lease' = [lease EXCEPT ![c] = "connecting"]
  BY DEF Take, gateVars, taskVars
<1>2. Rest(usable, idle) /\ usable \in Seq(Connection)
  <2>1. usable = Kept(idle, {i \in DOMAIN idle :
            Alive(idle[i].owner) /\ idle[i].expires > now /\ now - idle[i].born < Lifetime[c]})
    BY DEF Usable
  <2>2. Rest(usable, idle)
    BY <1>0, <2>1, KeptIsRest
  <2> QED BY <2>2 DEF Rest
<1>3. Cardinality(holders) \in Nat /\ Limit[c] \in Nat
  BY <1>0, ConnectedCounts DEF GateAssumption
<1>4. Spare(c) \in Nat
  BY <1>3 DEF Spare
<1>5. found # {} => last \in DOMAIN usable /\ usable[last].generation = GenerationOf[c]
  <2> SUFFICES ASSUME found # {}
               PROVE  last \in DOMAIN usable /\ usable[last].generation = GenerationOf[c]
    OBVIOUS
  <2>1. found \in SUBSET (1..Len(usable)) /\ Len(usable) \in Nat
    BY <1>2 DEF Candidates
  <2>2. \E x \in found : \A y \in found : y <= x
    BY <2>1, LastPlace
  <2>3. last \in found
    BY <2>2
  <2> QED BY <2>3 DEF Candidates
<1> HIDE DEF usable, found, last
<1>6. Rest(idle', idle) /\ Len(idle') <= Spare(c) /\ idle' \in Seq(Connection)
  <2>1. CASE idle' = Truncate(usable, Spare(c))
    <3>1. Rest(idle', usable) /\ Len(idle') <= Spare(c)
      BY <1>2, <1>4, <2>1, TruncateIsRest
    <3> QED BY <1>0, <1>2, <3>1, RestOfRest DEF Rest
  <2>2. CASE found # {} /\ idle' = Truncate(SwapRemove(usable, last), Spare(c))
    <3>1. Rest(SwapRemove(usable, last), usable) /\ SwapRemove(usable, last) \in Seq(Connection)
      BY <1>2, <1>5, <2>2, SwapRemoveIsRest DEF Rest
    <3>2. Rest(idle', SwapRemove(usable, last)) /\ Len(idle') <= Spare(c)
      BY <1>4, <2>2, <3>1, TruncateIsRest
    <3>3. Rest(idle', usable)
      BY <1>2, <3>1, <3>2, RestOfRest
    <3> QED BY <1>0, <1>2, <3>2, <3>3, RestOfRest DEF Rest
  <2> QED BY <1>1, <2>1, <2>2
<1>7. /\ lease' \in [Clients -> {"outside", "admitting", "connecting", "leased", "returned"}]
      /\ lease'[c] \in {"connecting", "leased"} /\ \A d \in Clients : d # c => lease'[d] = lease[d]
      /\ Connected' = Connected \cup {c}
  BY <1>0, <1>1, LeaseMoves
<1>8. Connected' \subseteq holders /\ holders' = holders
  BY <1>0, <1>1, <1>7
<1>9. ConnectionsBounded'
  <2>1. /\ Cardinality(Connected') \in Nat /\ Cardinality(Connected') <= Cardinality(holders)
        /\ Len(idle') \in Nat
    BY <1>0, <1>6, <1>8, ConnectedCounts
  <2>2. CASE Limit[c] > Cardinality(holders)
    <3>1. Len(idle') + Cardinality(Connected') <= Limit[c]
      BY <1>3, <1>6, <2>1, <2>2 DEF Spare
    <3> QED BY <3>1 DEF ConnectionsBounded
  <2>3. CASE ~(Limit[c] > Cardinality(holders))
    <3>1. PICK d \in Clients : Cardinality(holders) <= Limit[d]
      BY <1>0, <1>1 DEF Places
    <3>2. Len(idle') = 0
      BY <1>6, <2>1, <2>3 DEF Spare
    <3>3. Limit[d] \in Nat
      BY DEF GateAssumption
    <3>4. Len(idle') + Cardinality(Connected') <= Limit[d]
      BY <1>3, <2>1, <3>1, <3>2, <3>3
    <3> QED BY <3>4 DEF ConnectionsBounded
  <2> QED BY <2>2, <2>3
<1>10. IdleOwned'
  <2>1. tasks' = tasks /\ IdleOwned
    BY <1>1 DEF PoolInvariant
  <2> QED BY <1>6, <2>1 DEF IdleOwned, Rest
<1>11. /\ conn' \in [Clients -> Connection \cup {None}]
       /\ \A d \in Clients : d # c => conn'[d] = conn[d]
       /\ lease'[c] = "leased" => /\ conn'[c] \in Connection
                                  /\ conn'[c].generation = GenerationOf[c]
                                  /\ conn'[c].expires <= conn'[c].born + Lifetime[c]
  <2>0. /\ conn \in [Clients -> Connection \cup {None}]
        /\ lease \in [Clients -> {"outside", "admitting", "connecting", "leased", "returned"}]
    BY <1>0 DEF PoolTyped
  <2>1. CASE conn' = conn /\ lease' = [lease EXCEPT ![c] = "connecting"]
    BY <2>0, <2>1
  <2>2. CASE found # {} /\ conn' = [conn EXCEPT ![c] = Reused(c, usable[last])]
    <3>1. usable[last] \in Connection
      BY <1>2, <1>5, <2>2
    <3>2. /\ Reused(c, usable[last]) \in Connection
          /\ Reused(c, usable[last]).generation = GenerationOf[c]
          /\ Reused(c, usable[last]).expires <= Reused(c, usable[last]).born + Lifetime[c]
      BY <1>5, <2>2, <3>1, ReusedFits
    <3> QED BY <2>0, <2>2, <3>2
  <2> QED BY <1>1, <2>1, <2>2
<1>12. LeaseFits' /\ \A d \in Clients : Leased(d)'
  BY <1>7, <1>11 DEF PoolInvariant, LeaseFits, Leased
<1>13. Places'
  BY <1>0, <1>1 DEF Places
<1>14. PoolTyped'
  BY <1>0, <1>1, <1>6, <1>7, <1>11 DEF PoolTyped
<1> QED BY <1>8, <1>9, <1>10, <1>12, <1>13, <1>14 DEF PoolInvariant

LEMMA ConnectKeeps ==
    ASSUME GateAssumption, PoolAssumption, PoolInvariant, NEW c \in Clients, Connect(c)
    PROVE  PoolInvariant'
<1> DEFINE k == [generation |-> GenerationOf[c], born |-> now,
                 expires |-> now + Lifetime[c], owner |-> RuntimeOf[c]]
<1>0. PoolTyped /\ Places /\ Connected \subseteq holders
  BY DEF PoolInvariant
<1>1. /\ lease[c] = "connecting" /\ tasks' = Started(RuntimeOf[c])
      /\ conn' = [conn EXCEPT ![c] = k] /\ lease' = [lease EXCEPT ![c] = "leased"]
      /\ UNCHANGED <<holders, line, idle, doctorAt, fresh, alarm, told, now>>
  BY DEF Connect, gateVars, idleVars
<1>2. /\ RuntimeOf[c] \in Runtimes /\ Lifetime[c] \in Nat /\ now \in Nat /\ now \in 0..MaxNow
      /\ conn \in [Clients -> Connection \cup {None}]
  BY <1>0 DEF PoolAssumption, PoolTyped
<1>3. /\ k \in Connection /\ k.generation = GenerationOf[c]
      /\ k.expires <= k.born + Lifetime[c]
  BY <1>2 DEF Connection
<1> HIDE DEF k
<1>4. /\ lease' \in [Clients -> {"outside", "admitting", "connecting", "leased", "returned"}]
      /\ \A d \in Clients : d # c => lease'[d] = lease[d]
      /\ Connected' = Connected \cup {c}
  BY <1>0, <1>1, LeaseMoves
<1>5. Connected' = Connected
  BY <1>1, <1>4 DEF Connected
<1>6. /\ conn' \in [Clients -> Connection \cup {None}] /\ conn'[c] = k
      /\ \A d \in Clients : d # c => conn'[d] = conn[d]
  BY <1>1, <1>2, <1>3
<1>7. LeaseFits' /\ \A d \in Clients : Leased(d)'
  BY <1>3, <1>4, <1>6 DEF PoolInvariant, LeaseFits, Leased
<1>8. IdleOwned'
  BY <1>1, <1>2, StartKeepsOwned
<1>9. tasks' \in [Runtimes -> {"none", "scanning", "asleep", "stopped", "gone"}]
  BY <1>0, <1>1, <1>2, TasksStart
<1>10. PoolTyped' /\ Places'
  BY <1>0, <1>1, <1>4, <1>6, <1>9 DEF PoolTyped, Places
<1>11. ConnectionsBounded' /\ Connected' \subseteq holders'
  BY <1>0, <1>1, <1>5 DEF PoolInvariant, ConnectionsBounded
<1> QED BY <1>7, <1>8, <1>10, <1>11 DEF PoolInvariant

LEMMA DropKeeps ==
    ASSUME GateAssumption, PoolInvariant, NEW c \in Clients, Drop(c)
    PROVE  PoolInvariant'
<1>0. PoolTyped /\ Places /\ Connected \subseteq holders /\ idle \in Seq(Connection)
  BY DEF PoolInvariant, PoolTyped
<1>1. /\ GiveUp(c) \/ Leave(c)
      /\ lease' = [lease EXCEPT ![c] = "outside"] /\ conn' = [conn EXCEPT ![c] = None]
      /\ fresh' = [fresh EXCEPT ![c] = FALSE]
      /\ UNCHANGED <<idle, doctorAt, tasks, alarm, told, now>>
  BY DEF Drop, idleVars, taskVars
<1>2. Places'
  BY <1>0, <1>1, GateSteps
<1>3. holders \ {c} \subseteq holders'
  BY <1>1 DEF GiveUp, Leave
<1>4. /\ lease' \in [Clients -> {"outside", "admitting", "connecting", "leased", "returned"}]
      /\ lease'[c] = "outside" /\ \A d \in Clients : d # c => lease'[d] = lease[d]
      /\ Connected' = Connected \ {c}
  BY <1>0, <1>1, LeaseMoves
<1>5. Connected' \subseteq holders'
  BY <1>0, <1>3, <1>4
<1>6. /\ conn' \in [Clients -> Connection \cup {None}] /\ fresh' \in [Clients -> BOOLEAN]
      /\ \A d \in Clients : d # c => conn'[d] = conn[d]
  BY <1>0, <1>1 DEF PoolTyped
<1>7. LeaseFits' /\ \A d \in Clients : Leased(d)'
  BY <1>4, <1>6 DEF PoolInvariant, LeaseFits, Leased
<1>8. PoolTyped'
  BY <1>0, <1>1, <1>2, <1>4, <1>6 DEF PoolTyped, Places
<1>9. ConnectionsBounded'
  <2>1. /\ IsFiniteSet(Connected) /\ IsFiniteSet(Connected')
        /\ Cardinality(Connected') <= Cardinality(Connected)
    BY <1>0, <1>4, ConnectedCounts
  <2>2. Cardinality(Connected') \in Nat /\ Cardinality(Connected) \in Nat /\ Len(idle) \in Nat
    BY <1>0, <2>1, FS_CardinalityType
  <2>3. Len(idle') + Cardinality(Connected') <= Len(idle) + Cardinality(Connected)
    BY <1>1, <2>1, <2>2
  <2> QED BY <1>0, <1>1, <2>1, <2>3, StillBounded DEF PoolInvariant
<1>10. IdleOwned'
  BY <1>1 DEF PoolInvariant, IdleOwned
<1> QED BY <1>2, <1>5, <1>7, <1>8, <1>9, <1>10 DEF PoolInvariant

(* What is given back goes from the connections in use to the idle ones. *)
LEMMA ReleaseLeaseKeeps ==
    ASSUME GateAssumption, PoolAssumption, PoolInvariant, NEW c \in Clients, ReleaseLease(c)
    PROVE  PoolInvariant'
<1>0. PoolTyped /\ Places /\ Connected \subseteq holders /\ idle \in Seq(Connection)
  BY DEF PoolInvariant, PoolTyped
<1>1. /\ lease[c] = "leased" /\ lease' = [lease EXCEPT ![c] = "returned"]
      /\ conn' = [conn EXCEPT ![c] = None]
      /\ \/ Keeps(c) /\ idle' = Append(idle, conn[c])
         \/ idle' = idle
      /\ told' = told \/ told' = told \cup Asleep
      /\ UNCHANGED <<holders, line, doctorAt, fresh, tasks, alarm, now>>
  BY DEF ReleaseLease, gateVars
<1>2. conn[c] \in Connection
  BY <1>1 DEF PoolInvariant, Leased
<1>3. /\ lease' \in [Clients -> {"outside", "admitting", "connecting", "leased", "returned"}]
      /\ lease'[c] = "returned" /\ \A d \in Clients : d # c => lease'[d] = lease[d]
      /\ Connected' = Connected \ {c}
  BY <1>0, <1>1, LeaseMoves
<1>4. c \in Connected
  BY <1>1 DEF Connected
<1>5. /\ conn' \in [Clients -> Connection \cup {None}]
      /\ \A d \in Clients : d # c => conn'[d] = conn[d]
  BY <1>0, <1>1 DEF PoolTyped
<1>6. LeaseFits' /\ \A d \in Clients : Leased(d)'
  BY <1>3, <1>5 DEF PoolInvariant, LeaseFits, Leased
<1>7. idle' \in Seq(Connection) /\ Len(idle') <= Len(idle) + 1 /\ Len(idle) \in Nat
  BY <1>0, <1>1, <1>2
<1>8. ConnectionsBounded'
  <2>1. /\ IsFiniteSet(Connected) /\ IsFiniteSet(Connected')
        /\ Cardinality(Connected') = Cardinality(Connected) - 1
        /\ Cardinality(Connected) \in Nat
    BY <1>0, <1>3, <1>4, ConnectedCounts
  <2>2. Len(idle') + Cardinality(Connected') <= Len(idle) + Cardinality(Connected)
    <3>1. Len(idle') \in Nat
      BY <1>7
    <3> QED BY <1>7, <2>1, <3>1
  <2> QED BY <1>0, <1>7, <2>1, <2>2, StillBounded DEF PoolInvariant
<1>9. IdleOwned'
  <2>1. CASE idle' = idle
    BY <1>1, <2>1 DEF PoolInvariant, IdleOwned
  <2>2. CASE Keeps(c) /\ idle' = Append(idle, conn[c])
    <3>1. tasks[conn[c].owner] \in {"scanning", "asleep", "stopped"}
      BY <2>2 DEF Keeps, Alive
    <3>2. \A i \in DOMAIN idle' : idle'[i] = conn[c] \/ \E j \in DOMAIN idle : idle'[i] = idle[j]
      BY <1>0, <1>2, <2>2
    <3> QED BY <1>1, <3>1, <3>2 DEF PoolInvariant, IdleOwned
  <2> QED BY <1>1, <2>1, <2>2
<1>10. PoolTyped' /\ Places'
  BY <1>0, <1>1, <1>3, <1>5, <1>7 DEF PoolTyped, Places, Asleep
<1> QED BY <1>0, <1>1, <1>3, <1>6, <1>8, <1>9, <1>10 DEF PoolInvariant

(* The expiry tasks only close idle connections, and a task that goes closes
   all it owned. *)
LEMMA TasksKeep ==
    ASSUME GateAssumption, PoolAssumption, PoolInvariant, NEW r \in Runtimes,
           Scan(r) \/ WakeUp(r) \/ StopOwner(r) \/ CleanUp(r)
    PROVE  PoolInvariant'
<1>0. PoolTyped /\ Places /\ idle \in Seq(Connection) /\ IdleOwned
  BY DEF PoolInvariant, PoolTyped
<1>1. UNCHANGED <<holders, line, doctorAt, lease, fresh, conn, now>>
  BY DEF Scan, WakeUp, StopOwner, CleanUp, gateVars, idleVars, clientVars
<1>2. \A i \in DOMAIN idle : idle[i].owner \in Runtimes /\ idle[i].expires \in Nat
  <2>1. \A i \in DOMAIN idle : idle[i] \in Connection
    BY <1>0
  <2> QED BY <2>1, ConnectionFields
<1>3. /\ tasks' \in [Runtimes -> {"none", "scanning", "asleep", "stopped", "gone"}]
      /\ \A x \in Runtimes : x # r => tasks'[x] = tasks[x]
      /\ tasks'[r] \in {"scanning", "asleep", "stopped"} \/ (CleanUp(r) /\ tasks'[r] = "gone")
  BY <1>0 DEF PoolTyped, Scan, WakeUp, StopOwner, CleanUp
<1>4. Rest(idle', idle)
  <2>1. CASE Scan(r)
    <3> DEFINE S == {i \in DOMAIN idle : idle[i].expires > now}
    <3>1. idle' = Kept(idle, S) /\ S \in SUBSET DOMAIN idle
      BY <2>1 DEF Scan
    <3> HIDE DEF S
    <3> QED BY <1>0, <3>1, KeptIsRest
  <2>2. CASE CleanUp(r)
    <3> DEFINE S == {i \in DOMAIN idle : idle[i].owner # r}
    <3>1. idle' = Kept(idle, S) /\ S \in SUBSET DOMAIN idle
      BY <2>2 DEF CleanUp
    <3> HIDE DEF S
    <3> QED BY <1>0, <3>1, KeptIsRest
  <2>3. CASE WakeUp(r) \/ StopOwner(r)
    BY <2>3, NothingClosed DEF WakeUp, StopOwner, idleVars
  <2> QED BY <2>1, <2>2, <2>3
<1>5. IdleOwned'
  <2>1. CASE CleanUp(r)
    <3> DEFINE S == {i \in DOMAIN idle : idle[i].owner # r}
    <3>1. idle' = Kept(idle, S) /\ S \in SUBSET DOMAIN idle /\ \A j \in S : idle[j].owner # r
      BY <2>1 DEF CleanUp
    <3> HIDE DEF S
    <3>2. \A i \in DOMAIN idle' : \E j \in S : idle'[i] = idle[j]
      BY <1>0, <3>1, KeptIsRest
    <3>3. \A j \in S : tasks'[idle[j].owner] = tasks[idle[j].owner]
      BY <1>2, <1>3, <3>1
    <3>4. \A j \in S : tasks[idle[j].owner] \in {"scanning", "asleep", "stopped"}
      BY <1>0, <3>1 DEF IdleOwned
    <3>5. \A i \in DOMAIN idle' : tasks'[idle'[i].owner] \in {"scanning", "asleep", "stopped"}
      BY <3>2, <3>3, <3>4
    <3> QED BY <3>5 DEF IdleOwned
  <2>2. CASE ~CleanUp(r)
    <3>1. \A x \in Runtimes : tasks[x] \in {"scanning", "asleep", "stopped"} =>
                                  tasks'[x] \in {"scanning", "asleep", "stopped"}
      BY <1>3, <2>2
    <3>2. \A i \in DOMAIN idle' : \E j \in DOMAIN idle : idle'[i] = idle[j]
      BY <1>4 DEF Rest
    <3>3. \A j \in DOMAIN idle : tasks'[idle[j].owner] \in {"scanning", "asleep", "stopped"}
      BY <1>0, <1>2, <3>1 DEF IdleOwned
    <3> QED BY <3>2, <3>3 DEF IdleOwned
  <2> QED BY <2>1, <2>2
<1>6. alarm' \in [Runtimes -> Nat \cup {None}] /\ told' \subseteq Runtimes
  <2>0. alarm \in [Runtimes -> Nat \cup {None}] /\ told \subseteq Runtimes
    BY <1>0 DEF PoolTyped
  <2>1. CASE Scan(r)
    <3> DEFINE times == {idle'[i].expires : i \in DOMAIN idle'}
               t == IF times = {} THEN None ELSE CHOOSE u \in times : \A v \in times : u <= v
    <3>1. alarm' = [alarm EXCEPT ![r] = t] /\ told' = told \ {r}
      BY <2>1 DEF Scan
    <3>2. times \subseteq Nat
      BY <1>2, <1>4 DEF Rest
    <3> HIDE DEF times
    <3>3. t \in Nat \cup {None}
      <4>1. CASE times = {}
        BY <4>1
      <4>2. CASE times # {}
        <5>1. \E u \in times : \A v \in times : u <= v
          BY <3>2, <4>2, LeastNumber
        <5> QED BY <3>2, <4>2, <5>1
      <4> QED BY <4>1, <4>2
    <3> HIDE DEF t
    <3> QED BY <2>0, <3>1, <3>3
  <2>2. CASE WakeUp(r)
    BY <2>0, <2>2 DEF WakeUp
  <2>3. CASE StopOwner(r)
    BY <2>0, <2>3 DEF StopOwner
  <2>4. CASE CleanUp(r)
    BY <2>0, <2>4 DEF CleanUp, Asleep
  <2> QED BY <2>1, <2>2, <2>3, <2>4
<1>7. PoolTyped' /\ Places'
  BY <1>0, <1>1, <1>3, <1>4, <1>6 DEF PoolTyped, Places, Rest
<1>8. /\ Connected' \subseteq holders' /\ ConnectionsBounded' /\ LeaseFits'
      /\ \A c \in Clients : Leased(c)'
  BY <1>1, <1>4, <1>7, ClientsStay
<1> QED BY <1>5, <1>7, <1>8 DEF PoolInvariant

(* Time passes, or nothing happens. *)
LEMMA PoolRests ==
    ASSUME GateAssumption, PoolAssumption, PoolInvariant, Tick \/ UNCHANGED poolVars
    PROVE  PoolInvariant'
<1>0. PoolTyped /\ Places /\ idle \in Seq(Connection)
  BY DEF PoolInvariant, PoolTyped
<1>1. /\ UNCHANGED <<holders, line, idle, doctorAt, lease, fresh, conn, tasks, alarm, told>>
      /\ now' \in 0..MaxNow
  BY <1>0 DEF Tick, poolVars, gateVars, idleVars, clientVars, taskVars, PoolTyped, PoolAssumption
<1>2. PoolTyped' /\ Places'
  BY <1>0, <1>1 DEF PoolTyped, Places
<1>3. Rest(idle', idle)
  BY <1>1, NothingClosed
<1>4. /\ Connected' \subseteq holders' /\ ConnectionsBounded' /\ LeaseFits'
      /\ \A c \in Clients : Leased(c)'
  BY <1>1, <1>2, <1>3, ClientsStay
<1>5. IdleOwned'
  BY <1>1 DEF PoolInvariant, IdleOwned
<1> QED BY <1>2, <1>4, <1>5 DEF PoolInvariant

LEMMA PoolAtInit ==
    ASSUME GateAssumption, PoolAssumption, PoolInit
    PROVE  PoolInvariant
<1>1. /\ holders = {} /\ line = <<>> /\ idle = <<>> /\ Len(idle) = 0 /\ DOMAIN idle = {}
      /\ Connected = {} /\ IsFiniteSet({}) /\ Cardinality({}) = 0
  BY FS_EmptySet DEF PoolInit, GateInit, Connected
<1>2. PoolTyped
  BY <1>1 DEF PoolInit, PoolTyped, PoolAssumption
<1>3. Places /\ ConnectionsBounded /\ IdleOwned
  BY <1>1 DEF Places, ConnectionsBounded, IdleOwned
<1>4. LeaseFits /\ \A c \in Clients : Leased(c)
  BY DEF PoolInit, LeaseFits, Leased
<1> QED BY <1>1, <1>2, <1>3, <1>4 DEF PoolInvariant

(* Pool and Lease (authentication.rs) with expire_idle (cleanup.rs): however
   clients of different grants acquire, release and drop leases while executors
   start, scan and shut down, the connections open or being opened stay within
   somebody's account_connections, every idle one has a task that will close it,
   and a lease is of its client's generation and lifetime. *)
THEOREM PoolStaysConsistent ==
    ASSUME GateAssumption, PoolAssumption
    PROVE  PoolSpec => []PoolConsistent
<1>1. PoolInit => PoolInvariant
  BY PoolAtInit
<1>2. PoolInvariant /\ [PoolNext]_poolVars => PoolInvariant'
  <2> SUFFICES ASSUME PoolInvariant, [PoolNext]_poolVars PROVE PoolInvariant'
    OBVIOUS
  <2>1. CASE \E c \in Clients : Acquire(c) \/ Doctor(c) \/ GrantPlace(c)
    BY <2>1, AcquireKeeps, GrantPlaceKeeps
  <2>2. CASE \E c \in Clients : Take(c) \/ Connect(c) \/ Drop(c) \/ ReleaseLease(c)
    BY <2>2, TakeKeeps, ConnectKeeps, DropKeeps, ReleaseLeaseKeeps
  <2>3. CASE \E r \in Runtimes : Scan(r) \/ WakeUp(r) \/ StopOwner(r) \/ CleanUp(r)
    BY <2>3, TasksKeep
  <2>4. CASE Tick \/ UNCHANGED poolVars
    BY <2>4, PoolRests
  <2> QED BY <2>1, <2>2, <2>3, <2>4 DEF PoolNext
<1>3. PoolInvariant => PoolConsistent
  BY DEF PoolInvariant, PoolConsistent
<1> QED BY <1>1, <1>2, <1>3, PTL DEF PoolSpec
=============================================================================
