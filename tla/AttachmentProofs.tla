-------------------------- MODULE AttachmentProofs --------------------------
(***************************************************************************)
(* For any number of requests, transfers, sessions and executors: slots,   *)
(* the shortcuts that save a look at them and the quota agree, the bytes   *)
(* of a transfer come in order, and none comes after its expiry.  Two      *)
(* arguments carry it.  A reader is in its slot or with one request, and   *)
(* stands where its caller's bytes end, so a token for any other offset    *)
(* finds nothing.  And the bound is at or before the first expiry of an    *)
(* idle slot, so that nothing due is overlooked before it.                 *)
(*                                                                         *)
(* Saving an attachment is atomic, for any attachment, any chunking of it, *)
(* any number of names tried and any failures, disturbances and power      *)
(* losses.  The argument: before anything carries a destination name the   *)
(* file is verified and on disk, so a name that is seen, or may come back  *)
(* after a power loss, shows the whole attachment; and the exporter always *)
(* knows what it may have left behind.                                     *)
(*                                                                         *)
(* The pages of a message text are one body, read from its beginning, for  *)
(* any bodies, characters, declared sizes and limits.  The argument: a     *)
(* cursor stands at a character boundary, where the text given under it    *)
(* ends, and its fingerprint determines the body it may be used on; and a  *)
(* read stops at the end of its section or one byte beyond its ceiling.    *)
(***************************************************************************)
EXTENDS Transfers, Export, BodyPages, FiniteSetTheorems, SequenceTheorems, WellFoundedInduction, TLAPS

(* Slots and requests know only transfers that were begun. *)
OnlyBegun ==
    /\ \A i \in Ids : slots[i] # None => i \in begun
    /\ \A c \in Active : at[c] \in begun
    /\ \A i \in Ids \ begun : received[i] = 0

(* The reader of a transfer stands where its caller's bytes end, in its slot and
   checked out, and who has it asked for just those. *)
Positions ==
    /\ \A c \in Active :
           /\ held[c] # None /\ at[c] \in Ids
           /\ held[c].offset = received[at[c]] /\ asked[c] = received[at[c]]
    /\ \A i \in Idle(slots) : slots[i].entry.offset = received[i]

TransfersInvariant ==
    /\ TransfersConsistent
    /\ OnlyBegun /\ Positions

SlotMap == [Ids -> Slot \cup {None}]

(* What BoundIsEarly says of a store that is not yet installed. *)
Sound(s) ==
    /\ s \in [slots : SlotMap, idle : Nat, next : Nat \cup {None}]
    /\ s.idle = Cardinality(Idle(s.slots))
    /\ \A i \in Idle(s.slots) : s.next # None /\ s.next <= s.slots[i].expires

(* The slots of an account. *)
Taking(f, a) == {i \in Ids : f[i] # None /\ f[i].account = a}

(* Slots f without some that no request has checked out. *)
Purges(f) ==
    \A i \in Ids : f[i] = slots[i] \/ (f[i] = None /\ \A c \in Active : at[c] # i)

-----------------------------------------------------------------------------
(* Every set of natural numbers that is not empty has a least element: what the
   minimum of the expiry times rests on. *)
LEMMA LeastNumber ==
    ASSUME NEW T, T \subseteq Nat, T # {}
    PROVE  \E x \in T : \A y \in T : x <= y
<1> DEFINE R == OpToRel(<, Nat)
<1>1. IsWellFoundedOn(R, Nat)
  BY NatLessThanWellFounded, Zenon
<1>2. R = {ss \in Nat \X Nat : ss[1] < ss[2]}
  BY DEF OpToRel
<1> HIDE DEF R
<1>3. PICK x \in T : \A y \in T : ~ (<<y, x>> \in R)
  BY <1>1, WFMin
<1>4. \A y \in T : ~(y < x)
  BY <1>2, <1>3
<1> QED
  BY <1>3, <1>4

(* Sets of ids are finite, and no larger than the set of all. *)
LEMMA IdsCount ==
    ASSUME TransfersAssumption, NEW A, A \subseteq Ids
    PROVE  IsFiniteSet(A) /\ Cardinality(A) \in 0..Cardinality(Ids) /\ Cardinality(A) \in Nat
<1>1. IsFiniteSet(Ids)
  BY DEF TransfersAssumption
<1>2. IsFiniteSet(A) /\ Cardinality(A) <= Cardinality(Ids)
  BY <1>1, FS_Subset
<1>3. Cardinality(A) \in Nat /\ Cardinality(Ids) \in Nat
  BY <1>1, <1>2, FS_CardinalityType
<1> QED
  BY <1>2, <1>3

(* expire_due and TransferSession::drop take the bound anew: the minimum over the
   idle slots is at or before each of them. *)
LEMMA EarliestIsEarly ==
    ASSUME TransfersAssumption, NEW f \in SlotMap
    PROVE  /\ Earliest(f) \in Nat \cup {None}
           /\ \A i \in Idle(f) : Earliest(f) # None /\ Earliest(f) <= f[i].expires
<1>1. CASE Idle(f) = {}
  BY <1>1 DEF Earliest
<1>2. CASE Idle(f) # {}
  <2> DEFINE times == {f[i].expires : i \in Idle(f)}
  <2>1. times \subseteq Nat /\ times # {}
    BY <1>2 DEF Idle, SlotMap, Slot
  <2>2. \E t \in times : \A u \in times : t <= u
    BY <2>1, LeastNumber
  <2>3. Earliest(f) \in times /\ \A u \in times : Earliest(f) <= u
    BY <1>2, <2>2 DEF Earliest
  <2>4. Earliest(f) \in Nat /\ Earliest(f) # None
    BY <2>1, <2>3 DEF TransfersAssumption
  <2> QED
    BY <2>3, <2>4
<1> QED
  BY <1>1, <1>2

LEMMA SoundAfresh ==
    ASSUME TransfersAssumption, NEW f \in SlotMap
    PROVE  Sound([slots |-> f, idle |-> Cardinality(Idle(f)), next |-> Earliest(f)])
<1>1. Cardinality(Idle(f)) \in Nat
  BY IdsCount DEF Idle
<1>2. Earliest(f) \in Nat \cup {None}
  BY EarliestIsEarly
<1>3. \A i \in Idle(f) : Earliest(f) # None /\ Earliest(f) <= f[i].expires
  BY EarliestIsEarly
<1> QED
  BY <1>1, <1>2, <1>3 DEF Sound

LEMMA StoreSound ==
    ASSUME TransfersAssumption, TransfersInvariant
    PROVE  Sound(Store)
<1>1. slots \in SlotMap /\ idle \in Nat /\ nextExpiry \in Nat \cup {None}
  <2>1. idle \in 0..Cardinality(Ids)
    BY DEF TransfersInvariant, TransfersConsistent, TypeOK
  <2> QED
    BY <2>1 DEF TransfersInvariant, TransfersConsistent, TypeOK, SlotMap
<1> QED
  BY <1>1 DEF Sound, Store, TransfersInvariant, TransfersConsistent, BoundIsEarly

(* expire_due: what is left is sound, was there before, and is not due. *)
LEMMA ExpireDueSound ==
    ASSUME TransfersAssumption, TransfersInvariant
    PROVE  /\ Sound(ExpireDue(Store)) /\ Purges(ExpireDue(Store).slots)
           /\ \A i \in Idle(ExpireDue(Store).slots) : ExpireDue(Store).slots[i].expires > now
<1>0. Sound(Store) /\ Store.slots = slots /\ Store.next = nextExpiry /\ slots \in SlotMap
  BY StoreSound DEF Store, Sound
<1>n. now \in Nat
  BY DEF TransfersInvariant, TransfersConsistent, TypeOK, TransfersAssumption
<1>1. CASE nextExpiry = None \/ nextExpiry > now
  <2>1. ExpireDue(Store) = Store
    BY <1>0, <1>1 DEF ExpireDue
  <2>2. \A i \in Idle(slots) : slots[i].expires > now
    BY <1>0, <1>1, <1>n DEF Sound, Idle, SlotMap, Slot
  <2> QED
    BY <1>0, <2>1, <2>2 DEF Purges
<1>2. CASE ~(nextExpiry = None \/ nextExpiry > now)
  <2> DEFINE due == {i \in Idle(slots) : slots[i].expires <= now}
             kept == [i \in Ids |-> IF i \in due THEN None ELSE slots[i]]
  <2>1. ExpireDue(Store) = [slots |-> kept, idle |-> Cardinality(Idle(kept)),
                            next |-> Earliest(kept)]
    BY <1>0, <1>2 DEF ExpireDue
  <2>2. kept \in SlotMap
    BY <1>0 DEF SlotMap
  <2>3. \A i \in Idle(kept) : kept[i].expires > now
    BY <1>0, <1>n DEF Idle, SlotMap, Slot
  <2>4. Purges(kept)
    BY DEF Purges, Idle, TransfersInvariant, TransfersConsistent, SlotsOwned
  <2>5. Sound([slots |-> kept, idle |-> Cardinality(Idle(kept)), next |-> Earliest(kept)])
    BY <2>2, SoundAfresh
  <2> HIDE DEF kept
  <2> QED
    BY <2>1, <2>3, <2>4, <2>5
<1> QED
  BY <1>1, <1>2

(* A sound store, once installed, keeps the types and the bound. *)
LEMMA InstalledBound ==
    ASSUME TransfersAssumption, NEW s, Sound(s), Installed(s)
    PROVE  /\ slots' = s.slots /\ slots' \in SlotMap /\ idle' \in 0..Cardinality(Ids)
           /\ nextExpiry' \in Nat \cup {None} /\ hasIdle' \in BOOLEAN
           /\ BoundIsEarly'
<1>1. slots' = s.slots /\ idle' = s.idle /\ nextExpiry' = s.next /\ slots' \in SlotMap
  BY DEF Sound, Installed
<1>2. idle' = Cardinality(Idle(slots')) /\ idle' \in 0..Cardinality(Ids)
  BY <1>1, IdsCount DEF Sound, Idle
<1>3. hasIdle' = (idle' > 0)
  BY <1>1 DEF Installed
<1>4. hasIdle' \in BOOLEAN
  <2>1. (idle' > 0) \in BOOLEAN
    BY <1>2
  <2> QED
    BY <1>3, <2>1, Zenon
<1>5. \A i \in Idle(slots') : nextExpiry' # None /\ nextExpiry' <= slots'[i].expires
  BY <1>1 DEF Sound
<1>6. Idle(slots)' = Idle(slots')
  BY DEF Idle
<1>7. BoundIsEarly'
  BY <1>2, <1>3, <1>5, <1>6 DEF BoundIsEarly
<1> QED
  BY <1>1, <1>2, <1>4, <1>7 DEF Sound

-----------------------------------------------------------------------------
(* The quota of every account stays kept while its slots are no more than before. *)
LEMMA QuotaFrame ==
    ASSUME TransfersAssumption, TransfersInvariant,
           \A a \in Accounts : Taking(slots', a) \subseteq Taking(slots, a)
    PROVE  WithinQuota'
<1>1. ASSUME NEW a \in Accounts
      PROVE  \E s \in Sessions :
                \A t \in Sessions : Quota[t] <= Quota[s] /\ Count(Store, a)' <= Quota[s]
  <2>1. PICK s \in Sessions :
            \A t \in Sessions : Quota[t] <= Quota[s] /\ Count(Store, a) <= Quota[s]
    BY DEF TransfersInvariant, TransfersConsistent, WithinQuota
  <2>2. Count(Store, a) = Cardinality(Taking(slots, a))
    BY DEF Count, Store, Taking
  <2>3. Count(Store, a)' = Cardinality(Taking(slots', a))
    BY DEF Count, Store, Taking
  <2>4. IsFiniteSet(Taking(slots, a))
    BY IdsCount DEF Taking
  <2>5. Cardinality(Taking(slots', a)) <= Cardinality(Taking(slots, a))
    BY <2>4, FS_Subset
  <2>6. /\ Cardinality(Taking(slots', a)) \in Nat /\ Cardinality(Taking(slots, a)) \in Nat
        /\ Quota[s] \in Nat
    BY IdsCount DEF Taking, TransfersAssumption
  <2> QED
    BY <2>1, <2>2, <2>3, <2>5, <2>6
<1> QED
  BY <1>1 DEF WithinQuota

(* Slots that nobody has checked out go, and nothing else happens to requests. *)
LEMMA PurgeStep ==
    ASSUME TransfersAssumption, TransfersInvariant, Purges(slots'),
           UNCHANGED <<pc, at, held, asked, begun, received>>
    PROVE  SlotsOwned' /\ WithinQuota' /\ OnlyBegun' /\ Positions'
<1>a. Active' = Active
  BY DEF Active
<1>1. SlotsOwned'
  BY <1>a DEF Purges, TransfersInvariant, TransfersConsistent, TypeOK, SlotsOwned, Positions
<1>2. WithinQuota'
  <2>1. \A a \in Accounts : Taking(slots', a) \subseteq Taking(slots, a)
    BY DEF Purges, Taking
  <2> QED
    BY <2>1, QuotaFrame
<1>3. OnlyBegun'
  BY <1>a DEF Purges, TransfersInvariant, OnlyBegun
<1>4. Positions'
  BY <1>a DEF Purges, TransfersInvariant, Positions, Idle
<1> QED
  BY <1>1, <1>2, <1>3, <1>4

(* Steps that leave the slots, the requests and the history alone. *)
LEMMA SlotsFrame ==
    ASSUME TransfersAssumption, TransfersInvariant,
           UNCHANGED <<slots, idle, nextExpiry, hasIdle, pc, at, held, asked, begun, received>>
    PROVE  SlotsOwned' /\ BoundIsEarly' /\ WithinQuota' /\ OnlyBegun' /\ Positions'
<1>1. Purges(slots')
  BY DEF Purges
<1>2. BoundIsEarly'
  BY DEF BoundIsEarly, Idle, TransfersInvariant, TransfersConsistent
<1> QED
  BY <1>1, <1>2, PurgeStep

(* CleanupTasks::start keeps the tasks' type. *)
LEMMA TasksType ==
    ASSUME TypeOK, NEW r \in Runtimes
    PROVE  /\ Started(r) \in [Runtimes -> {"none", "scanning", "asleep", "gone"}]
           /\ Restarted(r) \in [Runtimes -> {"none", "scanning", "asleep", "gone"}]
           /\ Asleep \subseteq Runtimes
  BY DEF TypeOK, Started, Restarted, Asleep

LEMMA TransfersInit ==
    ASSUME TransfersAssumption, Init
    PROVE  TransfersInvariant
<1>1. Idle(slots) = {} /\ Active = {}
  BY DEF Init, Idle, Active
<1>2. Cardinality(Idle(slots)) = 0 /\ Cardinality(Ids) \in Nat
  BY <1>1, FS_EmptySet, FS_CardinalityType DEF TransfersAssumption
<1>3. TypeOK
  <2>1. idle \in 0..Cardinality(Ids) /\ now \in 0..MaxNow /\ 0 \in 0..Size
    BY <1>2 DEF Init, TransfersAssumption
  <2>2. hasIdle \in BOOLEAN
    BY DEF Init
  <2> QED
    BY <2>1, <2>2 DEF Init, TypeOK
<1>4. SlotsOwned /\ OnlyBegun /\ Positions
  BY <1>1 DEF Init, SlotsOwned, OnlyBegun, Positions
<1>5. BoundIsEarly
  <2>1. idle = Cardinality(Idle(slots))
    BY <1>2 DEF Init
  <2>2. hasIdle = (idle > 0)
    <3>1. (0 > 0) = FALSE
      OBVIOUS
    <3> QED
      BY <3>1, Zenon DEF Init
  <2> QED
    BY <1>1, <2>1, <2>2 DEF BoundIsEarly
<1>6. WithinQuota
  <2>1. PICK s \in Sessions : \A t \in Sessions : Quota[t] <= Quota[s]
    BY DEF TransfersAssumption
  <2>2. \A a \in Accounts : Count(Store, a) = 0
    <3>1. \A a \in Accounts : {i \in Ids : slots[i] # None /\ slots[i].account = a} = {}
      BY DEF Init
    <3> QED
      BY <3>1, FS_EmptySet DEF Count, Store
  <2>3. Quota[s] \in Nat
    BY DEF TransfersAssumption
  <2> QED
    BY <2>1, <2>2, <2>3 DEF WithinQuota
<1> QED
  BY <1>3, <1>4, <1>5, <1>6 DEF TransfersInvariant, TransfersConsistent

-----------------------------------------------------------------------------
(* Executors, the clock, and steps that change nothing. *)
LEMMA TaskSteps ==
    ASSUME TransfersAssumption, TransfersInvariant,
           \/ \E r \in Runtimes : OtherRequest(r) \/ WakeUp(r) \/ Shutdown(r)
           \/ Tick \/ UNCHANGED vars
    PROVE  TransfersInvariant'
<1>1. UNCHANGED <<slots, idle, nextExpiry, hasIdle, pc, at, held, asked, begun, received,
                  tokens, closed>>
  BY DEF OtherRequest, WakeUp, Shutdown, Tick, vars, slotVars, callVars
<1>2. SlotsOwned' /\ BoundIsEarly' /\ WithinQuota' /\ OnlyBegun' /\ Positions'
  BY <1>1, SlotsFrame
<1>t. TypeOK
  BY DEF TransfersInvariant, TransfersConsistent
<1>3. /\ tasks' \in [Runtimes -> {"none", "scanning", "asleep", "gone"}]
      /\ alarm' \in [Runtimes -> Nat \cup {None}] /\ told' \subseteq Runtimes
  BY <1>t, TasksType DEF TypeOK, OtherRequest, WakeUp, Shutdown, Tick, vars, taskVars
<1>4. now' \in 0..MaxNow
  BY <1>t DEF TypeOK, TransfersAssumption, OtherRequest, WakeUp, Shutdown, Tick, vars
<1>5. TypeOK'
  BY <1>t, <1>1, <1>3, <1>4 DEF TypeOK
<1> QED
  BY <1>2, <1>5 DEF TransfersInvariant, TransfersConsistent

(* One turn of expire_idle. *)
LEMMA ScanStep ==
    ASSUME TransfersAssumption, TransfersInvariant, NEW r \in Runtimes, Scan(r)
    PROVE  TransfersInvariant'
<1>1. PICK live : live = ExpireDue(Store)
  OBVIOUS
<1>2. Sound(live) /\ Purges(live.slots)
  BY <1>1, ExpireDueSound
<1>3. Sound(Scanned(live)) /\ Scanned(live).slots = live.slots
  <2>1. CASE live.idle # 0
    BY <2>1, <1>2 DEF Scanned
  <2>2. CASE live.idle = 0
    <3>1. Scanned(live) = [slots |-> live.slots, idle |-> 0, next |-> None]
      BY <2>2, <1>2 DEF Scanned, Sound
    <3>2. IsFiniteSet(Idle(live.slots)) /\ Cardinality(Idle(live.slots)) = 0
      BY <2>2, <1>2, IdsCount DEF Sound, Idle
    <3>3. Idle(live.slots) = {}
      BY <3>2, FS_EmptySet
    <3> QED
      BY <1>2, <3>1, <3>2, <3>3 DEF Sound
  <2> QED
    BY <2>1, <2>2
<1>4. Installed(Scanned(live))
  BY <1>1 DEF Scan
<1>5. /\ slots' = live.slots /\ slots' \in SlotMap /\ idle' \in 0..Cardinality(Ids)
      /\ nextExpiry' \in Nat \cup {None} /\ hasIdle' \in BOOLEAN /\ BoundIsEarly'
  BY <1>3, <1>4, InstalledBound
<1>6. SlotsOwned' /\ WithinQuota' /\ OnlyBegun' /\ Positions'
  BY <1>2, <1>5, PurgeStep DEF Scan, callVars
<1>t. TypeOK
  BY DEF TransfersInvariant, TransfersConsistent
<1>7. TypeOK'
  BY <1>t, <1>5 DEF TypeOK, SlotMap, Scan, callVars
<1> QED
  BY <1>5, <1>6, <1>7 DEF TransfersInvariant, TransfersConsistent

(* TransferSession::drop *)
LEMMA CloseSessionStep ==
    ASSUME TransfersAssumption, TransfersInvariant, NEW s \in Sessions, CloseSession(s)
    PROVE  TransfersInvariant'
<1> DEFINE kept == [i \in Ids |-> IF slots[i] # None /\ slots[i].session = s
                                  THEN None ELSE slots[i]]
<1>t. TypeOK /\ slots \in SlotMap
  BY DEF TransfersInvariant, TransfersConsistent, TypeOK, SlotMap
<1>1. kept \in SlotMap
  BY <1>t DEF SlotMap
<1>2. Purges(kept)
  BY DEF Purges, CloseSession, Active
<1>3. PICK fresh : fresh = [slots |-> kept, idle |-> Cardinality(Idle(kept)),
                            next |-> Earliest(kept)]
  OBVIOUS
<1>4. Sound(fresh) /\ Installed(fresh) /\ fresh.slots = kept
  BY <1>1, <1>3, SoundAfresh DEF CloseSession
<1> HIDE DEF kept
<1>5. /\ slots' = kept /\ slots' \in SlotMap /\ idle' \in 0..Cardinality(Ids)
      /\ nextExpiry' \in Nat \cup {None} /\ hasIdle' \in BOOLEAN /\ BoundIsEarly'
  BY <1>4, InstalledBound
<1>6. SlotsOwned' /\ WithinQuota' /\ OnlyBegun' /\ Positions'
  BY <1>2, <1>5, PurgeStep DEF CloseSession, callVars
<1>7. TypeOK'
  BY <1>t, <1>5 DEF TypeOK, SlotMap, CloseSession, callVars, Asleep
<1> QED
  BY <1>5, <1>6, <1>7 DEF TransfersInvariant, TransfersConsistent

(* What is known of a request that reads, and of its slot. *)
LEMMA Reading ==
    ASSUME TransfersAssumption, TransfersInvariant, NEW c \in Calls, pc[c] = "reading"
    PROVE  /\ at[c] \in Ids /\ at[c] \in begun /\ slots[at[c]] \in Slot /\ slots[at[c]] # None
           /\ slots[at[c]].entry = None /\ at[c] \notin Idle(slots)
           /\ held[c] \in Entry /\ held[c].offset = received[at[c]]
           /\ \A d \in Active : at[d] = at[c] => d = c
<1>1. c \in Active
  BY DEF Active
<1>2. at[c] \in Ids /\ held[c] # None /\ held[c].offset = received[at[c]] /\ at[c] \in begun
  BY <1>1 DEF TransfersInvariant, Positions, OnlyBegun
<1>3. slots[at[c]] # None /\ slots[at[c]].entry = None
  BY <1>1, <1>2 DEF TransfersInvariant, TransfersConsistent, SlotsOwned
<1>4. slots[at[c]] \in Slot /\ held[c] \in Entry
  BY <1>2, <1>3 DEF TransfersInvariant, TransfersConsistent, TypeOK
<1> QED
  BY <1>1, <1>2, <1>3, <1>4 DEF TransfersInvariant, TransfersConsistent, SlotsOwned, Idle

(* A request leaves, and its slot with it: it failed, or the last page was sent. *)
LEMMA LeavesWithSlot ==
    ASSUME TransfersAssumption, TransfersInvariant, NEW c \in Calls, pc[c] = "reading",
           DropReservation(c), Outside(c), begun' = begun,
           received' \in [Ids -> 0..Size],
           \A i \in Ids \ {at[c]} : received'[i] = received[i]
    PROVE  /\ slots' \in SlotMap /\ BoundIsEarly'
           /\ SlotsOwned' /\ WithinQuota' /\ OnlyBegun' /\ Positions'
<1>r. /\ at[c] \in Ids /\ at[c] \in begun /\ slots[at[c]].entry = None
      /\ at[c] \notin Idle(slots) /\ \A d \in Active : at[d] = at[c] => d = c
  BY Reading
<1>t. /\ slots \in SlotMap /\ pc \in [Calls -> {"outside", "reading"}]
      /\ at \in [Calls -> Ids \cup {None}] /\ held \in [Calls -> Entry \cup {None}]
      /\ asked \in [Calls -> 0..Size]
  BY DEF TransfersInvariant, TransfersConsistent, TypeOK, SlotMap
<1>s. /\ slots' \in SlotMap /\ slots'[at[c]] = None
      /\ \A i \in Ids \ {at[c]} : slots'[i] = slots[i]
  BY <1>r, <1>t DEF DropReservation, SlotMap
<1>o. /\ Active' = Active \ {c}
      /\ \A d \in Active' : at'[d] = at[d] /\ held'[d] = held[d] /\ asked'[d] = asked[d]
  BY <1>t DEF Outside, Active
<1>i. Idle(slots)' = Idle(slots)
  BY <1>r, <1>s DEF Idle
<1>1. BoundIsEarly'
  BY <1>i, <1>s, <1>r DEF TransfersInvariant, TransfersConsistent, BoundIsEarly, DropReservation,
     Idle
<1>2. SlotsOwned'
  BY <1>r, <1>s, <1>o DEF TransfersInvariant, TransfersConsistent, SlotsOwned, Positions
<1>3. WithinQuota'
  <2>1. \A a \in Accounts : Taking(slots', a) \subseteq Taking(slots, a)
    BY <1>s DEF Taking
  <2> QED
    BY <2>1, QuotaFrame
<1>4. OnlyBegun'
  BY <1>r, <1>s, <1>o DEF TransfersInvariant, OnlyBegun
<1>5. Positions'
  BY <1>r, <1>s, <1>o, <1>i DEF TransfersInvariant, Positions, Idle
<1> QED
  BY <1>s, <1>1, <1>2, <1>3, <1>4, <1>5

LEMMA FailStep ==
    ASSUME TransfersAssumption, TransfersInvariant, NEW c \in Calls, Fail(c)
    PROVE  TransfersInvariant'
<1>t. TypeOK
  BY DEF TransfersInvariant, TransfersConsistent
<1>1. /\ slots' \in SlotMap /\ BoundIsEarly'
      /\ SlotsOwned' /\ WithinQuota' /\ OnlyBegun' /\ Positions'
  BY <1>t, LeavesWithSlot DEF Fail, TypeOK
<1>2. 0 \in 0..Size
  BY DEF TransfersAssumption
<1>3. TypeOK'
  BY <1>t, <1>1, <1>2 DEF TypeOK, SlotMap, Fail, Outside, DropReservation, taskVars
<1> QED
  BY <1>1, <1>3 DEF TransfersInvariant, TransfersConsistent

(* A page that is not the last: the reader goes back, and a token names its place. *)
Retains(c, next) ==
    LET i == at[c] IN
    /\ received' = [received EXCEPT ![i] = next]
    /\ slots' = [slots EXCEPT ![i].entry = [held[c] EXCEPT !.offset = next]]
    /\ idle' = idle + 1
    /\ nextExpiry' = IF RetainedNews(i) THEN slots[i].expires ELSE nextExpiry
    /\ hasIdle' = TRUE
    /\ Outside(c)
    /\ begun' = begun

LEMMA RetainStep ==
    ASSUME TransfersAssumption, TransfersInvariant, NEW c \in Calls, pc[c] = "reading",
           NEW next \in 0..Size, Retains(c, next)
    PROVE  /\ slots' \in SlotMap /\ idle' \in 0..Cardinality(Ids)
           /\ nextExpiry' \in Nat \cup {None} /\ BoundIsEarly'
           /\ SlotsOwned' /\ WithinQuota' /\ OnlyBegun' /\ Positions'
<1>0. PICK i \in Ids : i = at[c]
  BY Reading
<1>r. /\ i \in begun /\ slots[i] \in Slot /\ slots[i] # None /\ slots[i].entry = None
      /\ i \notin Idle(slots) /\ held[c] \in Entry
      /\ \A d \in Active : at[d] = i => d = c
  BY <1>0, Reading
<1>t. /\ slots \in SlotMap /\ pc \in [Calls -> {"outside", "reading"}]
      /\ at \in [Calls -> Ids \cup {None}] /\ held \in [Calls -> Entry \cup {None}]
      /\ asked \in [Calls -> 0..Size] /\ received \in [Ids -> 0..Size]
      /\ nextExpiry \in Nat \cup {None}
  BY DEF TransfersInvariant, TransfersConsistent, TypeOK, SlotMap
<1>e. PICK back \in Entry : back = [held[c] EXCEPT !.offset = next] /\ back.offset = next
  <2>1. PICK old \in Entry : old = held[c]
    BY <1>r
  <2>2. [old EXCEPT !.offset = next] \in Entry /\ [old EXCEPT !.offset = next].offset = next
    BY DEF Entry
  <2> QED
    BY <2>1, <2>2
<1>f. PICK filled \in Slot : /\ filled = [slots[i] EXCEPT !.entry = back] /\ filled.entry = back
                             /\ filled.account = slots[i].account
                             /\ filled.expires = slots[i].expires
  <2>1. PICK old \in Slot : old = slots[i]
    BY <1>r
  <2>2. /\ [old EXCEPT !.entry = back] \in Slot /\ [old EXCEPT !.entry = back].entry = back
        /\ [old EXCEPT !.entry = back].account = old.account
        /\ [old EXCEPT !.entry = back].expires = old.expires
    BY DEF Slot
  <2> QED
    BY <2>1, <2>2
<1>n. back # None /\ filled # None
  BY DEF TransfersAssumption
<1>s. /\ slots' = [slots EXCEPT ![i] = filled] /\ slots' \in SlotMap /\ slots'[i] = filled
      /\ \A j \in Ids \ {i} : slots'[j] = slots[j]
  BY <1>0, <1>e, <1>f, <1>t DEF Retains, SlotMap
<1>o. /\ Active' = Active \ {c}
      /\ \A d \in Active' : at'[d] = at[d] /\ held'[d] = held[d] /\ asked'[d] = asked[d]
  BY <1>t DEF Retains, Outside, Active
<1>v. received'[i] = next /\ \A j \in Ids \ {i} : received'[j] = received[j]
  BY <1>0, <1>t DEF Retains
<1>i. Idle(slots)' = Idle(slots) \cup {i} /\ Idle(slots') = Idle(slots) \cup {i}
  <2>1. slots'[i] # None /\ slots'[i].entry # None
    BY <1>s, <1>f, <1>n
  <2>2. Idle(slots') = Idle(slots) \cup {i}
    BY <1>s, <2>1 DEF Idle
  <2>3. Idle(slots)' = Idle(slots')
    BY DEF Idle
  <2> QED
    BY <2>2, <2>3
<1>1. idle' = Cardinality(Idle(slots')) /\ idle' \in 0..Cardinality(Ids) /\ idle' > 0
  <2>1. IsFiniteSet(Idle(slots)) /\ idle = Cardinality(Idle(slots))
    BY IdsCount DEF Idle, TransfersInvariant, TransfersConsistent, BoundIsEarly
  <2>2. Cardinality(Idle(slots) \cup {i}) = Cardinality(Idle(slots)) + 1
    BY <1>r, <2>1, FS_AddElement
  <2>3. /\ Cardinality(Idle(slots')) \in 0..Cardinality(Ids)
        /\ Cardinality(Idle(slots)) \in Nat
    BY IdsCount DEF Idle
  <2>4. idle' = idle + 1
    BY DEF Retains
  <2> QED
    BY <1>i, <2>1, <2>2, <2>3, <2>4
<1>2. nextExpiry' \in Nat \cup {None}
  BY <1>0, <1>r, <1>t DEF Retains, Slot
<1>3. \A j \in Idle(slots') : nextExpiry' # None /\ nextExpiry' <= slots'[j].expires
  <2>1. slots[i].expires \in Nat /\ slots[i].expires # None
    BY <1>r DEF Slot, TransfersAssumption
  <2>2. nextExpiry' = IF nextExpiry = None \/ (nextExpiry # None /\ slots[i].expires < nextExpiry)
                      THEN slots[i].expires ELSE nextExpiry
    BY <1>0 DEF Retains, RetainedNews
  <2>3. nextExpiry' \in Nat /\ nextExpiry' # None /\ nextExpiry' <= slots[i].expires
    BY <2>1, <2>2, <1>t DEF TransfersAssumption
  <2>4. \A j \in Idle(slots) : nextExpiry # None /\ nextExpiry <= slots[j].expires
                               /\ slots[j].expires \in Nat
    BY <1>t DEF TransfersInvariant, TransfersConsistent, BoundIsEarly, Idle, SlotMap, Slot
  <2>5. \A j \in Idle(slots) : nextExpiry' <= slots[j].expires
    BY <2>1, <2>2, <2>4, <1>t
  <2>6. \A j \in Idle(slots) : j \in Ids /\ j # i /\ slots'[j] = slots[j]
    BY <1>r, <1>s DEF Idle
  <2> QED
    BY <1>i, <1>s, <1>f, <2>3, <2>5, <2>6
<1>4. BoundIsEarly'
  <2>1. hasIdle' = (idle' > 0)
    <3>1. (idle' > 0) = TRUE
      BY <1>1
    <3> QED
      BY <3>1, Zenon DEF Retains
  <2>2. Idle(slots)' = Idle(slots')
    BY <1>i
  <2> QED
    BY <1>1, <1>3, <2>1, <2>2 DEF BoundIsEarly
<1>5. SlotsOwned'
  <2>1. \A d \in Active' : d \in Active /\ at'[d] = at[d] /\ at[d] \in Ids \ {i}
    BY <1>0, <1>r, <1>o DEF TransfersInvariant, Positions
  <2>2. \A d \in Active : at[d] # i => d \in Active'
    BY <1>0, <1>o
  <2>3. \A d, e \in Active' : at'[d] = at'[e] => d = e
    BY <2>1 DEF TransfersInvariant, TransfersConsistent, SlotsOwned
  <2>4. \A d \in Active' : slots'[at'[d]] # None
    BY <2>1, <1>s DEF TransfersInvariant, TransfersConsistent, SlotsOwned
  <2>5. ASSUME NEW j \in Ids, slots'[j] # None
        PROVE  slots'[j].entry = None <=> \E d \in Active' : at'[d] = j
    <3>1. CASE j = i
      BY <3>1, <1>s, <1>f, <1>n, <2>1
    <3>2. CASE j # i
      BY <3>2, <2>5, <1>s, <2>1, <2>2 DEF TransfersInvariant, TransfersConsistent, SlotsOwned
    <3> QED
      BY <3>1, <3>2
  <2> QED
    BY <2>3, <2>4, <2>5 DEF SlotsOwned
<1>6. WithinQuota'
  <2>1. \A a \in Accounts : Taking(slots', a) \subseteq Taking(slots, a)
    BY <1>s, <1>f, <1>r DEF Taking
  <2> QED
    BY <2>1, QuotaFrame
<1>7. OnlyBegun'
  BY <1>r, <1>s, <1>o, <1>v DEF TransfersInvariant, OnlyBegun, Retains
<1>8. Positions'
  <2>1. \A d \in Active' : /\ held'[d] # None /\ at'[d] \in Ids
                           /\ held'[d].offset = received'[at'[d]] /\ asked'[d] = received'[at'[d]]
    BY <1>0, <1>r, <1>o, <1>v DEF TransfersInvariant, Positions
  <2>2. \A j \in Idle(slots)' : slots'[j].entry.offset = received'[j]
    BY <1>i, <1>r, <1>s, <1>f, <1>e, <1>v DEF TransfersInvariant, Positions, Idle
  <2> QED
    BY <2>1, <2>2 DEF Positions
<1> QED
  BY <1>s, <1>1, <1>2, <1>4, <1>5, <1>6, <1>7, <1>8

LEMMA DeliverStep ==
    ASSUME TransfersAssumption, TransfersInvariant, NEW c \in Calls, Deliver(c)
    PROVE  TransfersInvariant'
<1>t. TypeOK
  BY DEF TransfersInvariant, TransfersConsistent
<1>r. /\ pc[c] = "reading" /\ at[c] \in Ids /\ held[c] \in Entry /\ slots[at[c]] \in Slot
      /\ held[c].offset \in 0..Size /\ RuntimeOf[c] \in Runtimes
  BY Reading DEF Deliver, Entry, TransfersAssumption
<1>0. PICK n \in 0..Chunk :
          LET i == at[c]
              next == held[c].offset + n
          IN  /\ next <= Size
              /\ received' = [received EXCEPT ![i] = next]
              /\ \/ /\ next = Size
                    /\ DropReservation(c)
                    /\ UNCHANGED <<tokens, tasks, told>>
                 \/ /\ next # Size
                    /\ slots' = [slots EXCEPT ![i].entry = [held[c] EXCEPT !.offset = next]]
                    /\ idle' = idle + 1
                    /\ nextExpiry' = IF RetainedNews(i) THEN slots[i].expires ELSE nextExpiry
                    /\ hasIdle' = TRUE
                    /\ tokens' = tokens \cup {[session |-> slots[i].session, id |-> i,
                                               offset |-> next]}
                    /\ tasks' = Started(RuntimeOf[c])
                    /\ told' = IF RetainedNews(i) THEN told \cup Asleep ELSE told
  BY DEF Deliver
<1>n. PICK next \in 0..Size : next = held[c].offset + n
  BY <1>0, <1>r DEF TransfersAssumption
<1>v. /\ received' = [received EXCEPT ![at[c]] = next] /\ received' \in [Ids -> 0..Size]
      /\ \A i \in Ids \ {at[c]} : received'[i] = received[i]
  BY <1>0, <1>n, <1>r, <1>t DEF TypeOK
<1>o. Outside(c) /\ UNCHANGED <<closed, begun, alarm, now>>
  BY DEF Deliver
<1>z. 0 \in 0..Size
  BY DEF TransfersAssumption
<1>1. CASE next = Size
  <2>1. DropReservation(c) /\ UNCHANGED <<tokens, tasks, told>>
    BY <1>0, <1>n, <1>1
  <2>2. /\ slots' \in SlotMap /\ BoundIsEarly'
        /\ SlotsOwned' /\ WithinQuota' /\ OnlyBegun' /\ Positions'
    BY <2>1, <1>r, <1>v, <1>o, LeavesWithSlot
  <2>3. TypeOK'
    BY <1>t, <1>v, <1>o, <1>z, <2>1, <2>2 DEF TypeOK, SlotMap, Outside, DropReservation
  <2> QED
    BY <2>2, <2>3 DEF TransfersInvariant, TransfersConsistent
<1>2. CASE next # Size
  <2>1. Retains(c, next)
    BY <1>0, <1>n, <1>2, <1>v, <1>o DEF Retains
  <2>2. /\ slots' \in SlotMap /\ idle' \in 0..Cardinality(Ids)
        /\ nextExpiry' \in Nat \cup {None} /\ BoundIsEarly'
        /\ SlotsOwned' /\ WithinQuota' /\ OnlyBegun' /\ Positions'
    BY <2>1, <1>r, RetainStep
  <2>3. /\ tokens' \subseteq Token
        /\ tasks' \in [Runtimes -> {"none", "scanning", "asleep", "gone"}]
        /\ told' \subseteq Runtimes
    <3>1. [session |-> slots[at[c]].session, id |-> at[c], offset |-> next] \in Token
      BY <1>r DEF Slot, Token
    <3> QED
      BY <1>0, <1>n, <1>2, <1>t, <1>r, <3>1, TasksType DEF TypeOK
  <2>4. hasIdle' \in BOOLEAN
    BY <2>1 DEF Retains
  <2>5. TypeOK'
    BY <1>t, <1>v, <1>o, <1>z, <2>2, <2>3, <2>4 DEF TypeOK, SlotMap, Outside
  <2> QED
    BY <2>2, <2>5 DEF TransfersInvariant, TransfersConsistent
<1> QED
  BY <1>1, <1>2

-----------------------------------------------------------------------------
(* Request c begins to read at slot i, with reader e: what Reserve and Checkout
   leave behind, the slots before being those that expire_due left. *)
Begins(c, i, e, live) ==
    /\ pc' = [pc EXCEPT ![c] = "reading"]
    /\ at' = [at EXCEPT ![c] = i]
    /\ held' = [held EXCEPT ![c] = e]
    /\ asked' = [asked EXCEPT ![c] = e.offset]
    /\ slots'[i] # None /\ slots'[i].entry = None
    /\ \A j \in Ids \ {i} : slots'[j] = live[j]
    /\ received' = received

LEMMA BeginsStep ==
    ASSUME TransfersAssumption, TransfersInvariant, NEW c \in Calls, pc[c] = "outside",
           NEW i \in Ids, NEW e \in Entry, NEW live, Purges(live), Begins(c, i, e, live),
           slots' \in SlotMap, i \notin Idle(slots'),
           \A d \in Active : at[d] # i, e.offset = received[i],
           begun' = begun \cup {i}
    PROVE  SlotsOwned' /\ OnlyBegun' /\ Positions'
<1>t. /\ pc \in [Calls -> {"outside", "reading"}] /\ at \in [Calls -> Ids \cup {None}]
      /\ held \in [Calls -> Entry \cup {None}] /\ asked \in [Calls -> 0..Size]
  BY DEF TransfersInvariant, TransfersConsistent, TypeOK
<1>a. /\ Active' = Active \cup {c} /\ c \notin Active
      /\ at'[c] = i /\ held'[c] = e /\ asked'[c] = e.offset
      /\ \A d \in Active : at'[d] = at[d] /\ held'[d] = held[d] /\ asked'[d] = asked[d]
  BY <1>t DEF Begins, Active
<1>p. \A d \in Active : at[d] \in Ids \ {i} /\ slots[at[d]] # None
  BY DEF TransfersInvariant, TransfersConsistent, SlotsOwned, Positions
<1>s. \A j \in Ids \ {i} :
          slots'[j] = slots[j] \/ (slots'[j] = None /\ \A d \in Active : at[d] # j)
  BY DEF Begins, Purges
<1>1. SlotsOwned'
  <2>1. \A d, f \in Active' : at'[d] = at'[f] => d = f
    BY <1>a, <1>p DEF TransfersInvariant, TransfersConsistent, SlotsOwned
  <2>2. \A d \in Active' : slots'[at'[d]] # None
    BY <1>a, <1>p, <1>s DEF Begins
  <2>3. ASSUME NEW j \in Ids, slots'[j] # None
        PROVE  slots'[j].entry = None <=> \E d \in Active' : at'[d] = j
    <3>1. CASE j = i
      BY <3>1, <1>a DEF Begins
    <3>2. CASE j # i
      BY <3>2, <2>3, <1>a, <1>s DEF TransfersInvariant, TransfersConsistent, SlotsOwned
    <3> QED
      BY <3>1, <3>2
  <2> QED
    BY <2>1, <2>2, <2>3 DEF SlotsOwned
<1>2. OnlyBegun'
  BY <1>a, <1>s DEF TransfersInvariant, OnlyBegun, Begins
<1>3. Positions'
  <2>1. \A d \in Active' : /\ held'[d] # None /\ at'[d] \in Ids
                           /\ held'[d].offset = received'[at'[d]] /\ asked'[d] = received'[at'[d]]
    BY <1>a, <1>p DEF TransfersAssumption, TransfersInvariant, Positions, Begins
  <2>2. \A j \in Idle(slots)' : slots'[j].entry.offset = received'[j]
    BY <1>s DEF TransfersInvariant, Positions, Idle, Begins
  <2> QED
    BY <2>1, <2>2 DEF Positions
<1> QED
  BY <1>1, <1>2, <1>3

(* A new transfer: one slot more, within the quota of the session that asks. *)
LEMMA ReserveStep ==
    ASSUME TransfersAssumption, TransfersInvariant, NEW c \in Calls, Reserve(c)
    PROVE  TransfersInvariant'
<1>t. TypeOK
  BY DEF TransfersInvariant, TransfersConsistent
<1>1. PICK live : live = ExpireDue(Store)
  OBVIOUS
<1>2. Sound(live) /\ Purges(live.slots)
  BY <1>1, ExpireDueSound
<1>3. PICK s \in Sessions \ closed, a \in Accounts, scope \in Scopes, i \in Ids \ begun :
          /\ Count(live, a) < Quota[s]
          /\ Installed([live EXCEPT !.slots[i] =
                 [session |-> s, account |-> a, expires |-> now + Duration, entry |-> None]])
          /\ held' = [held EXCEPT ![c] = [scope |-> scope, offset |-> 0]]
          /\ at' = [at EXCEPT ![c] = i]
          /\ begun' = begun \cup {i}
  BY <1>1 DEF Reserve
<1>n. PICK new \in Slot : new = [session |-> s, account |-> a, expires |-> now + Duration,
                                 entry |-> None]
  <2>1. now + Duration \in Nat
    BY <1>t DEF TypeOK, TransfersAssumption
  <2> QED
    BY <2>1 DEF Slot
<1>m. new # None /\ new.entry = None /\ new.account = a
  BY <1>n DEF TransfersAssumption
<1>l. live \in [slots : SlotMap, idle : Nat, next : Nat \cup {None}]
  BY <1>2 DEF Sound
<1>i. slots[i] = None /\ live.slots[i] = None /\ \A d \in Active : at[d] # i
  BY <1>2 DEF TransfersInvariant, OnlyBegun, Purges
<1>d. PICK f \in SlotMap : f = [live.slots EXCEPT ![i] = new]
  BY <1>l DEF SlotMap
<1>g. f[i] = new /\ \A j \in Ids \ {i} : f[j] = live.slots[j]
  BY <1>d, <1>l DEF SlotMap
<1>h. Idle(f) = Idle(live.slots) /\ i \notin Idle(f)
  BY <1>g, <1>m, <1>i DEF Idle
<1>4. PICK store : /\ store = [slots |-> f, idle |-> live.idle, next |-> live.next]
                   /\ Installed(store)
  <2>1. [live EXCEPT !.slots[i] = new] = [slots |-> f, idle |-> live.idle, next |-> live.next]
    BY <1>l, <1>d
  <2> QED
    BY <1>3, <1>n, <2>1
<1>5. Sound(store) /\ store.slots = f
  BY <1>2, <1>4, <1>h, <1>g, <1>l DEF Sound, Idle
<1>6. /\ slots' = f /\ slots' \in SlotMap /\ idle' \in 0..Cardinality(Ids)
      /\ nextExpiry' \in Nat \cup {None} /\ hasIdle' \in BOOLEAN /\ BoundIsEarly'
  BY <1>4, <1>5, InstalledBound
<1>e. PICK e \in Entry : e = [scope |-> scope, offset |-> 0] /\ e.offset = 0
  <2>1. 0 \in 0..Size
    BY DEF TransfersAssumption
  <2>2. [scope |-> scope, offset |-> 0] \in Entry
    BY <2>1 DEF Entry
  <2> QED
    BY <2>2
<1>7. SlotsOwned' /\ OnlyBegun' /\ Positions'
  <2>1. pc[c] = "outside" /\ received[i] = 0
    BY DEF Reserve, TransfersInvariant, OnlyBegun
  <2>2. Begins(c, i, e, live.slots)
    BY <1>3, <1>6, <1>g, <1>m, <1>e DEF Begins, Reserve
  <2>3. i \notin Idle(slots')
    BY <1>6, <1>h
  <2> QED
    BY <1>2, <1>3, <1>i, <1>6, <1>e, <2>1, <2>2, <2>3, BeginsStep
<1>8. WithinQuota'
  <2>1. ASSUME NEW b \in Accounts
        PROVE  \E p \in Sessions :
                  \A t \in Sessions : Quota[t] <= Quota[p] /\ Count(Store, b)' <= Quota[p]
    <3>1. Count(Store, b)' = Cardinality(Taking(f, b))
      BY <1>6 DEF Count, Store, Taking
    <3>2. CASE b = a
      <4>1. PICK p \in Sessions : \A t \in Sessions : Quota[t] <= Quota[p]
        BY DEF TransfersAssumption
      <4>2. Taking(f, a) = Taking(live.slots, a) \cup {i} /\ i \notin Taking(live.slots, a)
        BY <1>g, <1>m, <1>i DEF Taking
      <4>3. IsFiniteSet(Taking(live.slots, a)) /\ Cardinality(Taking(live.slots, a)) \in Nat
        BY IdsCount DEF Taking
      <4>4. Cardinality(Taking(f, a)) = Cardinality(Taking(live.slots, a)) + 1
        BY <4>2, <4>3, FS_AddElement
      <4>5. Cardinality(Taking(live.slots, a)) < Quota[s]
        BY <1>3 DEF Count, Taking
      <4>6. Quota[s] \in Nat /\ Quota[p] \in Nat /\ Quota[s] <= Quota[p]
        BY <4>1 DEF TransfersAssumption
      <4>7. Cardinality(Taking(f, a)) <= Quota[p]
        BY <4>3, <4>4, <4>5, <4>6
      <4> QED
        BY <3>1, <3>2, <4>1, <4>7
    <3>3. CASE b # a
      <4>1. PICK p \in Sessions :
                \A t \in Sessions : Quota[t] <= Quota[p] /\ Count(Store, b) <= Quota[p]
        BY DEF TransfersInvariant, TransfersConsistent, WithinQuota
      <4>2. Taking(f, b) \subseteq Taking(slots, b)
        BY <1>g, <1>m, <1>2, <3>3 DEF Taking, Purges
      <4>3. Count(Store, b) = Cardinality(Taking(slots, b))
        BY DEF Count, Store, Taking
      <4>4. IsFiniteSet(Taking(slots, b))
        BY IdsCount DEF Taking
      <4>5. Cardinality(Taking(f, b)) <= Cardinality(Taking(slots, b))
        BY <4>2, <4>4, FS_Subset
      <4>6. /\ Cardinality(Taking(f, b)) \in Nat /\ Cardinality(Taking(slots, b)) \in Nat
            /\ Quota[p] \in Nat
        BY IdsCount DEF Taking, TransfersAssumption
      <4> QED
        BY <3>1, <4>1, <4>3, <4>5, <4>6
    <3> QED
      BY <3>2, <3>3
  <2> QED
    BY <2>1 DEF WithinQuota
<1>9. TypeOK'
  <2>1. /\ tasks' \in [Runtimes -> {"none", "scanning", "asleep", "gone"}]
        /\ 0 \in 0..Size
    BY <1>t, TasksType DEF Reserve, TransfersAssumption
  <2>2. held' \in [Calls -> Entry \cup {None}] /\ at' \in [Calls -> Ids \cup {None}]
        /\ begun' \subseteq Ids
    BY <1>t, <1>3, <1>e DEF TypeOK
  <2> QED
    BY <1>t, <1>6, <2>1, <2>2 DEF TypeOK, SlotMap, Reserve
<1> QED
  BY <1>6, <1>7, <1>8, <1>9 DEF TransfersInvariant, TransfersConsistent

(* A transfer is continued, by the token for its next byte and before its expiry. *)
LEMMA CheckoutStep ==
    ASSUME TransfersAssumption, TransfersInvariant, NEW c \in Calls, Checkout(c)
    PROVE  /\ TransfersInvariant'
           /\ pc'[c] = "reading" => slots'[at'[c]].expires > now
<1>t. TypeOK
  BY DEF TransfersInvariant, TransfersConsistent
<1>1. PICK live : live = ExpireDue(Store)
  OBVIOUS
<1>2. /\ Sound(live) /\ Purges(live.slots)
      /\ \A i \in Idle(live.slots) : live.slots[i].expires > now
  BY <1>1, ExpireDueSound
<1>l. live \in [slots : SlotMap, idle : Nat, next : Nat \cup {None}]
  BY <1>2 DEF Sound
<1>3. PICK t \in tokens, scope \in Scopes :
          IF CanCheckout(live, t, scope)
          THEN /\ Installed([live EXCEPT !.slots[t.id].entry = None, !.idle = @ - 1])
               /\ held' = [held EXCEPT ![c] = live.slots[t.id].entry]
               /\ at' = [at EXCEPT ![c] = t.id]
               /\ asked' = [asked EXCEPT ![c] = t.offset]
               /\ pc' = [pc EXCEPT ![c] = "reading"]
          ELSE Installed(live) /\ UNCHANGED callVars
  BY <1>1 DEF Checkout
<1>k. tasks' \in [Runtimes -> {"none", "scanning", "asleep", "gone"}]
  BY <1>t, TasksType DEF Checkout, TransfersAssumption
<1>p. pc[c] = "outside"
  BY DEF Checkout
<1>4. CASE ~CanCheckout(live, t, scope)
  <2>1. Installed(live) /\ UNCHANGED callVars
    BY <1>3, <1>4
  <2>2. /\ slots' = live.slots /\ slots' \in SlotMap /\ idle' \in 0..Cardinality(Ids)
        /\ nextExpiry' \in Nat \cup {None} /\ hasIdle' \in BOOLEAN /\ BoundIsEarly'
    BY <1>2, <2>1, InstalledBound
  <2>3. SlotsOwned' /\ WithinQuota' /\ OnlyBegun' /\ Positions'
    BY <1>2, <2>1, <2>2, PurgeStep DEF Checkout, callVars
  <2>4. TypeOK'
    BY <1>t, <1>k, <2>1, <2>2 DEF TypeOK, SlotMap, Checkout, callVars
  <2>5. pc'[c] = "outside"
    BY <1>p, <2>1 DEF callVars
  <2> QED
    BY <2>2, <2>3, <2>4, <2>5 DEF TransfersInvariant, TransfersConsistent
<1>5. CASE CanCheckout(live, t, scope)
  <2>1. PICK i \in Ids : i = t.id
    BY <1>t DEF TypeOK, Token
  <2>2. live.slots[i] # None /\ live.slots[i].entry # None /\ live.slots[i].entry.offset = t.offset
    BY <1>5, <2>1 DEF CanCheckout
  <2>3. /\ i \in Idle(live.slots) /\ slots[i] = live.slots[i] /\ i \in Idle(slots)
        /\ i \in begun /\ \A d \in Active : at[d] # i
    <3>1. slots[i] = live.slots[i]
      BY <1>2, <2>2 DEF Purges
    <3> QED
      BY <2>2, <3>1 DEF Idle, TransfersInvariant, TransfersConsistent, SlotsOwned, OnlyBegun
  <2>o. PICK old \in Slot : old = live.slots[i]
    BY <1>l, <2>2 DEF SlotMap
  <2>e. PICK e \in Entry : e = old.entry /\ e.offset = t.offset /\ e.offset = received[i]
    BY <2>o, <2>2, <2>3 DEF Slot, TransfersInvariant, Positions
  <2>n. PICK new \in Slot : /\ new = [old EXCEPT !.entry = None] /\ new.entry = None
                            /\ new.account = old.account /\ new.expires = old.expires
    <3>1. /\ [old EXCEPT !.entry = None] \in Slot /\ [old EXCEPT !.entry = None].entry = None
          /\ [old EXCEPT !.entry = None].account = old.account
          /\ [old EXCEPT !.entry = None].expires = old.expires
      BY DEF Slot
    <3> QED
      BY <3>1
  <2>m. new # None
    BY DEF TransfersAssumption
  <2>d. PICK f \in SlotMap : f = [live.slots EXCEPT ![i] = new]
    BY <1>l DEF SlotMap
  <2>g. f[i] = new /\ \A j \in Ids \ {i} : f[j] = live.slots[j]
    BY <2>d, <1>l DEF SlotMap
  <2>h. Idle(f) = Idle(live.slots) \ {i}
    BY <2>g, <2>n DEF Idle
  <2>c. live.idle - 1 = Cardinality(Idle(f)) /\ live.idle - 1 \in Nat
    <3>1. IsFiniteSet(Idle(live.slots))
      BY IdsCount DEF Idle
    <3>2. Cardinality(Idle(live.slots) \ {i}) = Cardinality(Idle(live.slots)) - 1
      BY <3>1, <2>3, FS_RemoveElement
    <3>3. live.idle = Cardinality(Idle(live.slots))
      BY <1>2 DEF Sound
    <3>4. Cardinality(Idle(f)) \in Nat
      BY IdsCount DEF Idle
    <3> QED
      BY <2>h, <3>2, <3>3, <3>4
  <2>4. PICK store : /\ store = [slots |-> f, idle |-> live.idle - 1, next |-> live.next]
                     /\ Installed(store)
    <3>1. [live EXCEPT !.slots[i].entry = None, !.idle = live.idle - 1]
              = [slots |-> f, idle |-> live.idle - 1, next |-> live.next]
      <4>1. [live.slots EXCEPT ![i].entry = None] = f
        BY <2>o, <2>n, <2>d
      <4>2. live = [slots |-> live.slots, idle |-> live.idle, next |-> live.next]
        BY <1>l
      <4>3. PICK S, n, x : S = live.slots /\ n = live.idle /\ x = live.next
        OBVIOUS
      <4>4. [live EXCEPT !.slots[i].entry = None, !.idle = n - 1]
                = [[live EXCEPT !.slots = [S EXCEPT ![i].entry = None]] EXCEPT !.idle = n - 1]
        BY <4>2, <4>3
      <4>5. [live EXCEPT !.slots = f] = [slots |-> f, idle |-> n, next |-> x]
        BY <4>2, <4>3
      <4>6. [[slots |-> f, idle |-> n, next |-> x] EXCEPT !.idle = n - 1]
                = [slots |-> f, idle |-> n - 1, next |-> x]
        OBVIOUS
      <4> QED
        BY <4>1, <4>3, <4>4, <4>5, <4>6
    <3>2. Installed([live EXCEPT !.slots[i].entry = None, !.idle = live.idle - 1])
      BY <1>3, <1>5, <2>1, <1>l
    <3> QED
      BY <3>1, <3>2
  <2>5. Sound(store) /\ store.slots = f
    <3>1. store \in [slots : SlotMap, idle : Nat, next : Nat \cup {None}] /\ store.slots = f
      BY <2>4, <2>c, <1>l
    <3>2. store.idle = Cardinality(Idle(f)) /\ store.next = live.next
      BY <2>4, <2>c
    <3>3. \A j \in Idle(f) : live.next # None /\ live.next <= f[j].expires
      BY <1>2, <2>h, <2>g DEF Sound, Idle
    <3> QED
      BY <3>1, <3>2, <3>3 DEF Sound
  <2>6. /\ slots' = f /\ slots' \in SlotMap /\ idle' \in 0..Cardinality(Ids)
        /\ nextExpiry' \in Nat \cup {None} /\ hasIdle' \in BOOLEAN /\ BoundIsEarly'
    BY <2>4, <2>5, InstalledBound
  <2>a. /\ held' = [held EXCEPT ![c] = e] /\ at' = [at EXCEPT ![c] = i]
        /\ asked' = [asked EXCEPT ![c] = e.offset] /\ pc' = [pc EXCEPT ![c] = "reading"]
    BY <1>3, <1>5, <2>1, <2>o, <2>e
  <2>7. SlotsOwned' /\ OnlyBegun' /\ Positions'
    <3>1. Begins(c, i, e, live.slots)
      BY <2>a, <2>6, <2>g, <2>n, <2>m DEF Begins, Checkout
    <3>2. i \notin Idle(slots')
      BY <2>6, <2>h
    <3>3. begun' = begun \cup {i}
      BY <2>3 DEF Checkout
    <3> QED
      BY <1>2, <1>p, <2>3, <2>6, <2>e, <3>1, <3>2, <3>3, BeginsStep
  <2>8. WithinQuota'
    <3>1. \A a \in Accounts : Taking(slots', a) \subseteq Taking(slots, a)
      <4>1. slots[i] # None /\ slots'[i].account = slots[i].account
        BY <2>2, <2>3, <2>6, <2>g, <2>n, <2>o
      <4>2. \A j \in Ids \ {i} : slots'[j] = slots[j] \/ slots'[j] = None
        BY <2>6, <2>g, <1>2 DEF Purges
      <4> QED
        BY <4>1, <4>2 DEF Taking
    <3> QED
      BY <3>1, QuotaFrame
  <2>9. TypeOK'
    <3>1. e.offset \in 0..Size
      BY DEF Entry
    <3>2. /\ held' \in [Calls -> Entry \cup {None}] /\ at' \in [Calls -> Ids \cup {None}]
          /\ asked' \in [Calls -> 0..Size] /\ pc' \in [Calls -> {"outside", "reading"}]
      BY <1>t, <2>a, <3>1 DEF TypeOK
    <3> QED
      BY <1>t, <1>k, <2>6, <3>2 DEF TypeOK, SlotMap, Checkout
  <2>10. slots'[at'[c]].expires > now
    <3>1. at'[c] = i
      BY <1>t, <2>a DEF TypeOK
    <3>2. old.expires > now
      BY <1>2, <2>3, <2>o
    <3> QED
      BY <3>1, <3>2, <2>6, <2>g, <2>n
  <2> QED
    BY <2>6, <2>7, <2>8, <2>9, <2>10 DEF TransfersInvariant, TransfersConsistent
<1> QED
  BY <1>4, <1>5

LEMMA TransfersStep ==
    ASSUME TransfersAssumption, TransfersInvariant, [Next]_vars
    PROVE  TransfersInvariant'
<1>1. CASE \E c \in Calls : Reserve(c) \/ Checkout(c) \/ Fail(c) \/ Deliver(c)
  BY <1>1, ReserveStep, CheckoutStep, FailStep, DeliverStep
<1>2. CASE \E s \in Sessions : CloseSession(s)
  BY <1>2, CloseSessionStep
<1>3. CASE \E r \in Runtimes : Scan(r)
  BY <1>3, ScanStep
<1>4. CASE \/ \E r \in Runtimes : OtherRequest(r) \/ WakeUp(r) \/ Shutdown(r)
           \/ Tick \/ UNCHANGED vars
  BY <1>4, TaskSteps
<1> QED
  BY <1>1, <1>2, <1>3, <1>4 DEF Next

-----------------------------------------------------------------------------
(* For any number of requests, transfers and executors: a slot is there as long as
   its reader is in it or with one request, the counter and the bound are never too
   late, and reads in progress included no account has more transfers than the
   widest quota (transfers.rs). *)
THEOREM TransfersStayConsistent ==
    ASSUME TransfersAssumption
    PROVE  Spec => []TransfersConsistent
<1>1. Init => TransfersInvariant
  BY TransfersInit
<1>2. TransfersInvariant /\ [Next]_vars => TransfersInvariant'
  BY TransfersStep
<1>3. TransfersInvariant => TransfersConsistent
  BY DEF TransfersInvariant
<1> QED
  BY <1>1, <1>2, <1>3, PTL DEF Spec

(* get_attachment: bytes reach the caller in order and none twice, whichever tokens
   are sent again or at the same time, and no transfer is continued after its
   expiry, whether or not a task closed it. *)
THEOREM BytesInOrderInTime ==
    ASSUME TransfersAssumption
    PROVE  Spec => AttachmentSteps
<1>1. TransfersInvariant /\ [Next]_vars => [InOrder /\ NotAfterExpiry]_vars
  <2> SUFFICES ASSUME TransfersInvariant, Next
               PROVE  InOrder /\ NotAfterExpiry
    BY DEF vars
  <2>1. InOrder
    BY DEF TransfersInvariant, Positions, Active, InOrder
  <2>2. NotAfterExpiry
    <3> SUFFICES ASSUME NEW c \in Calls, pc[c] = "outside", pc'[c] = "reading"
                 PROVE  slots'[at'[c]].expires > now
      BY DEF NotAfterExpiry
    <3>t. TypeOK
      BY DEF TransfersInvariant, TransfersConsistent
    <3>1. Reserve(c) \/ Checkout(c)
      <4>1. ASSUME NEW d \in Calls, Reserve(d) \/ Checkout(d)
            PROVE  d = c
        BY <4>1, <3>t DEF TypeOK, Reserve, Checkout, callVars
      <4>2. ~\E d \in Calls : Fail(d) \/ Deliver(d)
        BY <3>t DEF TypeOK, Fail, Deliver, Outside
      <4>3. /\ ~\E s \in Sessions : CloseSession(s)
            /\ ~\E r \in Runtimes : OtherRequest(r) \/ Scan(r) \/ WakeUp(r) \/ Shutdown(r)
            /\ ~Tick
        BY DEF CloseSession, Scan, OtherRequest, WakeUp, Shutdown, Tick, callVars
      <4> QED
        BY <4>1, <4>2, <4>3 DEF Next
    <3>2. CASE Checkout(c)
      BY <3>2, CheckoutStep
    <3>3. CASE Reserve(c)
      <4>1. PICK s \in Sessions \ closed, a \in Accounts, i \in Ids :
                /\ Installed([ExpireDue(Store) EXCEPT !.slots[i] =
                      [session |-> s, account |-> a, expires |-> now + Duration, entry |-> None]])
                /\ at' = [at EXCEPT ![c] = i]
        BY <3>3 DEF Reserve
      <4>2. ExpireDue(Store) \in [slots : SlotMap, idle : Nat, next : Nat \cup {None}]
        BY ExpireDueSound DEF Sound
      <4>3. slots'[i].expires = now + Duration
        BY <4>1, <4>2 DEF Installed, SlotMap
      <4>4. at'[c] = i
        BY <4>1, <3>t DEF TypeOK
      <4> QED
        BY <4>3, <4>4, <3>t DEF TypeOK, TransfersAssumption
    <3> QED
      BY <3>1, <3>2, <3>3
  <2> QED
    BY <2>1, <2>2
<1>2. Init => TransfersInvariant
  BY TransfersInit
<1>3. TransfersInvariant /\ [Next]_vars => TransfersInvariant'
  BY TransfersStep
<1> QED
  BY <1>1, <1>2, <1>3, PTL DEF Spec, AttachmentSteps

-----------------------------------------------------------------------------
Stages == Publishing \cup {"validated", "open", "abort", "done", "crashed"}
EntryState == {"none", "ours", "other"}

ExportTyped ==
    /\ entries \in [Names -> EntryState] /\ durable \in [Names -> EntryState]
    /\ file \in Seq(Byte) /\ synced \in 0..Len(file) /\ in_place \in BOOLEAN
    /\ stage \in Stages /\ partial \in BOOLEAN /\ unreported_destination \in BOOLEAN
    /\ dest \in Names /\ aborts \in 0..3
    /\ disturbances \in Nat

Published(k) == k # 0 /\ (entries[k] = "ours" \/ durable[k] = "ours")

(* Nothing is published before the file is verified and synced. *)
SyncedFirst ==
    /\ \A k \in Names : Published(k) =>
           /\ file = Attachment /\ synced = Len(file)
           /\ stage \notin {"validated", "open", "sync", "check"}
    /\ stage \in Publishing => file = Attachment
    /\ stage \in Publishing \ {"sync"} => synced = Len(file)
    /\ stage = "link" => dest # 0

(* The partial file is the exporter's own, and it knows whether it is there. *)
PartialKnown ==
    /\ entries[0] # "other" /\ durable[0] # "other"
    /\ stage = "validated" => entries[0] = "none"
    /\ entries[0] = "ours" /\ stage # "crashed" => partial
    /\ stage \in {"validated", "syncdir", "final"} => ~partial
    /\ stage = "final" => durable = entries /\ entries[0] = "none"

(* A destination is told of as long as no receipt does. *)
DestinationKnown ==
    /\ stage # "crashed" =>
           \A k \in Names \ {0} : entries[k] = "ours" =>
               unreported_destination \/ receipt # <<>>
    /\ stage = "validated" => ~unreported_destination
    /\ receipt # <<>> => /\ stage \in {"abort", "done", "crashed"}
                         /\ outcome = "receipt" /\ ~partial /\ ~unreported_destination

(* Once only Drop is left to abort, a result that speaks of nothing left   *)
(* behind is true.                                                         *)
Silent == {"ExportFailed", "AttachmentTooLarge", "Cancelled"}
CleanSilence ==
    /\ stage = "abort" => aborts # 0
    /\ ((stage = "abort" /\ aborts = 1) \/ stage = "done") /\ outcome \in Silent =>
           ~partial /\ ~unreported_destination

ExportInvariant ==
    /\ ExportTyped /\ SyncedFirst /\ PartialKnown /\ DestinationKnown /\ CleanSilence /\ ReceiptIsTrue

-----------------------------------------------------------------------------
LEMMA NameFacts ==
    ASSUME ExportAssumption
    PROVE  /\ Names \subseteq Nat /\ 0 \in Names /\ 1 \in Names
           /\ \A k \in Names : k < NameCount => k + 1 \in Names /\ k + 1 # 0
BY DEF ExportAssumption, Names

LEMMA ExportAtInit ==
    ASSUME ExportAssumption
    PROVE  ExportInit => ExportInvariant
<1> SUFFICES ASSUME ExportInit PROVE ExportInvariant
  OBVIOUS
<1>0. 0 \in Names /\ <<>> \in Seq(Byte) /\ Len(<<>>) = 0
  BY NameFacts, EmptySeq
<1>1. ExportTyped
  BY <1>0 DEF ExportInit, ExportTyped, EntryState, Stages
<1>2. \A k \in Names : entries[k] # "ours" /\ durable[k] # "ours"
  BY DEF ExportInit
<1>3. SyncedFirst
  BY <1>2 DEF ExportInit, SyncedFirst, Published, Publishing
<1>4. PartialKnown
  BY <1>0 DEF ExportInit, PartialKnown
<1>5. DestinationKnown /\ CleanSilence /\ ReceiptIsTrue
  BY <1>2 DEF ExportInit, DestinationKnown, CleanSilence, ReceiptIsTrue
<1> QED BY <1>1, <1>3, <1>4, <1>5 DEF ExportInvariant

(* A failure changes nothing but where the exporter is and what it says. *)
LEMMA GivesUp ==
    ASSUME ExportInvariant, stage \notin {"abort", "done", "crashed"}, stage' = "abort",
           aborts' \in {2, 3}, file' \in Seq(Byte), synced \in 0..Len(file'),
           file' = file \/ stage = "open",
           UNCHANGED <<entries, durable, synced, in_place, partial, unreported_destination,
                       dest, receipt>>,
           disturbances' = disturbances
    PROVE  ExportInvariant'
<1> USE DEF ExportInvariant
<1>r. receipt = <<>>
  BY DEF DestinationKnown
<1>1. ExportTyped'
  BY DEF ExportTyped, Stages
<1>2. SyncedFirst'
  <2>1. ASSUME NEW k \in Names, Published(k)'
        PROVE  file' = Attachment /\ synced' = Len(file')
    <3>1. Published(k)
      BY <2>1 DEF Published
    <3> QED BY <3>1 DEF SyncedFirst
  <2> QED BY <2>1 DEF SyncedFirst, Publishing
<1>3. PartialKnown'
  BY DEF PartialKnown
<1>4. DestinationKnown'
  BY <1>r DEF DestinationKnown
<1>5. CleanSilence'
  BY DEF CleanSilence
<1>6. ReceiptIsTrue'
  BY <1>r DEF ReceiptIsTrue
<1> QED BY <1>1, <1>2, <1>3, <1>4, <1>5, <1>6

LEMMA CreateKeeps ==
    ASSUME ExportAssumption, ExportInvariant, Create
    PROVE  ExportInvariant'
<1> USE DEF ExportInvariant
<1>n. 0 \in Names
  BY NameFacts
<1>f. /\ stage = "validated" /\ receipt = <<>>
      /\ UNCHANGED <<durable, file, synced, in_place, reference, unreported_destination, dest,
                     aborts, receipt, disturbances>>
      /\ \A k \in Names : ~Published(k)
  BY DEF Create, DestinationKnown, SyncedFirst
<1>1. CASE /\ stage' = "open" /\ entries' = [entries EXCEPT ![0] = "ours"] /\ partial' = TRUE
           /\ outcome' = outcome
  <2>1. ExportTyped'
    BY <1>1, <1>f, <1>n DEF ExportTyped, Stages, EntryState
  <2>e. \A k \in Names : k # 0 => entries'[k] = entries[k]
    BY <1>1, <1>n DEF ExportTyped
  <2>2. SyncedFirst'
    BY <1>1, <1>f, <2>e DEF SyncedFirst, Publishing, Published
  <2>3. PartialKnown'
    BY <1>1, <1>f, <1>n DEF PartialKnown, ExportTyped
  <2>4. DestinationKnown'
    BY <1>1, <1>f, <2>e DEF DestinationKnown, Published
  <2>5. CleanSilence' /\ ReceiptIsTrue'
    BY <1>1, <1>f DEF CleanSilence, ReceiptIsTrue
  <2> QED BY <2>1, <2>2, <2>3, <2>4, <2>5
<1>2. CASE stage' = "done" /\ outcome' = "ExportFailed" /\ UNCHANGED <<entries, partial>>
  <2>1. ExportTyped'
    BY <1>2, <1>f DEF ExportTyped, Stages
  <2>2. SyncedFirst'
    BY <1>2, <1>f DEF SyncedFirst, Publishing, Published
  <2>3. PartialKnown'
    BY <1>2, <1>f DEF PartialKnown
  <2>4. DestinationKnown' /\ ReceiptIsTrue'
    BY <1>2, <1>f DEF DestinationKnown, ReceiptIsTrue, Published
  <2>5. CleanSilence'
    BY <1>2, <1>f DEF CleanSilence, PartialKnown, DestinationKnown
  <2> QED BY <2>1, <2>2, <2>3, <2>4, <2>5
<1> QED BY <1>1, <1>2 DEF Create

LEMMA WriteChunkKeeps ==
    ASSUME ExportAssumption, ExportInvariant, NEW chunk \in Chunks, WriteChunk(chunk)
    PROVE  ExportInvariant'
<1> USE DEF ExportInvariant
<1>f. /\ stage = "open" /\ receipt = <<>>
      /\ UNCHANGED <<entries, durable, synced, in_place, partial, unreported_destination, dest,
                     receipt, disturbances>>
      /\ \A k \in Names : ~Published(k)
  BY DEF WriteChunk, DestinationKnown, SyncedFirst
<1>c. chunk.data \in Seq(Byte) /\ (chunk.last => chunk.sha256 = Attachment)
  BY Zenon DEF ExportAssumption
<1>t. /\ file \in Seq(Byte) /\ file \o chunk.data \in Seq(Byte)
      /\ synced \in 0..Len(file) /\ synced \in 0..Len(file \o chunk.data)
  <2>1. file \in Seq(Byte) /\ chunk.data \in Seq(Byte) /\ synced \in 0..Len(file)
    BY <1>c DEF ExportTyped
  <2>2. file \o chunk.data \in Seq(Byte) /\ Len(file \o chunk.data) = Len(file) + Len(chunk.data)
    BY <2>1, ConcatProperties
  <2>3. Len(file) \in Nat /\ Len(chunk.data) \in Nat
    BY <2>1, LenProperties
  <2> QED BY <2>1, <2>2, <2>3
<1>1. CASE stage' = "abort" /\ aborts' = 3 /\ file' \in {file, file \o chunk.data}
  BY <1>1, <1>f, <1>t, GivesUp
<1>2. CASE /\ file' = file \o chunk.data /\ UNCHANGED <<outcome, aborts>>
           /\ chunk.last => chunk.sha256 = file \o chunk.data
           /\ stage' = (IF chunk.last THEN "sync" ELSE "open")
  <2>1. ExportTyped'
    BY <1>2, <1>f, <1>t DEF ExportTyped, Stages, Publishing
  <2>2. stage' = "sync" => file' = Attachment
    BY <1>2, <1>c
  <2>3. SyncedFirst'
    BY <1>2, <1>f, <2>2 DEF SyncedFirst, Publishing, Published
  <2>4. PartialKnown'
    BY <1>2, <1>f DEF PartialKnown
  <2>5. DestinationKnown' /\ CleanSilence' /\ ReceiptIsTrue'
    BY <1>2, <1>f DEF DestinationKnown, CleanSilence, ReceiptIsTrue
  <2> QED BY <2>1, <2>3, <2>4, <2>5
<1> QED BY <1>1, <1>2 DEF WriteChunk, Fails

(* A step of publish that leaves the directory as it is. *)
LEMMA Advances ==
    ASSUME ExportInvariant, stage \in Publishing, stage' \in Publishing \ {"syncdir", "final"},
           stage' = "sync" \/ synced' = Len(file), stage' = "check" => stage \in {"sync", "check"},
           synced' \in 0..Len(file), synced' = synced \/ stage = "sync",
           dest' \in Names, stage' = "link" => dest' # 0, stage' # "sync",
           UNCHANGED <<entries, durable, file, in_place, partial, unreported_destination,
                       outcome, aborts, receipt, disturbances>>
    PROVE  ExportInvariant'
<1> USE DEF ExportInvariant
<1>r. receipt = <<>>
  BY DEF DestinationKnown, Publishing
<1>1. ExportTyped'
  BY DEF ExportTyped, Stages
<1>2. SyncedFirst'
  <2>1. ASSUME NEW k \in Names, Published(k)'
        PROVE  /\ file' = Attachment /\ synced' = Len(file')
               /\ stage' \notin {"validated", "open", "sync", "check"}
    <3>1. Published(k)
      BY <2>1 DEF Published
    <3> QED BY <3>1 DEF SyncedFirst, Publishing
  <2>2. file' = Attachment /\ synced' = Len(file')
    BY DEF SyncedFirst
  <2> QED BY <2>1, <2>2 DEF SyncedFirst
<1>3. PartialKnown'
  BY DEF PartialKnown, Publishing
<1>4. DestinationKnown' /\ ReceiptIsTrue'
  BY <1>r DEF DestinationKnown, ReceiptIsTrue, Publishing
<1>5. CleanSilence'
  BY DEF CleanSilence, Publishing
<1> QED BY <1>1, <1>2, <1>3, <1>4, <1>5

LEMMA SyncKeeps ==
    ASSUME ExportInvariant, Sync
    PROVE  ExportInvariant'
<1>1. Len(file) \in Nat /\ Len(file) \in 0..Len(file) /\ dest \in Names
  BY LenProperties DEF ExportInvariant, ExportTyped
<1> QED BY <1>1, Advances DEF Sync, SyncFile, Publishing

LEMMA CheckKeeps ==
    ASSUME ExportAssumption, ExportInvariant, Check
    PROVE  ExportInvariant'
<1>f. stage = "check" /\ file \in Seq(Byte) /\ synced \in 0..Len(file) /\ synced = Len(file)
  BY DEF Check, ExportInvariant, ExportTyped, SyncedFirst, Publishing
<1>d. UNCHANGED <<entries, durable, file, synced, in_place, partial, unreported_destination,
                  receipt, disturbances>>
  BY DEF Check, disk
<1>1. CASE stage' = "link" /\ dest' = 1 /\ UNCHANGED <<outcome, aborts>>
  <2>1. dest' \in Names /\ dest' # 0
    BY <1>1, NameFacts
  <2> QED BY <1>1, <1>f, <1>d, <2>1, Advances DEF Publishing
<1>2. CASE Fails("ExportFailed", 3) /\ dest' = dest
  BY <1>2, <1>f, <1>d, GivesUp DEF Fails
<1> QED BY <1>1, <1>2 DEF Check

LEMMA LinkKeeps ==
    ASSUME ExportAssumption, ExportInvariant, Link
    PROVE  ExportInvariant'
<1>f. /\ stage = "link" /\ file \in Seq(Byte) /\ synced \in 0..Len(file) /\ synced = Len(file)
      /\ file = Attachment /\ dest \in Names /\ dest # 0 /\ receipt = <<>>
      /\ UNCHANGED <<durable, file, synced, in_place, partial, receipt, disturbances>>
  BY DEF Link, ExportInvariant, ExportTyped, SyncedFirst, Publishing, DestinationKnown
<1>1. CASE /\ entries' = [entries EXCEPT ![dest] = "ours"]
           /\ unreported_destination' = TRUE /\ stage' = "verify"
           /\ UNCHANGED <<dest, outcome, aborts>>
  <2> USE DEF ExportInvariant
  <2>0. entries'[0] = entries[0]
    BY <1>1, <1>f, NameFacts DEF ExportTyped
  <2>1. ExportTyped'
    BY <1>1, <1>f DEF ExportTyped, EntryState, Stages, Publishing
  <2>2. SyncedFirst'
    BY <1>1, <1>f DEF SyncedFirst, Publishing
  <2>3. PartialKnown'
    BY <1>1, <1>f, <2>0 DEF PartialKnown
  <2>4. DestinationKnown' /\ CleanSilence' /\ ReceiptIsTrue'
    BY <1>1, <1>f DEF DestinationKnown, CleanSilence, ReceiptIsTrue
  <2> QED BY <2>1, <2>2, <2>3, <2>4
<1>2. CASE /\ dest < NameCount /\ dest' = dest + 1
           /\ UNCHANGED <<stage, outcome, aborts, entries, unreported_destination>>
  <2>1. dest' \in Names /\ dest' # 0
    BY <1>2, <1>f, NameFacts
  <2> QED BY <1>2, <1>f, <2>1, Advances DEF Publishing
<1>3. CASE Fails("ExportFailed", 3) /\ UNCHANGED <<dest, entries, unreported_destination>>
  BY <1>3, <1>f, GivesUp DEF Fails
<1> QED BY <1>1, <1>2, <1>3 DEF Link, NoteDestination

LEMMA VerifyKeeps ==
    ASSUME ExportInvariant, Verify
    PROVE  ExportInvariant'
<1>f. /\ stage = "verify" /\ file \in Seq(Byte) /\ synced \in 0..Len(file) /\ synced = Len(file)
      /\ dest \in Names
      /\ UNCHANGED <<entries, durable, file, synced, in_place, partial, unreported_destination,
                     dest, receipt, disturbances>>
  BY DEF Verify, disk, ExportInvariant, ExportTyped, SyncedFirst, Publishing
<1>1. CASE stage' = "unlink" /\ UNCHANGED <<outcome, aborts>>
  BY <1>1, <1>f, Advances DEF Publishing
<1>2. CASE Fails("ExportFailed", 3)
  BY <1>2, <1>f, GivesUp DEF Fails
<1> QED BY <1>1, <1>2 DEF Verify

LEMMA UnlinkKeeps ==
    ASSUME ExportAssumption, ExportInvariant, Unlink
    PROVE  ExportInvariant'
<1> USE DEF ExportInvariant
<1>f. /\ stage = "unlink" /\ stage' = "syncdir" /\ partial' = FALSE
      /\ entries' = [entries EXCEPT ![0] = "none"] /\ receipt = <<>>
      /\ UNCHANGED <<durable, file, synced, in_place, unreported_destination, dest, outcome,
                     aborts, receipt, disturbances>>
  BY DEF Unlink, Removes, DestinationKnown
<1>e. entries'[0] = "none" /\ \A k \in Names : k # 0 => entries'[k] = entries[k]
  BY <1>f, NameFacts DEF ExportTyped
<1>1. ExportTyped'
  BY <1>f, NameFacts DEF ExportTyped, EntryState, Stages, Publishing
<1>2. SyncedFirst'
  BY <1>f, <1>e DEF SyncedFirst, Published, Publishing
<1>3. PartialKnown'
  BY <1>f, <1>e DEF PartialKnown
<1>4. DestinationKnown' /\ CleanSilence' /\ ReceiptIsTrue'
  BY <1>f, <1>e DEF DestinationKnown, CleanSilence, ReceiptIsTrue
<1> QED BY <1>1, <1>2, <1>3, <1>4

LEMMA SyncDirectoryKeeps ==
    ASSUME ExportAssumption, ExportInvariant, SyncDirectory
    PROVE  ExportInvariant'
<1> USE DEF ExportInvariant
<1>f. /\ stage = "syncdir" /\ stage' = "final" /\ durable' = entries /\ receipt = <<>> /\ ~partial
      /\ UNCHANGED <<entries, file, synced, in_place, partial, unreported_destination, dest,
                     outcome, aborts, receipt, disturbances>>
  BY DEF SyncDirectory, SyncEntries, DestinationKnown, PartialKnown
<1>e. entries[0] = "none"
  <2>1. entries[0] \in EntryState /\ entries[0] # "other" /\ entries[0] # "ours"
    BY <1>f, NameFacts DEF ExportTyped, PartialKnown
  <2> QED BY <2>1 DEF EntryState
<1>1. ExportTyped'
  BY <1>f DEF ExportTyped, Stages, Publishing
<1>2. SyncedFirst'
  BY <1>f DEF SyncedFirst, Published, Publishing
<1>3. PartialKnown'
  BY <1>f, <1>e DEF PartialKnown
<1>4. DestinationKnown' /\ CleanSilence' /\ ReceiptIsTrue'
  BY <1>f DEF DestinationKnown, CleanSilence, ReceiptIsTrue
<1> QED BY <1>1, <1>2, <1>3, <1>4

LEMMA FinalKeeps ==
    ASSUME ExportInvariant, Final
    PROVE  ExportInvariant'
<1> USE DEF ExportInvariant
<1>f. /\ stage = "final" /\ file \in Seq(Byte) /\ synced \in 0..Len(file) /\ synced = Len(file)
      /\ file = Attachment /\ durable = entries /\ ~partial /\ dest \in Names
      /\ UNCHANGED <<entries, durable, file, synced, in_place, partial, dest, disturbances>>
  BY DEF Final, disk, ExportTyped, SyncedFirst, Publishing, PartialKnown
<1>1. CASE /\ Links = {dest} /\ stage' = "abort" /\ outcome' = "receipt" /\ aborts' = 2
           /\ unreported_destination' = FALSE
           /\ receipt' = <<[entries |-> entries, durable |-> durable, file |-> file,
                            synced |-> synced, dest |-> dest]>>
  <2>a. unreported_destination' \in BOOLEAN
    BY <1>1, Zenon
  <2>b. stage' \in Stages /\ aborts' \in 0..3
    BY <1>1 DEF Stages
  <2>1. ExportTyped'
    BY <1>f, <2>a, <2>b DEF ExportTyped
  <2>2. SyncedFirst'
    BY <1>1, <1>f DEF SyncedFirst, Published, Publishing
  <2>3. PartialKnown'
    BY <1>1, <1>f DEF PartialKnown
  <2>4. DestinationKnown' /\ CleanSilence'
    BY <1>1, <1>f DEF DestinationKnown, CleanSilence, Silent
  <2>5. ReceiptIsTrue'
    <3>1. \A k \in Names : durable[k] = "ours" <=> k = dest
      BY <1>1, <1>f DEF Links
    <3>2. receipt'[1] = [entries |-> entries, durable |-> durable, file |-> file,
                         synced |-> synced, dest |-> dest]
      BY <1>1
    <3> QED BY <1>f, <3>1, <3>2 DEF ReceiptIsTrue
  <2> QED BY <2>1, <2>2, <2>3, <2>4, <2>5
<1>2. CASE Fails("ExportFailed", 3) /\ UNCHANGED <<unreported_destination, receipt>>
  BY <1>2, <1>f, GivesUp DEF Fails
<1> QED BY <1>1, <1>2 DEF Final

LEMMA ErrorKeeps ==
    ASSUME ExportInvariant, IoError \/ Cancel
    PROVE  ExportInvariant'
<1>f. /\ file \in Seq(Byte) /\ synced \in 0..Len(file) /\ receipt' = receipt
      /\ UNCHANGED <<entries, durable, file, synced, in_place, partial, unreported_destination,
                     dest, disturbances>>
      /\ stage \in Publishing \cup {"validated", "open"}
  BY DEF IoError, Cancel, disk, ExportInvariant, ExportTyped
<1>1. CASE stage' = "abort" /\ aborts' \in {2, 3}
  BY <1>1, <1>f, GivesUp DEF Publishing
<1>2. CASE stage = "validated" /\ stage' = "done" /\ aborts' = aborts
  <2> USE DEF ExportInvariant
  <2>1. ExportTyped'
    BY <1>2, <1>f DEF ExportTyped, Stages
  <2>2. SyncedFirst'
    BY <1>2, <1>f DEF SyncedFirst, Published, Publishing
  <2>3. PartialKnown'
    BY <1>2, <1>f DEF PartialKnown
  <2>4. DestinationKnown' /\ ReceiptIsTrue'
    BY <1>2, <1>f DEF DestinationKnown, ReceiptIsTrue
  <2>5. CleanSilence'
    BY <1>2, <1>f DEF CleanSilence, PartialKnown, DestinationKnown
  <2> QED BY <2>1, <2>2, <2>3, <2>4, <2>5
<1> QED BY <1>1, <1>2 DEF IoError, Cancel, Fails

(* abort: what it removes, it forgets; what it could not remove, it says. *)
LEMMA AbortKeeps ==
    ASSUME ExportAssumption, ExportInvariant, Abort
    PROVE  ExportInvariant'
<1> USE DEF ExportInvariant
<1>f. /\ stage = "abort" /\ aborts' = aborts - 1 /\ stage' = IF aborts = 1 THEN "done" ELSE "abort"
      /\ UNCHANGED <<durable, file, synced, in_place, unreported_destination, dest, receipt,
                     disturbances>>
  BY DEF Abort
<1>a. aborts \in 1..3 /\ aborts' \in 0..3 /\ (stage' = "abort" => aborts' # 0)
      /\ (aborts = 1 <=> stage' = "done")
  BY <1>f DEF ExportTyped, CleanSilence
<1>p. PICK removed \in {~partial, TRUE} :
         /\ IF partial /\ removed THEN Removes ELSE UNCHANGED <<partial, entries>>
         /\ outcome' = IF aborts = 1 THEN outcome ELSE AbortCode(removed)
  BY DEF Abort
<1>e. /\ \/ entries' = entries /\ partial' = partial
         \/ entries' = [entries EXCEPT ![0] = "none"] /\ partial' = FALSE
      /\ partial' => partial
  BY <1>p DEF Removes
<1>n. 0 \in Names
  BY NameFacts
<1>k. /\ \A k \in Names : k # 0 => entries'[k] = entries[k]
      /\ entries'[0] # "other" /\ (entries'[0] = "ours" => partial')
      /\ entries' \in [Names -> EntryState]
  <2>1. CASE entries' = entries /\ partial' = partial
    BY <2>1, <1>f DEF PartialKnown, ExportTyped
  <2>2. CASE entries' = [entries EXCEPT ![0] = "none"] /\ partial' = FALSE
    BY <2>2, <1>n DEF ExportTyped, EntryState
  <2> QED BY <1>e, <2>1, <2>2
<1>b. partial' \in BOOLEAN
  BY <1>e DEF ExportTyped
<1>1. ExportTyped'
  BY <1>f, <1>a, <1>k, <1>b DEF ExportTyped, Stages
<1>2. SyncedFirst'
  BY <1>f, <1>k DEF SyncedFirst, Published, Publishing
<1>3. PartialKnown'
  BY <1>f, <1>k DEF PartialKnown
<1>o. receipt # <<>> => outcome' = "receipt" /\ ~partial'
  BY <1>f, <1>p, <1>e DEF DestinationKnown, AbortCode
<1>4. DestinationKnown'
  BY <1>f, <1>k, <1>o DEF DestinationKnown
<1>5. CleanSilence'
  <2>1. CASE aborts = 1
    <3>1. outcome' = outcome
      BY <2>1, <1>p
    <3> QED BY <1>f, <1>a, <1>e, <2>1, <3>1 DEF CleanSilence
  <2>2. CASE aborts # 1
    <3>1. outcome' = AbortCode(removed)
      BY <2>2, <1>p
    <3>2. outcome' \in Silent => ~unreported_destination /\ removed
      BY <3>1 DEF AbortCode, Silent
    <3>3. removed => ~partial'
      BY <1>p DEF Removes
    <3> QED BY <1>f, <1>a, <3>2, <3>3 DEF CleanSilence
  <2> QED BY <2>1, <2>2
<1>6. ReceiptIsTrue'
  BY <1>f DEF ReceiptIsTrue
<1> QED BY <1>1, <1>2, <1>3, <1>4, <1>5, <1>6

(* A power loss: an entry that may be seen after it was published before. *)
LEMMA CrashKeeps ==
    ASSUME ExportAssumption, ExportInvariant, Crash
    PROVE  ExportInvariant'
<1> USE DEF ExportInvariant
<1>f. /\ stage' = "crashed" /\ durable' = entries'
      /\ UNCHANGED <<in_place, reference, partial, unreported_destination, dest, outcome, aborts,
                     receipt, disturbances>>
  BY DEF Crash
<1>p. PICK kept \in SUBSET Names, n \in synced..Len(file) :
         /\ entries' = [k \in Names |-> IF k \in kept THEN entries[k] ELSE durable[k]]
         /\ file' = SubSeq(file, 1, n) /\ synced' = n
  BY DEF Crash
<1>t. /\ file \in Seq(Byte) /\ Len(file) \in Nat /\ synced \in 0..Len(file)
      /\ \A i \in 1..Len(file) : file[i] \in Byte
  BY LenProperties, ElementOfSeq DEF ExportTyped
<1>s. /\ file' \in Seq(Byte) /\ Len(file') = n /\ n \in Nat
      /\ synced = Len(file) => n = Len(file) /\ file' = file
  <2>1. n \in Nat /\ n <= Len(file)
    BY <1>t
  <2>2. SubSeq(file, 1, n) \in Seq(Byte) /\ Len(SubSeq(file, 1, n)) = n
    <3>1. \A i \in 1..n : file[i] \in Byte
      BY <1>t, <2>1
    <3>2. 1 \in Int /\ n \in Int
      BY <2>1
    <3> QED BY <3>1, <3>2, <2>1, SubSeqProperties
  <2>3. synced = Len(file) => n = Len(file)
    BY <1>t
  <2>4. SubSeq(file, 1, Len(file)) = file
    BY <1>t, SubSeqFull
  <2> QED BY <1>p, <2>1, <2>2, <2>3, <2>4
<1>1. ExportTyped'
  <2>1. entries' \in [Names -> EntryState]
    BY <1>p DEF ExportTyped
  <2>2. synced' \in 0..Len(file')
    BY <1>p, <1>s
  <2> QED BY <1>f, <1>s, <2>1, <2>2 DEF ExportTyped, Stages
<1>2. SyncedFirst'
  <2>1. ASSUME NEW k \in Names, Published(k)'
        PROVE  file' = Attachment /\ synced' = Len(file')
    <3>1. Published(k)
      BY <2>1, <1>f, <1>p DEF Published
    <3>2. file = Attachment /\ synced = Len(file)
      BY <3>1 DEF SyncedFirst
    <3> QED BY <1>p, <1>s, <3>2
  <2> QED BY <1>f, <2>1 DEF SyncedFirst, Publishing
<1>3. PartialKnown'
  BY <1>f, <1>p, NameFacts DEF PartialKnown
<1>4. DestinationKnown' /\ CleanSilence' /\ ReceiptIsTrue'
  BY <1>f DEF DestinationKnown, CleanSilence, ReceiptIsTrue
<1> QED BY <1>1, <1>2, <1>3, <1>4

(* Other programs publish nothing of ours. *)
LEMMA DisturbKeeps ==
    ASSUME ExportAssumption, ExportInvariant, Disturb
    PROVE  ExportInvariant'
<1> USE DEF ExportInvariant
<1>f. /\ stage \notin {"done", "crashed"} /\ disturbances' = disturbances + 1
      /\ UNCHANGED <<file, synced, stage, reference, partial, unreported_destination, dest,
                     outcome, aborts, receipt>>
  BY DEF Disturb, writer
<1>n. 0 \in Names
  BY NameFacts
<1>e. /\ entries' \in [Names -> EntryState] /\ durable' \in [Names -> EntryState] /\ in_place' \in BOOLEAN
      /\ \A k \in Names : /\ entries'[k] = "ours" => entries[k] = "ours"
                          /\ durable'[k] = "ours" => durable[k] = "ours"
      /\ entries'[0] \in {entries[0], "none"} /\ durable'[0] = durable[0]
      /\ stage = "final" => durable' = entries' /\ entries'[0] = "none"
  <2>0. /\ entries \in [Names -> EntryState] /\ durable \in [Names -> EntryState] /\ in_place \in BOOLEAN
        /\ stage = "final" => durable = entries /\ entries[0] = "none"
    BY DEF ExportTyped, PartialKnown
  <2>1. CASE \E k \in Names \ {0}, e \in {"none", "other"} :
               /\ entries' = [entries EXCEPT ![k] = e] /\ durable' = [durable EXCEPT ![k] = e]
               /\ in_place' = in_place
    <3>1. PICK k \in Names \ {0}, e \in {"none", "other"} :
               /\ entries' = [entries EXCEPT ![k] = e] /\ durable' = [durable EXCEPT ![k] = e]
               /\ in_place' = in_place
      BY <2>1
    <3> QED BY <2>0, <3>1, <1>n DEF EntryState
  <2>2. CASE /\ entries[0] = "ours" /\ entries' = [entries EXCEPT ![0] = "none"]
             /\ UNCHANGED <<durable, in_place>>
    BY <2>0, <2>2, <1>n DEF EntryState
  <2>3. CASE in_place' = FALSE /\ UNCHANGED <<entries, durable>>
    BY <2>0, <2>3
  <2> QED BY <2>1, <2>2, <2>3 DEF Disturb
<1>1. ExportTyped'
  BY <1>f, <1>e DEF ExportTyped
<1>2. SyncedFirst'
  BY <1>f, <1>e DEF SyncedFirst, Published
<1>3. PartialKnown'
  BY <1>f, <1>e, <1>n DEF PartialKnown
<1>4. DestinationKnown' /\ CleanSilence' /\ ReceiptIsTrue'
  BY <1>f, <1>e DEF DestinationKnown, CleanSilence, ReceiptIsTrue
<1> QED BY <1>1, <1>2, <1>3, <1>4

-----------------------------------------------------------------------------
LEMMA StutterKeeps ==
    ASSUME ExportInvariant, UNCHANGED exportVars
    PROVE  ExportInvariant'
<1> USE DEF ExportInvariant
<1>f. UNCHANGED <<entries, durable, file, synced, in_place, stage, reference, partial,
                  unreported_destination, dest, outcome, aborts, receipt, disturbances>>
  BY DEF exportVars, disk, writer
<1>1. ExportTyped' /\ SyncedFirst'
  BY <1>f DEF ExportTyped, SyncedFirst, Published
<1>2. PartialKnown' /\ DestinationKnown' /\ CleanSilence' /\ ReceiptIsTrue'
  BY <1>f DEF PartialKnown, DestinationKnown, CleanSilence, ReceiptIsTrue
<1> QED BY <1>1, <1>2

LEMMA ExportKeeps ==
    ASSUME ExportAssumption, ExportInvariant, [ExportNext]_exportVars
    PROVE  ExportInvariant'
BY CreateKeeps, WriteChunkKeeps, SyncKeeps, CheckKeeps, LinkKeeps, VerifyKeeps, UnlinkKeeps,
   SyncDirectoryKeeps, FinalKeeps, ErrorKeeps, AbortKeeps, CrashKeeps, DisturbKeeps, StutterKeeps
   DEF ExportNext, Step

LEMMA InvariantSuffices ==
    ASSUME ExportAssumption, ExportInvariant
    PROVE  VisibleIsWhole /\ ReceiptIsTrue /\ FailureIsClean
<1> USE DEF ExportInvariant
<1>1. VisibleIsWhole
  BY DEF VisibleIsWhole, Links, SyncedFirst, Published
<1>2. FailureIsClean
  <2> SUFFICES ASSUME stage = "done", outcome \in Silent PROVE Links = {}
    BY DEF FailureIsClean, Silent
  <2>1. ~partial /\ ~unreported_destination
    BY DEF CleanSilence
  <2>2. receipt = <<>>
    BY DEF DestinationKnown, Silent
  <2> QED BY <2>1, <2>2 DEF Links, PartialKnown, DestinationKnown
<1> QED BY <1>1, <1>2

(* A step of the exporter links only free names and removes only its own      *)
(* partial file.                                                              *)
LEMMA StepTouchesNoOther ==
    ASSUME ExportAssumption, ExportInvariant
    PROVE  OthersUntouched
<1> USE DEF ExportInvariant
<1> SUFFICES ASSUME Step, NEW k \in Names, entries[k] = "other" PROVE entries'[k] = "other"
  BY DEF OthersUntouched
<1>1. k # 0 /\ entries \in [Names -> EntryState] /\ 0 \in Names /\ dest \in Names
  BY NameFacts DEF PartialKnown, ExportTyped
<1>2. \/ entries' = entries
      \/ entries' = [entries EXCEPT ![0] = "ours"]
      \/ entries' = [entries EXCEPT ![0] = "none"]
      \/ entries[dest] = "none" /\ entries' = [entries EXCEPT ![dest] = "ours"]
  BY DEF Step, Create, WriteChunk, Sync, Check, Link, LinkFree, Verify, Unlink, Removes,
         SyncDirectory, Final, IoError, Cancel, Abort, disk
<1> QED BY <1>1, <1>2

(* export_attachment, for every attachment, every chunking and every failure, *)
(* disturbance or power loss: what a destination name shows is the whole      *)
(* attachment, a receipt is true of what is on disk, a failure that does not  *)
(* say so has left nothing behind, and no entry of another program is         *)
(* replaced or removed.                                                       *)
THEOREM ExportStaysAtomic ==
    ASSUME ExportAssumption
    PROVE  ExportSpec => ExportIsAtomic
<1>1. ExportInit => ExportInvariant
  BY ExportAtInit
<1>2. ExportInvariant /\ [ExportNext]_exportVars => ExportInvariant'
  BY ExportKeeps
<1>3. ExportInvariant => VisibleIsWhole /\ ReceiptIsTrue /\ FailureIsClean
  BY InvariantSuffices
<1>4. ExportInvariant /\ [ExportNext]_exportVars => [OthersUntouched]_exportVars
  BY StepTouchesNoOther
<1> QED BY <1>1, <1>2, <1>3, <1>4, PTL DEF ExportSpec, ExportIsAtomic

-----------------------------------------------------------------------------
(* A cursor stands where the text that was given ends, if it is of this body. *)
StandsIn(cursor, b) ==
    \E k \in 0..Len(Contents[b].text) :
        /\ cursor.offset = Boundary(Contents[b].text, k)
        /\ cursor.given = SubSeq(Contents[b].text, 1, k)
Placed(cursor) ==
    \/ cursor = NoCursor
    \/ \A b \in Bodies : \A k : cursor.fingerprint = BodyFingerprint(k, b) => StandsIn(cursor, b)

(* A read knows how much there is at most, and has read to the end of the
   section when it renders. *)
GetShape(k) ==
    DOMAIN k = {"stage", "ref", "cursor", "limits", "body", "whole", "ceiling", "got"}
GetSound(k) ==
    /\ GetShape(k) /\ k.stage \in {"idle", "read", "metadata", "bytes", "render"}
    /\ k.stage # "idle" =>
           /\ k.ref[1] \in MessageUids /\ Placed(k.cursor)
           /\ k.limits[2] \in Nat /\ k.limits[2] >= 4
    /\ k.stage \in {"read", "metadata"} => k.body = "none" /\ k.got = 0
    /\ k.stage \in {"bytes", "render"} =>
           /\ k.body \in Bodies /\ k.whole \in BOOLEAN /\ k.got \in Nat
           /\ k.ceiling = IF k.whole THEN Contents[k.body].size ELSE Contents[k.body].wire
           /\ k.ceiling <= MaxBodyBytes /\ k.got <= k.ceiling /\ k.got <= Section(k)
    /\ k.stage = "render" => k.got = Section(k)

ExactReply(r) ==
    /\ r.code = "ok" =>
           /\ LET text == Contents[r.body].text
                  read == r.given \o r.page
              IN  /\ Len(read) <= Len(text) /\ read = SubSeq(text, 1, Len(read))
                  /\ r.more <=> read # text
           /\ r.got \in {Contents[r.body].actual, Contents[r.body].header + Contents[r.body].actual}
    /\ r.more => r.page # <<>>
    /\ r.code \in {"Limit", "Protocol"} /\ r.body # "none" =>
           \/ Contents[r.body].size < Contents[r.body].header + Contents[r.body].actual
           \/ Contents[r.body].wire < Contents[r.body].actual
    /\ r.code \in {"StaleReference", "MessageNotFound"} => ~r.cursored
    /\ r.code = "StaleCursor" => r.cursored

BodyInvariant ==
    /\ box \in [MessageUids -> Bodies \cup {"none"}]
    /\ get = [c \in Callers |-> get[c]] /\ \A c \in Callers : GetSound(get[c])
    /\ reply = [c \in Callers |-> reply[c]] /\ \A c \in Callers : ExactReply(reply[c])
    /\ \A cursor \in bodyCursors : Placed(cursor)

LEMMA BodyInvariantIsExact ==
    ASSUME BodyInvariant
    PROVE  BodyPagesExact
<1>1. DOMAIN reply = Callers
  BY DEF BodyInvariant
<1>2. \A c \in DOMAIN reply : ExactReply(reply[c])
  BY <1>1 DEF BodyInvariant
<1>3. ChainsExact /\ PagesAdvance
  BY <1>2 DEF ChainsExact, PagesAdvance, ExactReply
<1>4. ReadToTheEnd /\ HonestSizesServed
  BY <1>2 DEF ReadToTheEnd, HonestSizesServed, ExactReply
<1>5. StaleNamesInput
  BY <1>2 DEF StaleNamesInput, ExactReply
<1> QED BY <1>3, <1>4, <1>5 DEF BodyPagesExact

LEMMA BodiesStart ==
    ASSUME BodyAssumption, BodyInit
    PROVE  BodyInvariant
<1>1. GetSound(NoGet)
  BY DEF GetSound, GetShape, NoGet
<1>2. ExactReply(Unanswered)
  BY DEF ExactReply, Unanswered
<1> QED BY <1>1, <1>2 DEF BodyInit, BodyInvariant

(* str::floor_char_boundary: the last boundary that is not beyond the offset. *)
LEMMA FloorFacts ==
    ASSUME NEW text, IsText(text), NEW offset \in Nat
    PROVE  /\ Len(text) \in Nat
           /\ \A j \in 0..Len(text) : Boundary(text, j) \in Nat
           /\ FloorCharBoundary(text, offset) \in 0..Len(text)
           /\ Boundary(text, FloorCharBoundary(text, offset)) <= offset
           /\ \A j \in 0..Len(text) : Boundary(text, j) <= offset => j <= FloorCharBoundary(text, offset)
<1>1. text \in Seq(Characters \X Nat) /\ Len(text) \in Nat
  BY DEF IsText
<1>2. \A j \in 0..Len(text) : Boundary(text, j) \in Nat
  <2> SUFFICES ASSUME NEW j \in 0..Len(text) PROVE Boundary(text, j) \in Nat
    OBVIOUS
  <2>1. CASE j = 0
    BY <2>1 DEF Boundary
  <2>2. CASE j # 0
    <3>1. j \in 1..Len(text)
      BY <1>1, <2>2
    <3>2. text[j] \in Characters \X Nat
      BY <1>1, <3>1
    <3> QED BY <2>2, <3>2 DEF Boundary
  <2> QED BY <2>1, <2>2
<1> DEFINE T == {n \in Nat : n <= Len(text) /\ Boundary(text, Len(text) - n) <= offset}
<1>3. Len(text) \in T
  BY <1>1 DEF Boundary
<1>4. PICK m \in T : \A n \in T : m <= n
  BY <1>3, LeastNumber
<1>5. /\ Len(text) - m \in 0..Len(text) /\ Boundary(text, Len(text) - m) <= offset
      /\ \A j \in 0..Len(text) : Boundary(text, j) <= offset => j <= Len(text) - m
  <2>1. m \in Nat /\ m <= Len(text) /\ Boundary(text, Len(text) - m) <= offset
    BY <1>4
  <2>2. ASSUME NEW j \in 0..Len(text), Boundary(text, j) <= offset PROVE j <= Len(text) - m
    <3>1. Len(text) - j \in Nat /\ Len(text) - j <= Len(text) /\ Len(text) - (Len(text) - j) = j
      BY <1>1
    <3>2. Len(text) - j \in T
      BY <2>2, <3>1
    <3>3. m <= Len(text) - j
      BY <1>4, <3>2
    <3> QED BY <1>1, <2>1, <3>3
  <2> QED BY <1>1, <2>1, <2>2
<1> QED BY <1>1, <1>2, <1>5 DEF FloorCharBoundary

(* BodyCursor::page: from where the cursor stands, forwards, and by a character
   at least unless the text ends. *)
LEMMA PageFacts ==
    ASSUME BodyAssumption, NEW b \in Bodies, NEW cursor, StandsIn(cursor, b),
           NEW maximum \in Nat, maximum >= 4
    PROVE  LET text == Contents[b].text
               start == PageStart(cursor, text)
               end == PageEnd(cursor, text, maximum)
           IN  /\ end \in 0..Len(text) /\ Len(text) \in Nat /\ text \in Seq(Characters \X Nat)
               /\ cursor.given \o SubSeq(text, start + 1, end) = SubSeq(text, 1, end)
               /\ (Boundary(text, end) < Bytes(text)) <=> end # Len(text)
               /\ end # Len(text) => SubSeq(text, start + 1, end) # <<>>
<1> DEFINE text == Contents[b].text
           start == PageStart(cursor, text)
           end == PageEnd(cursor, text, maximum)
<1>1. /\ text \in Seq(Characters \X Nat)
      /\ \A i, j \in 0..Len(text) : i < j => Boundary(text, i) < Boundary(text, j)
      /\ \A k \in 1..Len(text) : Boundary(text, k) <= Boundary(text, k - 1) + 4
      /\ IsText(text)
  BY DEF BodyAssumption, IsText
<1>2. PICK k \in 0..Len(text) : cursor.offset = Boundary(text, k) /\ cursor.given = SubSeq(text, 1, k)
  BY DEF StandsIn
<1> HIDE DEF text
<1>3. Len(text) \in Nat /\ \A j \in 0..Len(text) : Boundary(text, j) \in Nat
  BY <1>1, FloorFacts
<1>4. cursor.offset \in Nat /\ cursor.offset + maximum \in Nat
  BY <1>2, <1>3
<1>5. /\ start \in 0..Len(text) /\ Boundary(text, start) <= cursor.offset
      /\ \A j \in 0..Len(text) : Boundary(text, j) <= cursor.offset => j <= start
  BY <1>1, <1>4, FloorFacts DEF PageStart
<1>6. /\ end \in 0..Len(text) /\ Boundary(text, end) <= cursor.offset + maximum
      /\ \A j \in 0..Len(text) : Boundary(text, j) <= cursor.offset + maximum => j <= end
  BY <1>1, <1>4, FloorFacts DEF PageEnd
<1> HIDE DEF start, end
<1>7. start = k
  <2>1. k <= start
    BY <1>2, <1>3, <1>5
  <2>2. ~(k < start)
    <3>1. k < start => Boundary(text, k) < Boundary(text, start)
      BY <1>1, <1>2, <1>5
    <3> QED BY <1>2, <1>3, <1>5, <3>1
  <2> QED BY <1>2, <1>3, <1>5, <2>1, <2>2
<1>8. start <= end
  BY <1>3, <1>4, <1>5, <1>6
<1>9. cursor.given \o SubSeq(text, start + 1, end) = SubSeq(text, 1, end)
  <2>1. 1 \in 1..Len(text) + 1 /\ start \in 1 - 1..Len(text) /\ end \in start..Len(text)
    BY <1>3, <1>5, <1>6, <1>8
  <2> QED BY <1>1, <1>2, <1>7, <2>1, ConcatAdjacentSubSeq
<1>10. (Boundary(text, end) < Bytes(text)) <=> end # Len(text)
  BY <1>1, <1>3, <1>6 DEF Bytes
<1>11. ASSUME end # Len(text) PROVE SubSeq(text, start + 1, end) # <<>>
  <2>1. start + 1 \in 1..Len(text)
    BY <1>3, <1>5, <1>6, <1>8, <1>11
  <2>2. Boundary(text, start + 1) <= Boundary(text, start) + 4 /\ Boundary(text, start + 1) \in Nat
    <3>1. PICK n \in 1..Len(text) : n = start + 1
      BY <2>1
    <3>2. n - 1 = start /\ n \in 0..Len(text)
      BY <1>3, <1>5, <3>1
    <3>3. Boundary(text, n) <= Boundary(text, n - 1) + 4
      BY <1>1
    <3> QED BY <1>3, <3>1, <3>2, <3>3
  <2>3. start + 1 <= end
    <3>1. Boundary(text, start + 1) <= cursor.offset + maximum
      BY <1>2, <1>3, <1>4, <1>5, <1>7, <2>2
    <3> QED BY <1>3, <1>6, <2>1, <3>1
  <2>4. Len(SubSeq(text, start + 1, end)) = end - start
    BY <1>1, <1>3, <1>5, <1>6, <2>1, <2>3
  <2> QED BY <1>3, <1>5, <1>6, <2>3, <2>4
<1> QED BY <1>1, <1>3, <1>6, <1>9, <1>10, <1>11 DEF text, start, end

(* Only the read, the answer and the cursors of one caller change in a step of it. *)
LEMMA CallerKeeps ==
    ASSUME BodyInvariant, NEW c \in Callers, NEW k, NEW r,
           UNCHANGED <<backend, box>>,
           get' = [get EXCEPT ![c] = k], reply' = [reply EXCEPT ![c] = r],
           GetSound(k), ExactReply(r), \A cursor \in bodyCursors' : Placed(cursor)
    PROVE  BodyInvariant'
<1>1. \A cursor : Placed(cursor) => Placed(cursor)'
  BY DEF Placed, StandsIn, BodyFingerprint
<1>2. \A m : GetSound(m) => GetSound(m)'
  BY <1>1 DEF GetSound, GetShape, Section
<1>3. \A s : ExactReply(s) => ExactReply(s)'
  BY DEF ExactReply
<1>4. get' = [d \in Callers |-> get'[d]] /\ \A d \in Callers : GetSound(get'[d])
  BY DEF BodyInvariant
<1>5. reply' = [d \in Callers |-> reply'[d]] /\ \A d \in Callers : ExactReply(reply'[d])
  BY DEF BodyInvariant
<1> QED BY <1>1, <1>2, <1>3, <1>4, <1>5 DEF BodyInvariant

(* A read that has more to do answers nothing. *)
LEMMA ReadKeeps ==
    ASSUME BodyInvariant, NEW c \in Callers, NEW k, UNCHANGED <<backend, box, bodyCursors, reply>>,
           get' = [get EXCEPT ![c] = k], GetSound(k)
    PROVE  BodyInvariant'
<1>1. reply' = [reply EXCEPT ![c] = reply[c]] /\ ExactReply(reply[c])
  BY DEF BodyInvariant
<1>2. \A cursor \in bodyCursors' : Placed(cursor)
  BY DEF BodyInvariant
<1> QED BY <1>1, <1>2, CallerKeeps

(* An error names what the caller used, and is of the size only when the provider
   understated one. *)
LEMMA AnswerKeeps ==
    ASSUME BodyInvariant, NEW c \in Callers, NEW code, UNCHANGED <<backend, box>>,
           AnswerGet(c, code), code # "ok", code = "StaleCursor" => Cursored(get[c]),
           code \in {"Limit", "Protocol"} /\ get[c].body # "none" =>
               \/ Contents[get[c].body].size < Contents[get[c].body].header
                                                  + Contents[get[c].body].actual
               \/ Contents[get[c].body].wire < Contents[get[c].body].actual
    PROVE  BodyInvariant'
<1> DEFINE r == [Unanswered EXCEPT
                    !.code = Mapped(code, Cursored(get[c])), !.cursored = Cursored(get[c]),
                    !.ref = get[c].ref, !.body = get[c].body, !.got = get[c].got]
<1>1. /\ get' = [get EXCEPT ![c] = NoGet] /\ reply' = [reply EXCEPT ![c] = r]
      /\ bodyCursors' = bodyCursors
  BY DEF AnswerGet
<1>2. GetSound(NoGet)
  BY DEF GetSound, GetShape, NoGet
<1>3. /\ r.code = Mapped(code, Cursored(get[c])) /\ r.cursored = Cursored(get[c])
      /\ r.body = get[c].body /\ r.more = FALSE
  BY DEF Unanswered
<1>4. ExactReply(r)
  <2> HIDE DEF r
  <2>1. r.code # "ok" /\ ~r.more
    BY <1>3 DEF Mapped
  <2>2. r.code \in {"Limit", "Protocol"} => code = r.code
    BY <1>3 DEF Mapped
  <2>3. r.code \in {"StaleReference", "MessageNotFound"} => ~r.cursored
    BY <1>3 DEF Mapped
  <2>4. r.code = "StaleCursor" => r.cursored
    BY <1>3 DEF Mapped
  <2> QED BY <1>3, <2>1, <2>2, <2>3, <2>4 DEF ExactReply
<1>5. \A cursor \in bodyCursors' : Placed(cursor)
  BY <1>1 DEF BodyInvariant
<1> QED BY <1>1, <1>2, <1>4, <1>5, CallerKeeps

(* The page of a body that was read to its end, and where its token stands. *)
LEMMA DeliverKeeps ==
    ASSUME BodyAssumption, BodyInvariant, NEW c \in Callers, NEW k, UNCHANGED <<backend, box>>,
           DeliverPage(c, k), k.body \in Bodies, k.cursor = get[c].cursor, Placed(k.cursor),
           k.limits[2] \in Nat, k.limits[2] >= 4,
           k.got \in {Contents[k.body].actual, Contents[k.body].header + Contents[k.body].actual},
           get[c].body # "none" => get[c].stage = "render"
    PROVE  BodyInvariant'
<1> DEFINE text == Contents[k.body].text
           fingerprint == BodyFingerprint(k, k.body)
           start == PageStart(k.cursor, text)
           end == PageEnd(k.cursor, text, k.limits[2])
           page == SubSeq(text, start + 1, end)
           more == Boundary(text, end) < Bytes(text)
           next == [resource |-> k.ref, limits |-> k.limits, fingerprint |-> fingerprint,
                    offset |-> Boundary(text, end), given |-> k.cursor.given \o page]
           r == [code |-> "ok", cursored |-> Cursored(k), ref |-> k.ref, body |-> k.body,
                 given |-> k.cursor.given, page |-> page, more |-> more, got |-> k.got]
<1>1. CASE Cursored(k) /\ ~Usable(k.cursor, text, fingerprint)
  <2>1. AnswerGet(c, "StaleCursor")
    BY <1>1 DEF DeliverPage
  <2>2. Cursored(get[c])
    BY <1>1 DEF Cursored
  <2> QED BY <2>1, <2>2, AnswerKeeps
<1>2. CASE ~(Cursored(k) /\ ~Usable(k.cursor, text, fingerprint))
  <2>1. /\ get' = [get EXCEPT ![c] = NoGet] /\ reply' = [reply EXCEPT ![c] = r]
        /\ bodyCursors' = IF more THEN bodyCursors \cup {next} ELSE bodyCursors
    BY <1>2 DEF DeliverPage
  <2>2. GetSound(NoGet)
    BY DEF GetSound, GetShape, NoGet
  <2>3. StandsIn(k.cursor, k.body)
    <3>1. CASE k.cursor = NoCursor
      <4>1. text \in Seq(Characters \X Nat)
        BY DEF BodyAssumption, IsText
      <4>2. SubSeq(text, 1, 0) = <<>> /\ 0 \in 0..Len(text)
        BY <4>1
      <4>3. k.cursor.offset = 0 /\ k.cursor.given = <<>>
        BY <3>1 DEF NoCursor
      <4> QED BY <4>2, <4>3 DEF StandsIn, Boundary
    <3>2. CASE k.cursor # NoCursor
      <4>1. k.cursor.fingerprint = BodyFingerprint(k, k.body)
        BY <1>2, <3>2 DEF Cursored, Usable
      <4> QED BY <3>2, <4>1 DEF Placed
    <3> QED BY <3>1, <3>2
  <2>4. /\ end \in 0..Len(text) /\ Len(text) \in Nat /\ text \in Seq(Characters \X Nat)
        /\ k.cursor.given \o page = SubSeq(text, 1, end)
        /\ more <=> end # Len(text)
        /\ end # Len(text) => page # <<>>
    BY <2>3, PageFacts
  <2> HIDE DEF text, start, end, page, more
  <2>5. Len(SubSeq(text, 1, end)) = end /\ (end # Len(text) <=> SubSeq(text, 1, end) # text)
    BY <2>4
  <2>6. ExactReply(r)
    <3>1. /\ r.code = "ok" /\ r.given = k.cursor.given /\ r.page = page /\ r.more = more
          /\ r.body = k.body /\ r.got = k.got
      OBVIOUS
    <3>2. Len(SubSeq(text, 1, end)) <= Len(text)
      BY <2>4, <2>5
    <3>3. SubSeq(text, 1, end) = SubSeq(text, 1, Len(SubSeq(text, 1, end)))
      BY <2>5
    <3> HIDE DEF r
    <3> QED BY <2>4, <2>5, <3>1, <3>2, <3>3 DEF ExactReply, text
  <2>7. Placed(next)
    <3>1. SUFFICES ASSUME NEW b \in Bodies, NEW m, next.fingerprint = BodyFingerprint(m, b)
                   PROVE  StandsIn(next, b)
      BY DEF Placed
    <3>2. b = k.body
      BY <3>1 DEF BodyFingerprint
    <3>3. next.offset = Boundary(text, end) /\ next.given = SubSeq(text, 1, end)
      BY <2>4
    <3> QED BY <2>4, <3>2, <3>3 DEF StandsIn, text
  <2>8. \A cursor \in bodyCursors' : Placed(cursor)
    BY <2>1, <2>7 DEF BodyInvariant
  <2> HIDE DEF r
  <2> QED BY <2>1, <2>2, <2>6, <2>8, CallerKeeps
<1> QED BY <1>1, <1>2

(* get_message up to its admission: a page is of four bytes at least. *)
LEMMA GetMessageKeeps ==
    ASSUME BodyAssumption, BodyInvariant, NEW c \in Callers, NEW uid \in MessageUids, NEW v,
           NEW cursor \in bodyCursors \cup {NoCursor}, NEW maximum \in MaxBytesAsked,
           GetMessage(c, uid, v, cursor, maximum)
    PROVE  BodyInvariant'
<1> DEFINE limits == <<TextPageBytes[c], maximum>>
           wanted == [NoGet EXCEPT !.stage = "read", !.ref = <<uid, v>>, !.cursor = cursor,
                                 !.limits = limits]
           refused == IF ~Admits(c, maximum) THEN "InvalidRequest"
                      ELSE IF /\ cursor # NoCursor
                              /\ cursor.resource # wanted.ref \/ cursor.limits # limits
                      THEN "StaleCursor" ELSE "none"
           answer == [Unanswered EXCEPT !.code = refused, !.cursored = cursor # NoCursor,
                                        !.ref = wanted.ref]
<1>1. UNCHANGED <<backend, box, bodyCursors>>
  BY DEF GetMessage
<1>2. \A d \in bodyCursors' : Placed(d)
  BY <1>1 DEF BodyInvariant
<1>3. CASE refused = "none"
  <2>1. get' = [get EXCEPT ![c] = wanted] /\ reply' = [reply EXCEPT ![c] = Unanswered]
    BY <1>3 DEF GetMessage
  <2>2. /\ wanted.stage = "read" /\ wanted.ref = <<uid, v>> /\ wanted.cursor = cursor
        /\ wanted.limits = limits /\ wanted.body = "none" /\ wanted.got = 0
    BY DEF NoGet
  <2>3. GetShape(wanted)
    BY DEF GetShape, NoGet
  <2>4. maximum \in Nat /\ maximum >= 4
    BY <1>3 DEF Admits, BodyAssumption
  <2>5. Placed(cursor)
    BY DEF BodyInvariant, Placed
  <2> HIDE DEF wanted
  <2>6. GetSound(wanted)
    BY <2>2, <2>3, <2>4, <2>5 DEF GetSound
  <2>7. ExactReply(Unanswered)
    BY DEF ExactReply, Unanswered
  <2> QED BY <1>1, <1>2, <2>1, <2>6, <2>7, CallerKeeps
<1>4. CASE refused # "none"
  <2>1. get' = [get EXCEPT ![c] = get[c]] /\ reply' = [reply EXCEPT ![c] = answer]
    BY <1>4 DEF GetMessage, BodyInvariant
  <2>2. refused \in {"InvalidRequest", "StaleCursor"} /\ (refused = "StaleCursor" => cursor # NoCursor)
    BY <1>4
  <2> HIDE DEF refused
  <2>3. ExactReply(answer)
    BY <2>2 DEF ExactReply, Unanswered
  <2>4. GetSound(get[c])
    BY DEF BodyInvariant
  <2> QED BY <1>1, <1>2, <2>1, <2>3, <2>4, CallerKeeps
<1> QED BY <1>3, <1>4

LEMMA MemoryReadKeeps ==
    ASSUME BodyAssumption, BodyInvariant, NEW c \in Callers, MemoryRead(c)
    PROVE  BodyInvariant'
<1> DEFINE k == get[c]
           found == box[k.ref[1]]
<1>1. GetSound(k) /\ k.stage = "read" /\ UNCHANGED <<backend, box>>
  BY DEF BodyInvariant, MemoryRead
<1>2. /\ k.ref[1] \in MessageUids /\ Placed(k.cursor) /\ k.limits[2] \in Nat /\ k.limits[2] >= 4
      /\ k.body = "none"
  BY <1>1 DEF GetSound
<1>3. CASE AnswerGet(c, "StaleReference") \/ AnswerGet(c, "MessageNotFound")
  BY <1>1, <1>2, <1>3, AnswerKeeps
<1>4. CASE found # "none" /\ DeliverPage(c, [k EXCEPT !.body = found, !.got = Contents[found].actual])
  <2> DEFINE m == [k EXCEPT !.body = found, !.got = Contents[found].actual]
  <2>1. found \in Bodies
    BY <1>2, <1>4 DEF BodyInvariant
  <2>2. GetShape(k)
    BY <1>1 DEF GetSound
  <2>3. /\ m.body = found /\ m.got = Contents[found].actual /\ m.cursor = k.cursor
        /\ m.limits = k.limits
    BY <2>2 DEF GetShape
  <2>4. DeliverPage(c, m)
    BY <1>4
  <2> HIDE DEF m
  <2> QED BY <1>1, <1>2, <2>1, <2>3, <2>4, DeliverKeeps
<1> QED BY <1>3, <1>4 DEF MemoryRead

LEMMA ExamineKeeps ==
    ASSUME BodyInvariant, NEW c \in Callers, ExamineMailbox(c)
    PROVE  BodyInvariant'
<1>1. GetSound(get[c]) /\ get[c].stage = "read" /\ UNCHANGED <<backend, box>>
  BY DEF BodyInvariant, ExamineMailbox
<1>2. CASE AnswerGet(c, "StaleReference")
  BY <1>1, <1>2, AnswerKeeps DEF GetSound
<1>3. CASE get' = [get EXCEPT ![c].stage = "metadata"] /\ UNCHANGED <<bodyCursors, reply>>
  <2> DEFINE k == [get[c] EXCEPT !.stage = "metadata"]
  <2>1. get' = [get EXCEPT ![c] = k]
    BY <1>3
  <2>2. /\ k.stage = "metadata" /\ k.ref = get[c].ref /\ k.cursor = get[c].cursor
        /\ k.limits = get[c].limits /\ k.body = "none" /\ k.got = 0
    <3>1. GetShape(get[c]) /\ get[c].body = "none" /\ get[c].got = 0
      BY <1>1 DEF GetSound
    <3> QED BY <3>1 DEF GetShape
  <2>3. GetShape(k)
    BY <1>1 DEF GetSound, GetShape
  <2> HIDE DEF k
  <2>4. GetSound(k)
    BY <1>1, <2>2, <2>3 DEF GetSound
  <2> QED BY <1>1, <1>3, <2>1, <2>4, ReadKeeps
<1> QED BY <1>2, <1>3 DEF ExamineMailbox

(* The metadata set the ceiling of the read, below the limit. *)
LEMMA MetadataKeeps ==
    ASSUME BodyAssumption, BodyInvariant, NEW c \in Callers, Metadata(c)
    PROVE  BodyInvariant'
<1> DEFINE k == get[c]
           found == box[k.ref[1]]
           body == Contents[found]
           whole == body.single /\ body.size <= MaxBodyBytes
           next == [k EXCEPT !.stage = "bytes", !.body = found, !.whole = whole,
                             !.ceiling = IF whole THEN body.size ELSE body.wire]
<1>1. GetSound(k) /\ k.stage = "metadata" /\ UNCHANGED <<backend, box>>
  BY DEF BodyInvariant, Metadata
<1>2. CASE AnswerGet(c, "Limit") \/ (Missing(k) # "none" /\ AnswerGet(c, Missing(k)))
  BY <1>1, <1>2, AnswerKeeps DEF GetSound, Missing
<1>3. CASE /\ Missing(k) = "none" /\ ~(body.wire > MaxBodyBytes)
           /\ get' = [get EXCEPT ![c] = next] /\ UNCHANGED <<bodyCursors, reply>>
  <2>1. found \in Bodies
    BY <1>1, <1>3 DEF Missing, BodyInvariant, GetSound
  <2>2. /\ body.single \in BOOLEAN /\ body.size \in Nat /\ body.header \in Nat
        /\ body.wire \in Nat /\ body.actual \in Nat /\ MaxBodyBytes \in Nat
    BY <2>1 DEF BodyAssumption
  <2>3. GetShape(k) /\ k.got = 0
    BY <1>1 DEF GetSound
  <2>4. GetShape(next)
    BY <2>3 DEF GetShape
  <2>5. /\ next.stage = "bytes" /\ next.body = found /\ next.whole = whole
        /\ next.ceiling = (IF whole THEN body.size ELSE body.wire) /\ next.got = 0
        /\ next.ref = k.ref /\ next.cursor = k.cursor /\ next.limits = k.limits
    BY <2>3 DEF GetShape
  <2>6. next.ceiling <= MaxBodyBytes /\ next.ceiling \in Nat /\ whole \in BOOLEAN
    BY <1>3, <2>2, <2>5
  <2>7. Section(next) \in Nat
    BY <2>2, <2>5 DEF Section
  <2>8. next.ceiling = IF next.whole THEN Contents[next.body].size ELSE Contents[next.body].wire
    <3> HIDE DEF next, whole
    <3> QED BY <2>5
  <2>9. next.whole \in BOOLEAN
    BY <2>5, <2>6, Zenon
  <2> HIDE DEF next, found, body, whole
  <2>10. GetSound(next)
    BY <1>1, <2>1, <2>4, <2>5, <2>6, <2>7, <2>8, <2>9 DEF GetSound
  <2> QED BY <1>1, <1>3, <2>10, ReadKeeps
<1> QED BY <1>2, <1>3 DEF Metadata

(* bytes: the offset reached is never beyond the ceiling, nor beyond the section; one
   byte more than the ceiling shows that the declared size was not a bound. *)
LEMMA FetchKeeps ==
    ASSUME BodyAssumption, BodyInvariant, NEW c \in Callers, FetchSection(c)
    PROVE  BodyInvariant'
<1> DEFINE k == get[c]
           body == Contents[k.body]
           value == Least(Requested(k), Section(k) - k.got)
           required == k.got + value
           next == [k EXCEPT !.got = required,
                             !.stage = IF EndOfSection(k, value) THEN "render" ELSE @]
<1>1. GetSound(k) /\ k.stage = "bytes" /\ UNCHANGED <<backend, box>>
  BY DEF BodyInvariant, FetchSection
<1>2. /\ k.body \in Bodies /\ k.whole \in BOOLEAN /\ k.got \in Nat
      /\ k.ceiling = IF k.whole THEN body.size ELSE body.wire
      /\ k.ceiling <= MaxBodyBytes /\ k.got <= k.ceiling /\ k.got <= Section(k)
      /\ GetShape(k)
  BY <1>1 DEF GetSound
<1>3. /\ body.size \in Nat /\ body.header \in Nat /\ body.wire \in Nat /\ body.actual \in Nat
      /\ MaxBodyBytes \in Nat /\ ChunkBytes \in Nat \ {0}
  BY <1>2 DEF BodyAssumption
<1>4. /\ Section(k) = IF k.whole THEN body.header + body.actual ELSE body.actual
      /\ Section(k) \in Nat /\ k.ceiling \in Nat
  BY <1>2, <1>3 DEF Section
<1> HIDE DEF k, body
<1>5. Requested(k) \in Nat \ {0} /\ Requested(k) <= k.ceiling + 1 - k.got
  BY <1>2, <1>3, <1>4 DEF Requested, Least
<1>6. /\ value \in Nat /\ required \in Nat /\ required <= Section(k)
      /\ required <= k.ceiling + 1
      /\ EndOfSection(k, value) => required = Section(k)
  BY <1>2, <1>4, <1>5 DEF Least, EndOfSection
<1> HIDE DEF value, required
<1>7. CASE AnswerGet(c, "Limit") /\ value > MaxBodyBytes - k.got
  <2>1. k.ceiling < Section(k)
    BY <1>2, <1>3, <1>4, <1>6, <1>7 DEF required
  <2>2. body.size < body.header + body.actual \/ body.wire < body.actual
    BY <1>2, <1>3, <1>4, <2>1
  <2> QED BY <1>1, <1>7, <2>2, AnswerKeeps DEF k, body
<1>8. CASE AnswerGet(c, "Protocol") /\ required > k.ceiling
  <2>1. k.ceiling < Section(k)
    BY <1>4, <1>6, <1>8
  <2>2. body.size < body.header + body.actual \/ body.wire < body.actual
    BY <1>2, <1>3, <1>4, <2>1
  <2> QED BY <1>1, <1>8, <2>2, AnswerKeeps DEF k, body
<1>9. CASE Missing(k) # "none" /\ AnswerGet(c, Missing(k))
  BY <1>1, <1>9, AnswerKeeps DEF Missing
<1>10. CASE /\ ~(required > k.ceiling)
            /\ get' = [get EXCEPT ![c].got = required,
                                  ![c].stage = IF EndOfSection(k, value) THEN "render" ELSE @]
            /\ UNCHANGED <<bodyCursors, reply>>
  <2>1. get' = [get EXCEPT ![c] = next]
    BY <1>10 DEF k, BodyInvariant
  <2>2. /\ next.got = required /\ next.ref = k.ref /\ next.cursor = k.cursor
        /\ next.limits = k.limits /\ next.body = k.body /\ next.whole = k.whole
        /\ next.ceiling = k.ceiling
        /\ next.stage = IF EndOfSection(k, value) THEN "render" ELSE "bytes"
    BY <1>1, <1>2 DEF GetShape
  <2>3. GetShape(next)
    BY <1>2 DEF GetShape
  <2>4. Section(next) = Section(k)
    BY <2>2 DEF Section
  <2>5. required <= k.ceiling
    BY <1>4, <1>6, <1>10
  <2> HIDE DEF next
  <2>6. GetSound(next)
    BY <1>1, <1>2, <1>6, <2>2, <2>3, <2>4, <2>5 DEF GetSound, body
  <2> QED BY <1>1, <1>10, <2>1, <2>6, ReadKeeps
<1>11. ~(Requested(k) = 0)
  BY <1>5
<1> QED BY <1>7, <1>8, <1>9, <1>10, <1>11 DEF FetchSection, k, value, required

(* The page is cut from a body read to its end. *)
LEMMA RenderKeeps ==
    ASSUME BodyAssumption, BodyInvariant, NEW c \in Callers, Render(c)
    PROVE  BodyInvariant'
<1> DEFINE k == get[c]
           body == Contents[k.body]
<1>1. GetSound(k) /\ k.stage = "render" /\ UNCHANGED <<backend, box>>
  BY DEF BodyInvariant, Render
<1>2. /\ k.body \in Bodies /\ k.whole \in BOOLEAN /\ k.got = Section(k)
      /\ Placed(k.cursor) /\ k.limits[2] \in Nat /\ k.limits[2] >= 4
  BY <1>1 DEF GetSound
<1>3. /\ body.header \in Nat /\ body.wire \in Nat /\ body.actual \in Nat
  BY <1>2 DEF BodyAssumption
<1>4. k.got = IF k.whole THEN body.header + body.actual ELSE body.actual
  BY <1>2 DEF Section
<1>5. CASE AnswerGet(c, "Protocol") /\ k.whole /\ k.got - body.header > body.wire
  <2>1. body.wire < body.actual
    BY <1>3, <1>4, <1>5
  <2> QED BY <1>1, <1>5, <2>1, AnswerKeeps
<1>6. CASE DeliverPage(c, k)
  <2>1. k.got \in {body.actual, body.header + body.actual}
    BY <1>2, <1>4
  <2> QED BY <1>1, <1>2, <1>6, <2>1, DeliverKeeps
<1> QED BY <1>5, <1>6 DEF Render

LEMMA CutKeeps ==
    ASSUME BodyInvariant, NEW c \in Callers, Cut(c)
    PROVE  BodyInvariant'
<1>1. AnswerGet(c, "Unavailable") /\ UNCHANGED <<backend, box>>
  BY DEF Cut
<1> QED BY <1>1, AnswerKeeps

(* What the provider does between the reads of a message changes no read, no token
   and no answer. *)
LEMMA ProviderKeeps ==
    ASSUME BodyInvariant, UNCHANGED <<backend, get, bodyCursors, reply>>,
           box' \in [MessageUids -> Bodies \cup {"none"}]
    PROVE  BodyInvariant'
<1>1. \A cursor : Placed(cursor) => Placed(cursor)'
  BY DEF Placed, StandsIn, BodyFingerprint
<1>2. \A m : GetSound(m) => GetSound(m)'
  BY <1>1 DEF GetSound, GetShape, Section
<1>3. \A s : ExactReply(s) => ExactReply(s)'
  BY DEF ExactReply
<1> QED BY <1>1, <1>2, <1>3 DEF BodyInvariant

(* get_message, read_body, BodyCursor::page: for any bodies of any characters, any
   sizes a provider declares, any grants, page sizes and limits, the pages of a chain
   of cursors are one body from its beginning, each makes progress, none is of a body
   not read to its end, honest sizes are served, and an error names what was used. *)
THEOREM BodyPagesStayExact ==
    ASSUME BodyAssumption
    PROVE  BodySpec => []BodyPagesExact
<1>1. BodyInit => BodyInvariant
  BY BodiesStart
<1>2. BodyInvariant /\ [BodyNext]_bodyVars => BodyInvariant'
  <2> SUFFICES ASSUME BodyInvariant, [BodyNext]_bodyVars PROVE BodyInvariant'
    OBVIOUS
  <2>1. ASSUME NEW c \in Callers, NEW uid \in MessageUids, NEW v \in 1..boxValidity,
               NEW cursor \in bodyCursors \cup {NoCursor}, NEW maximum \in MaxBytesAsked,
               GetMessage(c, uid, v, cursor, maximum)
        PROVE  BodyInvariant'
    BY <2>1, GetMessageKeeps
  <2>2. ASSUME NEW c \in Callers, MemoryRead(c) \/ Metadata(c) \/ ExamineMailbox(c)
        PROVE  BodyInvariant'
    BY <2>2, MemoryReadKeeps, MetadataKeeps, ExamineKeeps
  <2>3. ASSUME NEW c \in Callers, FetchSection(c) \/ Render(c) \/ Cut(c)
        PROVE  BodyInvariant'
    BY <2>3, FetchKeeps, RenderKeeps, CutKeeps
  <2>4. ASSUME NEW uid \in MessageUids, RemoveMessage(uid) PROVE BodyInvariant'
    BY <2>4, ProviderKeeps DEF RemoveMessage, BodyInvariant
  <2>5. ASSUME NEW uid \in MessageUids, NEW body \in Bodies, Rewrite(uid, body)
        PROVE  BodyInvariant'
    BY <2>5, ProviderKeeps DEF Rewrite, BodyInvariant
  <2>6. ASSUME NEW uid \in MessageUids, NEW body \in Bodies, RecreateMailbox(uid, body)
        PROVE  BodyInvariant'
    BY <2>6, ProviderKeeps DEF RecreateMailbox
  <2>7. CASE UNCHANGED bodyVars
    BY <2>7, ProviderKeeps DEF bodyVars, BodyInvariant
  <2> QED BY <2>1, <2>2, <2>3, <2>4, <2>5, <2>6, <2>7 DEF BodyNext
<1>3. BodyInvariant => BodyPagesExact
  BY BodyInvariantIsExact
<1> QED BY <1>1, <1>2, <1>3, PTL DEF BodySpec
=============================================================================
