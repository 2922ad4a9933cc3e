----------------------------- MODULE FrontendProofs --------------------------
(***************************************************************************)
(* For any set of ids and any number of slots: what the transport took     *)
(* from the client is somewhere, once, until it is answered.  The          *)
(* difficulty is the answer that is dropped: its id leaves the request map *)
(* unanswered, which is right only because the client cancelled it and the *)
(* cancellation was seen before the id could be sent again.                *)
(*                                                                         *)
(* For any limits, its memory is divided within the configured bytes.      *)
(* Each search keeps a value that fits and, above it, one that does not;   *)
(* what is reserved grows with the input and with the envelope, so a later *)
(* search never goes below what an earlier one has reserved.               *)
(*                                                                         *)
(* An isolated session never hands a call the answer to another one, for   *)
(* any number of calls.  The argument: while the client's end is open, the *)
(* two directions of the stream and the server hold at most one exchange,  *)
(* and it belongs to the call that has the stream; a call that gives up    *)
(* closes the stream with everything in it.                                *)
(*                                                                         *)
(* For any number of server processes and connections: the socket that     *)
(* clients find belongs to the process that holds the lock, and permits    *)
(* and sessions agree.  The argument: from singleton_lock to release a     *)
(* process holds the lock, so that only one is anywhere in between, and    *)
(* every session belongs to a process that serves.                         *)
(*                                                                         *)
(* What a caller is told of an operation that may have happened is true,   *)
(* whichever layer was interrupted, lost or found the answer too large.    *)
(* The argument: once the front end has an answer, the operation is over,  *)
(* or cannot begin any more, or the answer already says that a draft may   *)
(* exist; every later layer keeps what makes it say so.                    *)
(***************************************************************************)
EXTENDS McpTransport, McpBounds, IsolationSession, IsolationServer, Replies, FiniteSetTheorems,
        TLAPS

(* A cancellation in hand is of an id the client no longer waits for. *)
CancelForgets == (staged # None /\ staged.kind = "cancel") => staged.id \notin unanswered

(* Cancelled ids are of the request map; what is dropped was cancelled; and who
   waits for a cancelled id has sent it anew. *)
CancelledEntries ==
    /\ cancelled \subseteq Pending
    /\ \A id \in Ids : pending[id] = "dropping" => id \in cancelled
    /\ \A id \in cancelled \cap unanswered : StagedRequest /\ staged.id = id

TransportInvariant ==
    /\ RequestsKept
    /\ IsFiniteSet(Pending)
    /\ CancelForgets /\ CancelledEntries

Slots == free + Cardinality(Pending) = Requests

Owners ==
    controlFree + (IF staged # None THEN 1 ELSE 0) + (IF rejected # None THEN 1 ELSE 0)
         + (IF notifying THEN 1 ELSE 0) = 1

-----------------------------------------------------------------------------
(* A decoded request, and a decoded cancellation, names an id. *)
LEMMA StagedNames ==
    ASSUME TypeOK, staged # None, staged.kind \in RequestKinds \cup {"cancel"}
    PROVE  staged.id \in Ids
  BY DEF TypeOK, Item, RequestKinds

LEMMA ItemNames ==
    ASSUME NEW item \in Item, item.kind \in RequestKinds \cup {"cancel"}
    PROVE  item.id \in Ids
  BY DEF Item, RequestKinds

LEMMA DeferredNames ==
    ASSUME TypeOK, deferred # None
    PROVE  deferred.id \in Ids /\ deferred.left \in 0..Deadline
  BY DEF TypeOK, Waiting

LEMMA TransportInit ==
    ASSUME McpTransportAssumption, Init
    PROVE  TransportInvariant
<1>1. TypeOK
  <2>1. free \in 0..Requests /\ controlFree \in 0..1 /\ receiveLeft \in 0..Deadline
    BY DEF McpTransportAssumption, Init
  <2>2. /\ notifying \in BOOLEAN /\ initializing \in BOOLEAN
        /\ shutdown \in BOOLEAN /\ closed \in BOOLEAN
    BY DEF Init
  <2>3. pending \in [Ids -> Progress \cup {None}]
    BY DEF Init
  <2> QED
    BY <2>1, <2>2, <2>3 DEF Init, TypeOK
<1>2. Pending = {}
  BY DEF Init, Pending
<1>3. IsFiniteSet(Pending) /\ Cardinality(Pending) = 0
  BY <1>2, FS_EmptySet
<1>4. free + Cardinality(Pending) = Requests
  BY <1>3 DEF McpTransportAssumption, Init
<1>5. Owners
  BY DEF Init, Owners
<1>6. OnePlace /\ NoneForgotten /\ CancelForgets
  BY DEF Init, OnePlace, NoneForgotten, CancelForgets
<1>7. CancelledEntries
  BY DEF McpTransportAssumption, Init, CancelledEntries, Progress
<1> QED
  BY <1>1, <1>3, <1>4, <1>5, <1>6, <1>7
     DEF TransportInvariant, RequestsKept, PermitsOwned, Owners

(* Steps that only end or shut down the session. *)
Ends ==
    /\ UNCHANGED <<free, controlFree, pending, cancelled, staged, deferred, rejected, notifying,
                   initializing, receiveLeft, unanswered>>
    /\ closed' \in {closed, TRUE} /\ shutdown' \in {shutdown, TRUE}
    /\ failure' \in {None, "frame", "too_large", "timeout", "write"}

LEMMA EndsStep ==
    ASSUME TransportInvariant, Ends
    PROVE  TransportInvariant'
<1>1. TypeOK'
  <2>1. closed' \in BOOLEAN /\ shutdown' \in BOOLEAN
    BY ZenonT(30) DEF TransportInvariant, RequestsKept, TypeOK, Ends
  <2> QED
    BY <2>1 DEF TransportInvariant, RequestsKept, TypeOK, Ends
<1>2. Pending' = Pending
  BY DEF Pending, Ends
<1>3. PermitsOwned' /\ OnePlace' /\ IsFiniteSet(Pending)'
  BY <1>2 DEF TransportInvariant, RequestsKept, PermitsOwned, OnePlace, Ends
<1>4. CancelForgets' /\ CancelledEntries'
  BY <1>2 DEF TransportInvariant, CancelForgets, CancelledEntries, StagedRequest, Ends
<1>5. NoneForgotten'
  <2>1. CASE closed' = TRUE \/ shutdown' = TRUE
    BY <2>1 DEF NoneForgotten
  <2>2. CASE closed' = closed /\ shutdown' = shutdown
    BY <2>2, <1>2 DEF TransportInvariant, RequestsKept, NoneForgotten, Ends
  <2> QED
    BY <2>1, <2>2 DEF Ends
<1> QED
  BY <1>1, <1>3, <1>4, <1>5 DEF TransportInvariant, RequestsKept

LEMMA EndingSteps ==
    ASSUME TransportInvariant,
           \/ GiveUpWaiting \/ ControlTimeout \/ Refuse \/ RejectionFailed \/ RejectionTimeout
           \/ \E id \in Ids : AnswerLost(id)
           \/ IngressEnds \/ UNCHANGED vars
    PROVE  Ends
<1>1. CASE GiveUpWaiting \/ ControlTimeout \/ Refuse
  BY <1>1 DEF TransportInvariant, RequestsKept, TypeOK, GiveUpWaiting, ControlTimeout, Refuse,
     Closing, Ends
<1>2. CASE RejectionFailed \/ RejectionTimeout
  BY <1>2 DEF TransportInvariant, RequestsKept, TypeOK, RejectionFailed, RejectionTimeout,
     RejectionLost, Recorded, Ends
<1>3. CASE \E id \in Ids : AnswerLost(id)
  BY <1>3 DEF TransportInvariant, RequestsKept, TypeOK, AnswerLost, Recorded, Ends
<1>4. CASE IngressEnds \/ UNCHANGED vars
  BY <1>4 DEF TransportInvariant, RequestsKept, TypeOK, IngressEnds, vars, Ends
<1> QED
  BY <1>1, <1>2, <1>3, <1>4

-----------------------------------------------------------------------------
(* Steps that leave the request map and the slots alone keep Slots. *)
LEMMA SameSlots ==
    ASSUME TransportInvariant, free' = free, pending' = pending
    PROVE  /\ Pending' = Pending /\ IsFiniteSet(Pending)'
           /\ Slots'
<1>1. Pending' = Pending
  BY DEF Pending
<1> QED
  BY <1>1 DEF TransportInvariant, RequestsKept, PermitsOwned, Slots

(* One id enters the request map. *)
LEMMA EntersSlot ==
    ASSUME McpTransportAssumption, TransportInvariant, NEW id \in Ids, pending[id] = None,
           free > 0, free' = free - 1, pending' = [pending EXCEPT ![id] = "handling"]
    PROVE  /\ Pending' = Pending \cup {id} /\ IsFiniteSet(Pending)'
           /\ Slots' /\ free' \in 0..Requests
           /\ pending' \in [Ids -> Progress \cup {None}]
<1>1. Pending' = Pending \cup {id}
  BY DEF McpTransportAssumption, TransportInvariant, RequestsKept, TypeOK, Pending, Progress
<1>2. id \notin Pending /\ IsFiniteSet(Pending)
  BY DEF Pending, TransportInvariant
<1>3. /\ IsFiniteSet(Pending \cup {id})
      /\ Cardinality(Pending \cup {id}) = Cardinality(Pending) + 1
      /\ Cardinality(Pending) \in Nat
  BY <1>2, FS_AddElement, FS_CardinalityType
<1>4. free \in 0..Requests /\ Requests \in Nat /\ free + Cardinality(Pending) = Requests
  BY DEF McpTransportAssumption, TransportInvariant, RequestsKept, PermitsOwned, TypeOK
<1>5. Slots' /\ free' \in 0..Requests
  BY <1>1, <1>3, <1>4 DEF Slots
<1>6. pending' \in [Ids -> Progress \cup {None}]
  BY DEF TransportInvariant, RequestsKept, TypeOK, Progress
<1> QED
  BY <1>1, <1>3, <1>5, <1>6

(* One id leaves the request map. *)
LEMMA LeavesSlot ==
    ASSUME McpTransportAssumption, TransportInvariant, NEW id \in Ids, pending[id] # None,
           Removed(id)
    PROVE  /\ Pending' = Pending \ {id} /\ IsFiniteSet(Pending)'
           /\ Slots' /\ free' \in 0..Requests
           /\ pending' \in [Ids -> Progress \cup {None}]
<1>1. Pending' = Pending \ {id}
  BY DEF TransportInvariant, RequestsKept, TypeOK, Pending, Removed
<1>2. id \in Pending /\ IsFiniteSet(Pending)
  BY DEF Pending, TransportInvariant
<1>3. /\ IsFiniteSet(Pending \ {id})
      /\ Cardinality(Pending \ {id}) = Cardinality(Pending) - 1
      /\ Cardinality(Pending) \in Nat /\ Cardinality(Pending \ {id}) \in Nat
  BY <1>2, FS_RemoveElement, FS_CardinalityType
<1>4. free \in 0..Requests /\ Requests \in Nat /\ free + Cardinality(Pending) = Requests
  BY DEF McpTransportAssumption, TransportInvariant, RequestsKept, PermitsOwned, TypeOK
<1>5. Slots' /\ free' \in 0..Requests
  BY <1>1, <1>3, <1>4 DEF Slots, Removed
<1>6. pending' \in [Ids -> Progress \cup {None}]
  BY DEF TransportInvariant, RequestsKept, TypeOK, Removed
<1> QED
  BY <1>1, <1>3, <1>5, <1>6

(* The handshake is behind, or not: a truth value either way. *)
LEMMA InitializedType ==
    ASSUME Initialized
    PROVE  initializing' \in BOOLEAN
  BY Zenon DEF Initialized

-----------------------------------------------------------------------------
(* A request takes its slot, from waiting or from the wire. *)
LEMMA AdmitSteps ==
    ASSUME McpTransportAssumption, TransportInvariant, AdmitDeferred \/ Admit
    PROVE  TransportInvariant'
<1>1. CASE AdmitDeferred
  <2>1. PICK id \in Ids : id = deferred.id
    BY <1>1, DeferredNames DEF TransportInvariant, RequestsKept, AdmitDeferred
  <2>2. pending[id] = None
    BY <1>1, <2>1 DEF TransportInvariant, RequestsKept, OnePlace, Pending, AdmitDeferred
  <2>3. free > 0 /\ free' = free - 1 /\ pending' = [pending EXCEPT ![id] = "handling"]
        /\ closed' = closed
    BY <1>1, <2>1, <2>2 DEF AdmitDeferred, Admitted
  <2>4. /\ Pending' = Pending \cup {id} /\ IsFiniteSet(Pending)' /\ Slots'
        /\ free' \in 0..Requests /\ pending' \in [Ids -> Progress \cup {None}]
    BY <2>2, <2>3, EntersSlot
  <2>5. TypeOK'
    BY <1>1, <2>3, <2>4 DEF TransportInvariant, RequestsKept, TypeOK, AdmitDeferred
  <2>6. Owners' /\ OnePlace'
    BY <1>1, <2>4 DEF TransportInvariant, RequestsKept, PermitsOwned, Owners, OnePlace,
       AdmitDeferred, Receiving
  <2>7. NoneForgotten'
    BY <1>1, <2>1, <2>3, <2>4 DEF TransportInvariant, RequestsKept, NoneForgotten, AdmitDeferred
  <2>8. CancelForgets' /\ CancelledEntries'
    BY <1>1, <2>3, <2>4 DEF TransportInvariant, RequestsKept, TypeOK, CancelForgets,
       CancelledEntries, StagedRequest, AdmitDeferred
  <2> QED
    BY <2>4, <2>5, <2>6, <2>7, <2>8
       DEF TransportInvariant, RequestsKept, PermitsOwned, Owners, Slots
<1>2. CASE Admit
  <2>1. PICK id \in Ids : id = staged.id
    BY <1>2, StagedNames DEF TransportInvariant, RequestsKept, Admit, RequestTurn, StagedRequest
  <2>2. pending[id] = None /\ id \notin Pending
    BY <1>2, <2>1 DEF Admit, Known, Pending
  <2>3. free > 0 /\ free' = free - 1 /\ pending' = [pending EXCEPT ![id] = "handling"]
        /\ closed' = closed
    BY <1>2, <2>1, <2>2 DEF Admit, Admitted
  <2>4. /\ Pending' = Pending \cup {id} /\ IsFiniteSet(Pending)' /\ Slots'
        /\ free' \in 0..Requests /\ pending' \in [Ids -> Progress \cup {None}]
    BY <2>2, <2>3, EntersSlot
  <2>5. Owners' /\ controlFree' \in 0..1
    BY <1>2 DEF TransportInvariant, RequestsKept, TypeOK, PermitsOwned, Owners, Admit,
       RequestTurn, StagedRequest, Unstaged
  <2>6. TypeOK'
    BY <1>2, <2>3, <2>4, <2>5, InitializedType
       DEF TransportInvariant, RequestsKept, TypeOK, Admit, Unstaged
  <2>7. OnePlace'
    BY <1>2, <2>4 DEF OnePlace, Admit, RequestTurn, Receiving
  <2>8. NoneForgotten'
    BY <1>2, <2>1, <2>3, <2>4 DEF TransportInvariant, RequestsKept, NoneForgotten, Admit, Unstaged
  <2>9. CancelForgets' /\ CancelledEntries'
    <3>1. \A i \in cancelled : i # id
      BY <2>2 DEF TransportInvariant, CancelledEntries
    <3> QED
      BY <1>2, <2>1, <2>3, <2>4, <3>1 DEF TransportInvariant, RequestsKept, TypeOK, CancelForgets,
         CancelledEntries, StagedRequest, Admit, Unstaged
  <2> QED
    BY <2>4, <2>5, <2>6, <2>7, <2>8, <2>9
       DEF TransportInvariant, RequestsKept, PermitsOwned, Owners, Slots
<1> QED
  BY <1>1, <1>2

(* A request waits, or is refused for overload. *)
LEMMA WaitSteps ==
    ASSUME McpTransportAssumption, TransportInvariant, Defer \/ Reject
    PROVE  TransportInvariant'
<1>1. Pending' = Pending /\ IsFiniteSet(Pending)' /\ Slots'
  BY SameSlots DEF Defer, Reject
<1>2. PICK id \in Ids : id = staged.id
  BY StagedNames DEF TransportInvariant, RequestsKept, Defer, Reject, RequestTurn, StagedRequest
<1>3. id \notin Pending /\ (deferred # None => deferred.id # id) /\ id # None
  BY <1>2 DEF Defer, Reject, Known, McpTransportAssumption
<1>4. Owners' /\ controlFree' \in 0..1
  BY <1>2, <1>3 DEF TransportInvariant, RequestsKept, TypeOK, PermitsOwned, Owners, Defer, Reject,
     RequestTurn, Receiving, StagedRequest, Unstaged
<1>5. deferred' \in Waiting \cup {None} /\ rejected' \in Ids \cup {None}
  BY <1>2 DEF TransportInvariant, RequestsKept, TypeOK, Waiting, Defer, Reject
<1>6. TypeOK'
  BY <1>4, <1>5, InitializedType
     DEF TransportInvariant, RequestsKept, TypeOK, Defer, Reject, Unstaged
<1>7. OnePlace'
  BY <1>1, <1>2, <1>3 DEF TransportInvariant, RequestsKept, OnePlace, Defer, Reject, RequestTurn,
     Receiving
<1>8. NoneForgotten'
  <2>1. CASE Defer
    <3>1. deferred'.id = id /\ deferred' # None
      BY <2>1, <1>2, <1>5 DEF Defer, McpTransportAssumption, TransportInvariant, RequestsKept,
         TypeOK, Waiting
    <3> QED
      BY <2>1, <3>1, <1>1, <1>2 DEF TransportInvariant, RequestsKept, NoneForgotten, Defer
  <2>2. CASE Reject
    BY <2>2, <1>1, <1>2 DEF McpTransportAssumption, TransportInvariant, RequestsKept, TypeOK,
       NoneForgotten, Reject, RequestTurn, Receiving
  <2> QED
    BY <2>1, <2>2
<1>9. CancelForgets' /\ CancelledEntries'
  <2>1. cancelled' = cancelled /\ pending' = pending /\ unanswered' = unanswered /\ staged' = None
    BY DEF Defer, Reject, Unstaged
  <2>2. \A i \in cancelled : i # id
    BY <1>3 DEF TransportInvariant, CancelledEntries
  <2> QED
    BY <2>1, <2>2, <1>1, <1>2 DEF TransportInvariant, CancelForgets, CancelledEntries
<1> QED
  BY <1>1, <1>4, <1>6, <1>7, <1>8, <1>9
     DEF TransportInvariant, RequestsKept, PermitsOwned, Owners, Slots

(* The overload answer is written, or dropped by close(). *)
LEMMA RejectionSteps ==
    ASSUME McpTransportAssumption, TransportInvariant, FinishRejection \/ Close
    PROVE  TransportInvariant'
<1>1. Pending' = Pending /\ IsFiniteSet(Pending)' /\ Slots'
  BY SameSlots DEF FinishRejection, Close
<1>2. Owners' /\ controlFree' \in 0..1
  BY DEF TransportInvariant, RequestsKept, TypeOK, PermitsOwned, Owners, FinishRejection, Close
<1>3. TypeOK'
  BY <1>2 DEF TransportInvariant, RequestsKept, TypeOK, FinishRejection, Close
<1>4. OnePlace' /\ NoneForgotten'
  BY <1>1 DEF TransportInvariant, RequestsKept, OnePlace, NoneForgotten, FinishRejection, Close
<1>5. CancelForgets' /\ CancelledEntries'
  BY <1>1 DEF TransportInvariant, CancelForgets, CancelledEntries, StagedRequest,
     FinishRejection, Close
<1> QED
  BY <1>1, <1>2, <1>3, <1>4, <1>5
     DEF TransportInvariant, RequestsKept, PermitsOwned, Owners, Slots

(* A decoded message that is no request: a cancellation, a notification, the rest. *)
LEMMA MessageSteps ==
    ASSUME McpTransportAssumption, TransportInvariant,
           CancelPending \/ CancelDeferred \/ Notify \/ PassOn \/ NotificationHandled
    PROVE  TransportInvariant'
<1>1. Pending' = Pending /\ IsFiniteSet(Pending)' /\ Slots'
  BY SameSlots DEF CancelPending, CancelDeferred, Notify, PassOn, NotificationHandled
<1>2. Owners' /\ controlFree' \in 0..1 /\ notifying' \in BOOLEAN
  <2>1. Owners /\ controlFree \in 0..1 /\ notifying \in BOOLEAN
    BY DEF TransportInvariant, RequestsKept, TypeOK, PermitsOwned, Owners
  <2>2. CASE CancelPending \/ CancelDeferred \/ PassOn
    BY <2>1, <2>2 DEF Owners, CancelPending, CancelDeferred, PassOn, Unstaged
  <2>3. CASE Notify
    BY <2>1, <2>3 DEF Owners, Notify
  <2>4. CASE NotificationHandled
    <3>1. /\ notifying = TRUE /\ notifying' = FALSE
          /\ controlFree' = controlFree + 1 /\ staged' = staged /\ rejected' = rejected
      BY <2>1, <2>4 DEF NotificationHandled
    <3>2. controlFree = 0 /\ staged = None /\ rejected = None
      BY <2>1, <3>1 DEF Owners
    <3>3. controlFree' = 1 /\ staged' = None /\ rejected' = None
      BY <3>1, <3>2
    <3>4. Owners'
      BY <3>1, <3>3 DEF Owners
    <3>5. controlFree' \in 0..1
      BY <3>3
    <3>6. notifying' \in BOOLEAN
      BY <2>4, Zenon DEF NotificationHandled
    <3> QED
      BY <3>4, <3>5, <3>6
  <2> QED
    BY <2>2, <2>3, <2>4
<1>3. TypeOK'
  <2>1. cancelled' \subseteq Ids
    BY StagedNames DEF TransportInvariant, RequestsKept, TypeOK, CancelPending, CancelDeferred,
       Notify, PassOn, NotificationHandled
  <2> QED
    BY <1>2, <2>1 DEF TransportInvariant, RequestsKept, TypeOK, CancelPending, CancelDeferred,
       Notify, PassOn, NotificationHandled, Unstaged
<1>4. OnePlace'
  BY <1>1 DEF TransportInvariant, RequestsKept, OnePlace, CancelPending, CancelDeferred, Notify,
     PassOn, NotificationHandled
<1>5. NoneForgotten'
  BY <1>1 DEF TransportInvariant, RequestsKept, NoneForgotten, CancelForgets, RequestKinds,
     CancelPending, CancelDeferred, Notify, PassOn, NotificationHandled, Unstaged
<1>6. CancelForgets'
  BY DEF TransportInvariant, CancelForgets, CancelPending, CancelDeferred, Notify, PassOn,
     NotificationHandled, Unstaged
<1>7. CancelledEntries'
  <2>1. CASE CancelPending
    <3>1. staged.id \in Pending
      BY <2>1, StagedNames DEF TransportInvariant, RequestsKept, CancelPending, Pending
    <3> QED
      BY <2>1, <3>1, <1>1 DEF TransportInvariant, CancelForgets, CancelledEntries, StagedRequest,
         RequestKinds, CancelPending
  <2>2. CASE CancelDeferred \/ Notify \/ PassOn \/ NotificationHandled
    BY <2>2, <1>1 DEF TransportInvariant, CancelledEntries, StagedRequest, RequestKinds,
       CancelDeferred, Notify, PassOn, NotificationHandled
  <2> QED
    BY <2>1, <2>2
<1> QED
  BY <1>1, <1>2, <1>3, <1>4, <1>5, <1>6, <1>7
     DEF TransportInvariant, RequestsKept, PermitsOwned, Owners, Slots

(* The client's next message is decoded. *)
LEMMA DecodeStep ==
    ASSUME McpTransportAssumption, TransportInvariant, NEW item \in Item, Decode(item)
    PROVE  TransportInvariant'
<1>1. Pending' = Pending /\ IsFiniteSet(Pending)' /\ Slots'
  BY SameSlots DEF Decode
<1>2. item # None /\ staged' = item
  BY DEF McpTransportAssumption, Decode
<1>3. Owners' /\ controlFree' \in 0..1
  BY <1>2 DEF TransportInvariant, RequestsKept, TypeOK, PermitsOwned, Owners, Decode
<1>4. unanswered' \subseteq Ids /\ receiveLeft' \in 0..Deadline
  BY ItemNames DEF TransportInvariant, RequestsKept, TypeOK, McpTransportAssumption, Decode
<1>5. TypeOK'
  BY <1>2, <1>3, <1>4 DEF TransportInvariant, RequestsKept, TypeOK, Decode
<1>6. OnePlace'
  BY <1>1 DEF TransportInvariant, RequestsKept, OnePlace, Decode
<1>7. NoneForgotten'
  BY <1>1, <1>2 DEF TransportInvariant, RequestsKept, NoneForgotten, Decode
<1>8. CancelForgets' /\ CancelledEntries'
  BY <1>1, <1>2 DEF TransportInvariant, CancelForgets, CancelledEntries, StagedRequest,
     RequestKinds, Decode
<1> QED
  BY <1>1, <1>3, <1>5, <1>6, <1>7, <1>8
     DEF TransportInvariant, RequestsKept, PermitsOwned, Owners, Slots

(* A handler answers: the entry stays, only what its output does is decided. *)
LEMMA AnswerStep ==
    ASSUME McpTransportAssumption, TransportInvariant, NEW id \in Ids, Answer(id)
    PROVE  TransportInvariant'
<1>1. PICK what \in {"sending", "dropping", "oversized"} :
          /\ pending' = [pending EXCEPT ![id] = what]
          /\ what = "dropping" => id \in cancelled
  BY DEF Answer
<1>2. pending' \in [Ids -> Progress \cup {None}]
  BY <1>1 DEF TransportInvariant, RequestsKept, TypeOK, Progress
<1>3. Pending' = Pending
  BY <1>1 DEF McpTransportAssumption, TransportInvariant, RequestsKept, TypeOK, Pending, Progress,
     Answer
<1>4. TypeOK'
  BY <1>2 DEF TransportInvariant, RequestsKept, TypeOK, Answer
<1>5. PermitsOwned' /\ OnePlace' /\ NoneForgotten' /\ IsFiniteSet(Pending)'
  BY <1>3 DEF TransportInvariant, RequestsKept, PermitsOwned, OnePlace, NoneForgotten, Answer
<1>6. CancelForgets' /\ CancelledEntries'
  BY <1>1, <1>3 DEF TransportInvariant, RequestsKept, TypeOK, CancelForgets, CancelledEntries,
     StagedRequest, Answer
<1> QED
  BY <1>4, <1>5, <1>6 DEF TransportInvariant, RequestsKept

(* An output is done, or fails: the id leaves the request map.  One that was
   dropped was cancelled: who waits for the id has sent it anew. *)
LEMMA OutputSteps ==
    ASSUME McpTransportAssumption, TransportInvariant, NEW id \in Ids,
           AnswerDone(id) \/ AnswerFailed(id)
    PROVE  TransportInvariant'
<1>1. pending[id] # None /\ Removed(id)
  BY DEF McpTransportAssumption, Progress, AnswerDone, AnswerFailed
<1>2. /\ Pending' = Pending \ {id} /\ IsFiniteSet(Pending)' /\ Slots'
      /\ free' \in 0..Requests /\ pending' \in [Ids -> Progress \cup {None}]
  BY <1>1, LeavesSlot
<1>3. TypeOK'
  <2>1. /\ cancelled' \subseteq Ids /\ unanswered' \subseteq Ids /\ shutdown' \in BOOLEAN
        /\ failure' \in {None, "frame", "too_large", "timeout", "write"}
    BY <1>1 DEF TransportInvariant, RequestsKept, TypeOK, AnswerDone, AnswerFailed, Removed,
       Recorded
  <2> QED
    BY <1>2, <2>1 DEF TransportInvariant, RequestsKept, TypeOK, AnswerDone, AnswerFailed
<1>4. Owners' /\ OnePlace'
  BY <1>2 DEF TransportInvariant, RequestsKept, PermitsOwned, Owners, OnePlace, AnswerDone,
     AnswerFailed
<1>5. NoneForgotten'
  <2>1. CASE AnswerFailed(id)
    BY <2>1 DEF NoneForgotten, AnswerFailed, Recorded
  <2>2. CASE AnswerDone(id) /\ pending[id] = "sending"
    BY <2>2, <1>2 DEF TransportInvariant, RequestsKept, NoneForgotten, AnswerDone
  <2>3. CASE AnswerDone(id) /\ pending[id] = "dropping"
    <3>1. id \in unanswered => StagedRequest /\ staged.id = id
      BY <2>3 DEF TransportInvariant, CancelledEntries
    <3> QED
      BY <2>3, <3>1, <1>2 DEF TransportInvariant, RequestsKept, NoneForgotten, StagedRequest,
         AnswerDone
  <2> QED
    BY <2>1, <2>2, <2>3 DEF AnswerDone
<1>6. CancelForgets' /\ CancelledEntries'
  BY <1>1, <1>2 DEF McpTransportAssumption, TransportInvariant, RequestsKept, TypeOK,
     CancelForgets, CancelledEntries, StagedRequest, Progress, AnswerDone, AnswerFailed, Removed
<1> QED
  BY <1>2, <1>3, <1>4, <1>5, <1>6
     DEF TransportInvariant, RequestsKept, PermitsOwned, Owners, Slots

(* Time passes. *)
LEMMA TickStep ==
    ASSUME McpTransportAssumption, TransportInvariant, Tick
    PROVE  TransportInvariant'
<1>1. Pending' = Pending /\ IsFiniteSet(Pending)' /\ Slots'
  BY SameSlots DEF Tick
<1>2. /\ deferred' \in Waiting \cup {None} /\ receiveLeft' \in 0..Deadline
      /\ deferred = None <=> deferred' = None
      /\ deferred # None => deferred'.id = deferred.id
  BY DEF McpTransportAssumption, TransportInvariant, RequestsKept, TypeOK, Waiting, Tick
<1>3. TypeOK'
  BY <1>2 DEF TransportInvariant, RequestsKept, TypeOK, Tick
<1>4. Owners' /\ OnePlace'
  BY <1>1, <1>2 DEF TransportInvariant, RequestsKept, PermitsOwned, Owners, OnePlace, Tick
<1>5. NoneForgotten'
  BY <1>1, <1>2 DEF TransportInvariant, RequestsKept, NoneForgotten, Tick
<1>6. CancelForgets' /\ CancelledEntries'
  BY <1>1 DEF TransportInvariant, CancelForgets, CancelledEntries, StagedRequest, Tick
<1> QED
  BY <1>1, <1>3, <1>4, <1>5, <1>6
     DEF TransportInvariant, RequestsKept, PermitsOwned, Owners, Slots

LEMMA TransportStep ==
    ASSUME McpTransportAssumption, TransportInvariant, [Next]_vars
    PROVE  TransportInvariant'
<1>1. CASE AdmitDeferred \/ Admit
  BY <1>1, AdmitSteps
<1>2. CASE Defer \/ Reject
  BY <1>2, WaitSteps
<1>3. CASE FinishRejection \/ Close
  BY <1>3, RejectionSteps
<1>4. CASE CancelPending \/ CancelDeferred \/ Notify \/ PassOn \/ NotificationHandled
  BY <1>4, MessageSteps
<1>5. CASE \E item \in Item : Decode(item)
  BY <1>5, DecodeStep
<1>6. CASE \E id \in Ids : Answer(id)
  BY <1>6, AnswerStep
<1>7. CASE \E id \in Ids : AnswerDone(id) \/ AnswerFailed(id)
  BY <1>7, OutputSteps
<1>8. CASE Tick
  BY <1>8, TickStep
<1>9. CASE \/ GiveUpWaiting \/ ControlTimeout \/ Refuse \/ RejectionFailed \/ RejectionTimeout
           \/ \E id \in Ids : AnswerLost(id)
           \/ IngressEnds \/ UNCHANGED vars
  BY <1>9, EndingSteps, EndsStep
<1> QED
  BY <1>1, <1>2, <1>3, <1>4, <1>5, <1>6, <1>7, <1>8, <1>9 DEF Next, Receive

-----------------------------------------------------------------------------
(* For any number of slots and ids: slots and the control permit have owners, an id
   is at one place only, and no request the client waits for is forgotten while
   the session lives (receive and send in mcp_transport.rs). *)
THEOREM RequestsAreKept ==
    ASSUME McpTransportAssumption
    PROVE  Spec => []RequestsKept
<1>1. Init => TransportInvariant
  BY TransportInit
<1>2. TransportInvariant /\ [Next]_vars => TransportInvariant'
  BY TransportStep
<1>3. TransportInvariant => RequestsKept
  BY DEF TransportInvariant
<1> QED
  BY <1>1, <1>2, <1>3, PTL DEF Spec

(* While a request waits no other is admitted, and nothing is written for one that
   was cancelled before its answer began. *)
THEOREM OrderAndSilence ==
    ASSUME McpTransportAssumption
    PROVE  Spec => TransportSteps
<1>1. TransportInvariant /\ [Next]_vars => [InOrder /\ CancelledIsSilent]_vars
  <2> SUFFICES ASSUME TransportInvariant, Next
               PROVE  InOrder /\ CancelledIsSilent
    BY DEF vars
  <2>1. CASE \E id \in Ids : Answer(id)
    BY <2>1 DEF TransportInvariant, RequestsKept, TypeOK, McpTransportAssumption, Progress,
       InOrder, CancelledIsSilent, Answer
  <2>2. CASE \E id \in Ids : AnswerDone(id) \/ AnswerFailed(id)
    BY <2>2 DEF TransportInvariant, RequestsKept, TypeOK, InOrder,
       CancelledIsSilent, AnswerDone, AnswerFailed, Removed
  <2>3. CASE AdmitDeferred \/ Admit
    BY <2>3 DEF TransportInvariant, RequestsKept, TypeOK, McpTransportAssumption, Progress,
       InOrder, CancelledIsSilent, AdmitDeferred, Admit, Admitted
  <2>4. CASE pending' = pending
    BY <2>4 DEF InOrder, CancelledIsSilent
  <2> QED
    BY <2>1, <2>2, <2>3, <2>4 DEF Next, Receive, FinishRejection, RejectionFailed,
       RejectionTimeout, RejectionLost, Decode, NotificationHandled, AnswerLost, IngressEnds,
       Close, Tick, GiveUpWaiting, ControlTimeout, Closing, CancelPending, CancelDeferred, Refuse,
       Defer, Reject, Notify, PassOn
<1>2. Init => TransportInvariant
  BY TransportInit
<1>3. TransportInvariant /\ [Next]_vars => TransportInvariant'
  BY TransportStep
<1> QED
  BY <1>1, <1>2, <1>3, PTL DEF Spec, TransportSteps

-----------------------------------------------------------------------------
(* How much is reserved                                                    *)

LimitsTyped ==
    limits \in [buffered_bytes : Nat, envelope_bytes : Nat, response_bound : Nat,
               draft_mime_bytes : Nat, drafts : BOOLEAN, accounts : Nat, schema_bytes : Nat,
               token_bytes : Nat, active_requests : Nat \ {0}, queued_requests : Nat \ {0}]

(* The two forms of the smaller reservation agree with the smaller product. *)
LEMMA ReserveIsTheLesser ==
    ASSUME NEW i \in Nat
    PROVE  /\ RequestInput(i) = Lesser(128 * i, 4 * i + 2 * MiB)
           /\ Reserve(272, 12, 4 * MiB, i) = Lesser(272 * i, 12 * i + 4 * MiB)
BY DEF RequestInput, Reserve, Lesser, MiB

LEMMA RequestInputGrows ==
    ASSUME NEW i \in Nat, NEW j \in Nat, i <= j
    PROVE  /\ RequestInput(i) \in Nat /\ RequestInput(i) <= RequestInput(j)
           /\ Reserve(272, 12, 4 * MiB, i) \in Nat
           /\ Reserve(272, 12, 4 * MiB, i) <= Reserve(272, 12, 4 * MiB, j)
BY DEF RequestInput, Reserve, Lesser, MiB

LEMMA OutputGrows ==
    ASSUME LimitsTyped, NEW i \in Nat, NEW j \in Nat, i <= j,
           NEW e \in Nat, NEW f \in Nat, e <= f
    PROVE  Output(i, e) \in Nat /\ Output(i, e) <= Output(j, f)
BY DEF LimitsTyped, Output, Greater, KiB

LEMMA StructureGrows ==
    ASSUME LimitsTyped, NEW e \in Nat, NEW f \in Nat, e <= f
    PROVE  Structure(e) \in Nat /\ Structure(e) <= Structure(f) /\ Structure(e) > 0
<1>1. /\ e \div 3 \in Nat /\ e \div 160 \in Nat
      /\ e \div 3 <= f \div 3 /\ e \div 160 <= f \div 160
  OBVIOUS
<1>2. f \div 3 \in Nat /\ f \div 160 \in Nat
  OBVIOUS
<1> QED BY <1>1, <1>2 DEF LimitsTyped, Structure, Lesser, KiB

(* Less input and less envelope never need more. *)
LEMMA StorageGrows ==
    ASSUME LimitsTyped, NEW i \in Nat, NEW j \in Nat, i <= j,
           NEW e \in Nat, NEW f \in Nat, e <= f
    PROVE  /\ Control(i, e) \in Nat /\ Control(i, e) <= Control(j, f)
           /\ PerRequest(i, e) \in Nat \ {0} /\ PerRequest(i, e) <= PerRequest(j, f)
           /\ Fits(j, f) => Fits(i, e)
<1>1. /\ RequestInput(i) \in Nat /\ RequestInput(i) <= RequestInput(j)
      /\ Reserve(272, 12, 4 * MiB, i) \in Nat
      /\ Reserve(272, 12, 4 * MiB, i) <= Reserve(272, 12, 4 * MiB, j)
      /\ RequestInput(j) \in Nat /\ Reserve(272, 12, 4 * MiB, j) \in Nat
  BY RequestInputGrows
<1>2. Output(i, e) \in Nat /\ Output(j, f) \in Nat /\ Output(i, e) <= Output(j, f)
  BY OutputGrows
<1>3. /\ Structure(e) \in Nat /\ Structure(f) \in Nat /\ Structure(e) <= Structure(f)
      /\ Structure(e) > 0
  BY StructureGrows
<1>4. DraftMime \in Nat /\ Available \in Int
  BY DEF LimitsTyped, DraftMime, Available, KiB
<1>5. /\ Control(i, e) \in Nat /\ Control(j, f) \in Nat /\ Control(i, e) <= Control(j, f)
  BY <1>1, <1>2 DEF Control, Lesser, MiB
<1>6. /\ PerRequest(i, e) \in Nat \ {0} /\ PerRequest(j, f) \in Nat
      /\ PerRequest(i, e) <= PerRequest(j, f)
  BY <1>1, <1>3, <1>4 DEF PerRequest
<1> QED BY <1>4, <1>5, <1>6 DEF Fits

(* As many slots as fit, and one at least. *)
LEMMA SlotsFit ==
    ASSUME NEW a \in Int, NEW r \in Nat \ {0}, r <= a, NEW n \in Nat \ {0}
    PROVE  LET s == Lesser(a \div r, n) IN s >= 1 /\ s * r <= a
<1> DEFINE d == a \div r
<1>1. d \in Int /\ d * r <= a /\ a < (d + 1) * r
  BY Z3
<1> HIDE DEF d
<1>2. d >= 1
  BY <1>1, Z3
<1>3. ASSUME NEW s \in Int, s <= d PROVE s * r <= d * r
  BY <1>1, <1>3, Z3
<1>4. Lesser(d, n) \in Int /\ Lesser(d, n) <= d /\ Lesser(d, n) >= 1
  BY <1>1, <1>2 DEF Lesser
<1>5. Lesser(d, n) * r <= a
  BY <1>1, <1>3, <1>4, Z3
<1> QED BY <1>4, <1>5 DEF d

-----------------------------------------------------------------------------
(* The searches                                                            *)

Searches == {"reserved_input", "reserved_envelope", "input", "envelope"}

Over(p) ==
    CASE p = "reserved_input" -> phase # "reserved_input"
      [] p = "reserved_envelope" -> phase \in {"input", "envelope", "done"}
      [] p = "input" -> phase \in {"envelope", "done"}
      [] OTHER -> phase = "done"

(* What a search leaves: a value that fits, and the next does not or is too large. *)
Settles(p, value) ==
    /\ value >= Lowest(p) /\ (value <= Highest(p) \/ value = Lowest(p))
    /\ CandidateFits(p, value)
    /\ value >= Highest(p) \/ ~CandidateFits(p, value + 1)

(* What it keeps meanwhile. *)
Searching ==
    /\ lower >= Lowest(phase) /\ (lower <= Highest(phase) \/ lower = Lowest(phase))
    /\ CandidateFits(phase, lower)
    /\ upper <= Highest(phase) /\ (upper = Highest(phase) \/ ~CandidateFits(phase, upper + 1))
    /\ lower <= upper \/ upper = Highest(phase)

BoundsTyped ==
    /\ limits \in LimitSets /\ phase \in Searches \cup {"done", "refused"}
    /\ lower \in Nat /\ upper \in Nat /\ found \in [Searches -> Nat]

Progressed ==
    phase # "refused" =>
        /\ \A p \in Searches : IF Over(p) THEN Settles(p, found[p]) ELSE found[p] = 0
        /\ phase \in Searches => Searching

(* Nothing that was reserved is taken back. *)
Reserved ==
    /\ phase = "input" => found.reserved_input <= upper \/ found.reserved_input <= lower
    /\ phase \in {"envelope", "done"} => found.reserved_input <= found.input
    /\ phase = "envelope" => Lesser(found.reserved_envelope, ResponseLimit) <= upper
    /\ phase = "done" => /\ found.envelope >= 1024
                         /\ Lesser(found.reserved_envelope, ResponseLimit) <= found.envelope

BoundsInvariant == BoundsTyped /\ Progressed /\ Reserved

LEMMA FollowerFacts ==
    /\ DOMAIN Follower = Searches
    /\ Follower["reserved_input"] = "reserved_envelope"
    /\ Follower["reserved_envelope"] = "input"
    /\ Follower["input"] = "envelope" /\ Follower["envelope"] = "done"
BY DEF Follower, Searches

LEMMA Intervals ==
    ASSUME BoundsAssumption, BoundsTyped
    PROVE  /\ LimitsTyped /\ InputLimit \in Nat /\ ResponseLimit \in Nat
           /\ \A p \in Searches : Lowest(p) \in Nat /\ Highest(p) \in Nat
           /\ found.reserved_input \in Nat /\ found.reserved_envelope \in Nat
           /\ found.input \in Nat /\ found.envelope \in Nat
<1>1. LimitsTyped
  BY DEF BoundsAssumption, BoundsTyped, LimitsTyped
<1>2. InputLimit \in Nat /\ ResponseLimit \in Nat
  BY <1>1 DEF LimitsTyped, InputLimit, ResponseLimit, Lesser, KiB, MiB
<1>3. \A p \in Searches : Lowest(p) \in Nat /\ Highest(p) \in Nat
  BY <1>1, <1>2 DEF Searches, Lowest, Highest, LimitsTyped, Lesser, KiB, MiB
<1> QED BY <1>1, <1>2, <1>3 DEF BoundsTyped, Searches

LEMMA HalveKeeps ==
    ASSUME BoundsAssumption, BoundsInvariant, Halve
    PROVE  BoundsInvariant'
<1> USE DEF BoundsInvariant
<1>1. /\ phase \in Searches /\ lower < upper /\ UNCHANGED <<limits, phase, found>>
      /\ \/ CandidateFits(phase, Middle) /\ lower' = Middle /\ upper' = upper
         \/ ~CandidateFits(phase, Middle) /\ upper' = Middle - 1 /\ lower' = lower
  BY FollowerFacts DEF Halve
<1>2. Middle \in Nat /\ lower < Middle /\ Middle <= upper
  BY <1>1 DEF BoundsTyped, Middle
<1>3. BoundsTyped'
  BY <1>1, <1>2 DEF BoundsTyped
<1>4. Searching /\ \A p \in Searches : IF Over(p) THEN Settles(p, found[p]) ELSE found[p] = 0
  BY <1>1 DEF Progressed, Searches
<1>5. Lowest(phase) \in Nat /\ Highest(phase) \in Nat
  BY <1>1, Intervals
<1>6. /\ Lowest(phase)' = Lowest(phase) /\ Highest(phase)' = Highest(phase)
      /\ CandidateFits(phase, lower)' <=> CandidateFits(phase, lower')
      /\ CandidateFits(phase, upper + 1)' <=> CandidateFits(phase, upper' + 1)
  BY <1>1 DEF Lowest, Highest, InputLimit, ResponseLimit, CandidateFits, Fits, Control, PerRequest,
              Output, Structure, DraftMime, Available
<1>7. Searching'
  <2>1. upper' + 1 = upper + 1 \/ upper' + 1 = Middle
    BY <1>1, <1>2 DEF BoundsTyped
  <2>2. /\ CandidateFits(phase, lower')
        /\ upper' = Highest(phase) \/ ~CandidateFits(phase, upper' + 1)
    BY <1>1, <1>2, <1>4, <2>1 DEF Searching, BoundsTyped
  <2>3. /\ lower' >= Lowest(phase) /\ lower' <= Highest(phase) /\ upper' <= Highest(phase)
        /\ lower' <= upper'
    BY <1>1, <1>2, <1>4, <1>5 DEF Searching, BoundsTyped
  <2> QED BY <1>1, <1>6, <2>2, <2>3 DEF Searching
<1>8. Progressed'
  <2>1. \A p \in Searches :
            (Over(p)' <=> Over(p)) /\ (Settles(p, found[p])' <=> Settles(p, found[p]))
    BY <1>1 DEF Over, Settles, Lowest, Highest, InputLimit, ResponseLimit, CandidateFits, Fits,
                Control, PerRequest, Output, Structure, DraftMime, Available
  <2> QED BY <1>1, <1>4, <1>7, <2>1 DEF Progressed
<1>9. ASSUME phase = "input" PROVE found.reserved_input <= upper' \/ found.reserved_input <= lower'
  <2>1. CASE found.reserved_input < Middle
    BY <1>1, <1>2, <1>9, <2>1, Intervals DEF Reserved, BoundsTyped
  <2>2. CASE Middle <= found.reserved_input
    <3>1. Over("reserved_envelope") /\ "reserved_envelope" \in Searches
      BY <1>9 DEF Over, Searches
    <3>2. Fits(found.reserved_input, found.reserved_envelope)
      BY <1>4, <3>1, Intervals DEF Settles, CandidateFits, BoundsTyped
    <3>3. Fits(Middle, found.reserved_envelope)
      <4>1. /\ LimitsTyped /\ found.reserved_input \in Nat /\ found.reserved_envelope \in Nat
            /\ found.reserved_envelope <= found.reserved_envelope
        BY Intervals
      <4> QED BY <1>2, <2>2, <3>2, <4>1, StorageGrows
    <3>4. CandidateFits(phase, Middle)
      BY <1>9, <3>3 DEF CandidateFits
    <3> QED BY <1>1, <1>2, <1>9, <3>4, Intervals DEF Reserved, BoundsTyped
  <2> QED BY <1>2, <2>1, <2>2, Intervals
<1>10. ASSUME phase = "envelope" PROVE Lesser(found.reserved_envelope, ResponseLimit) <= upper'
  <2> DEFINE least == Lesser(found.reserved_envelope, ResponseLimit)
  <2>1. least \in Nat /\ least <= found.reserved_envelope /\ least <= upper
    BY <1>10, Intervals DEF Reserved, Lesser
  <2>2. CASE least < Middle
    BY <1>1, <1>2, <2>1, <2>2 DEF BoundsTyped
  <2>3. CASE Middle <= least
    <3>1. Over("input") /\ "input" \in Searches
      BY <1>10 DEF Over, Searches
    <3>2. Fits(found.input, found.reserved_envelope)
      BY <1>4, <3>1, Intervals DEF Settles, CandidateFits, BoundsTyped
    <3>3. Fits(found.input, Middle)
      <4>1. /\ LimitsTyped /\ found.input \in Nat /\ found.reserved_envelope \in Nat
            /\ found.input <= found.input /\ Middle <= found.reserved_envelope
        BY <1>2, <2>1, <2>3, Intervals
      <4> QED BY <1>2, <3>2, <4>1, StorageGrows
    <3>4. CandidateFits(phase, Middle)
      BY <1>10, <3>3 DEF CandidateFits
    <3> QED BY <1>1, <2>1, <3>4
  <2> QED BY <1>2, <2>1, <2>2, <2>3
<1>11. Reserved'
  BY <1>1, <1>9, <1>10 DEF Reserved, Searches, ResponseLimit
<1> QED BY <1>3, <1>8, <1>11

(* The limits do not change: a search asks the same as long as what it builds on
   stays. *)
LEMMA SameLimits ==
    ASSUME limits' = limits
    PROVE  /\ \A p : Lowest(p)' = Lowest(p) /\ Highest(p)' = Highest(p)
           /\ ResponseLimit' = ResponseLimit
           /\ CandidateFits("reserved_envelope", lower)' <=> Fits(found'.reserved_input, lower')
           /\ CandidateFits("input", lower)' <=> Fits(lower', found'.reserved_envelope)
           /\ CandidateFits("envelope", lower)' <=> Fits(found'.input, lower')
           /\ Settles("reserved_input", found["reserved_input"])'
                  <=> Settles("reserved_input", found'["reserved_input"])
           /\ found'.reserved_input = found.reserved_input =>
                  (Settles("reserved_envelope", found["reserved_envelope"])'
                      <=> Settles("reserved_envelope", found'["reserved_envelope"]))
           /\ found'.reserved_envelope = found.reserved_envelope =>
                  (Settles("input", found["input"])' <=> Settles("input", found'["input"]))
           /\ found'.input = found.input =>
                  (Settles("envelope", found["envelope"])' <=> Settles("envelope", found'["envelope"]))
<1> USE DEF Lowest, Highest, InputLimit, ResponseLimit, CandidateFits, Fits, Control, PerRequest,
            Output, Structure, DraftMime, Available
<1>1. \A p : Lowest(p)' = Lowest(p) /\ Highest(p)' = Highest(p)
  OBVIOUS
<1>2. ResponseLimit' = ResponseLimit
  OBVIOUS
<1>3. CandidateFits("reserved_envelope", lower)' <=> Fits(found'.reserved_input, lower')
  OBVIOUS
<1>4. CandidateFits("input", lower)' <=> Fits(lower', found'.reserved_envelope)
  OBVIOUS
<1>5. CandidateFits("envelope", lower)' <=> Fits(found'.input, lower')
  OBVIOUS
<1>6. Settles("reserved_input", found["reserved_input"])'
          <=> Settles("reserved_input", found'["reserved_input"])
  BY DEF Settles
<1>7. found'.reserved_input = found.reserved_input =>
          (Settles("reserved_envelope", found["reserved_envelope"])'
              <=> Settles("reserved_envelope", found'["reserved_envelope"]))
  BY DEF Settles
<1>8. found'.reserved_envelope = found.reserved_envelope =>
          (Settles("input", found["input"])' <=> Settles("input", found'["input"]))
  BY DEF Settles
<1>9. found'.input = found.input =>
          (Settles("envelope", found["envelope"])' <=> Settles("envelope", found'["envelope"]))
  BY DEF Settles
<1> QED BY <1>1, <1>2, <1>3, <1>4, <1>5, <1>6, <1>7, <1>8, <1>9

LEMMA FinishKeeps ==
    ASSUME BoundsAssumption, BoundsInvariant, Finish
    PROVE  BoundsInvariant'
<1> USE DEF BoundsInvariant
<1> DEFINE next == IF phase = "envelope" /\ lower < 1024 THEN "refused" ELSE Follower[phase]
<1>1. /\ phase \in Searches /\ lower >= upper /\ limits' = limits
      /\ found' = [found EXCEPT ![phase] = lower]
      /\ phase' = next /\ lower' = Lowest(next)
      /\ upper' = IF next \in Searches THEN Highest(next) ELSE 0
  BY FollowerFacts DEF Finish
<1>2. next \in Searches \cup {"done", "refused"}
  BY <1>1, FollowerFacts DEF Searches
<1>3. LimitsTyped /\ \A p \in Searches : Lowest(p) \in Nat /\ Highest(p) \in Nat
  BY Intervals
<1>4. BoundsTyped'
  <2>1. lower' \in Nat /\ upper' \in Nat
    BY <1>1, <1>3 DEF Lowest
  <2>2. found' \in [Searches -> Nat]
    BY <1>1 DEF BoundsTyped
  <2> QED BY <1>1, <1>2, <2>1, <2>2 DEF BoundsTyped
<1>5. Searching /\ \A p \in Searches : IF Over(p) THEN Settles(p, found[p]) ELSE found[p] = 0
  BY <1>1 DEF Progressed, Searches
<1>6. Settles(phase, lower)
  <2>1. lower = upper \/ upper = Highest(phase)
    BY <1>1, <1>5 DEF Searching, BoundsTyped
  <2> QED BY <1>1, <1>3, <1>5, <2>1 DEF Searching, Settles, BoundsTyped
<1>7. CASE next = "refused"
  BY <1>1, <1>4, <1>7 DEF Progressed, Reserved
<1>8. CASE phase = "reserved_input"
  <2>1. /\ phase' = "reserved_envelope" /\ lower' = 1024 /\ upper' = Highest("reserved_envelope")
        /\ found'["reserved_input"] = lower /\ found'["reserved_envelope"] = 0
        /\ found'["input"] = 0 /\ found'["envelope"] = 0 /\ found'.reserved_input = lower
    BY <1>1, <1>5, <1>8, FollowerFacts DEF Lowest, BoundsTyped, Over, Searches
  <2>2. Settles("reserved_input", found["reserved_input"])'
    BY <1>1, <1>6, <1>8, <2>1, SameLimits
  <2>3. Fits(lower, 1024)
    BY <1>6, <1>8 DEF Settles, CandidateFits
  <2>4. Searching'
    BY <1>1, <1>3, <2>1, <2>3, SameLimits DEF Searching, Lowest, Searches
  <2>5. \A p \in Searches : IF Over(p)' THEN Settles(p, found[p])' ELSE found'[p] = 0
    BY <2>1, <2>2 DEF Searches, Over
  <2> QED BY <1>4, <2>1, <2>4, <2>5 DEF Progressed, Reserved
<1>9. CASE phase = "reserved_envelope"
  <2>1. /\ phase' = "input" /\ lower' = 1024 /\ upper' = Highest("input")
        /\ found'["reserved_input"] = found["reserved_input"]
        /\ found'["reserved_envelope"] = lower
        /\ found'["input"] = 0 /\ found'["envelope"] = 0
        /\ found'.reserved_input = found.reserved_input /\ found'.reserved_envelope = lower
        /\ found.reserved_input = found["reserved_input"]
    BY <1>1, <1>5, <1>9, FollowerFacts DEF Lowest, BoundsTyped, Over, Searches
  <2>2. Settles("reserved_input", found["reserved_input"])
    BY <1>5, <1>9 DEF Searches, Over
  <2>3. Settles("reserved_input", found["reserved_input"])'
    BY <1>1, <2>1, <2>2, SameLimits
  <2>4. Settles("reserved_envelope", found["reserved_envelope"])'
    BY <1>1, <1>6, <1>9, <2>1, SameLimits
  <2>5. Fits(1024, lower)
    <3>1. Fits(found.reserved_input, lower)
      BY <1>6, <1>9 DEF Settles, CandidateFits
    <3>2. 1024 <= found.reserved_input /\ found.reserved_input \in Nat
      BY <2>1, <2>2, Intervals DEF Settles, Lowest
    <3>3. lower \in Nat /\ lower <= lower
      BY DEF BoundsTyped
    <3> QED BY <1>3, <3>1, <3>2, <3>3, StorageGrows
  <2>6. Searching'
    BY <1>1, <1>3, <2>1, <2>5, SameLimits DEF Searching, Lowest, Searches
  <2>7. \A p \in Searches : IF Over(p)' THEN Settles(p, found[p])' ELSE found'[p] = 0
    BY <2>1, <2>3, <2>4 DEF Searches, Over
  <2>8. found.reserved_input <= upper' \/ found.reserved_input <= lower'
    <3>1. Highest("reserved_input") <= InputLimit \/ Highest("reserved_input") = 1024
      BY <1>3, Intervals DEF Highest, Lesser, LimitsTyped
    <3>2. Highest("input") = InputLimit /\ Lowest("reserved_input") = 1024
      BY DEF Highest, Lowest
    <3> QED BY <1>3, <2>1, <2>2, <3>1, <3>2, Intervals DEF Settles, Searches
  <2> QED BY <1>4, <2>1, <2>6, <2>7, <2>8 DEF Progressed, Reserved
<1>10. CASE phase = "input"
  <2>1. /\ phase' = "envelope" /\ lower' = 0 /\ upper' = Highest("envelope")
        /\ found'["reserved_input"] = found["reserved_input"]
        /\ found'["reserved_envelope"] = found["reserved_envelope"]
        /\ found'["input"] = lower /\ found'["envelope"] = 0
        /\ found'.reserved_input = found.reserved_input
        /\ found'.reserved_envelope = found.reserved_envelope /\ found'.input = lower
    BY <1>1, <1>5, <1>10, FollowerFacts DEF Lowest, BoundsTyped, Over, Searches
  <2>2. /\ Settles("reserved_input", found["reserved_input"])
        /\ Settles("reserved_envelope", found["reserved_envelope"])
    BY <1>5, <1>10 DEF Searches, Over
  <2>3. Settles("reserved_input", found["reserved_input"])'
    BY <1>1, <2>1, <2>2, SameLimits
  <2>4. Settles("reserved_envelope", found["reserved_envelope"])'
    BY <1>1, <2>1, <2>2, SameLimits
  <2>5. Settles("input", found["input"])'
    BY <1>1, <1>6, <1>10, <2>1, SameLimits
  <2>6. Fits(lower, 0)
    <3>1. Fits(lower, found.reserved_envelope)
      BY <1>6, <1>10 DEF Settles, CandidateFits
    <3>2. 0 <= found.reserved_envelope /\ found.reserved_envelope \in Nat
      BY Intervals
    <3>3. lower \in Nat /\ lower <= lower
      BY DEF BoundsTyped
    <3> QED BY <1>3, <3>1, <3>2, <3>3, StorageGrows
  <2>7. Searching'
    BY <1>1, <1>3, <2>1, <2>6, SameLimits DEF Searching, Lowest, Searches
  <2>8. \A p \in Searches : IF Over(p)' THEN Settles(p, found[p])' ELSE found'[p] = 0
    BY <2>1, <2>3, <2>4, <2>5 DEF Searches, Over
  <2>9. found.reserved_input <= lower
    BY <1>1, <1>10, Intervals DEF Reserved, BoundsTyped
  <2>10. Lesser(found.reserved_envelope, ResponseLimit) <= upper'
    BY <2>1, Intervals DEF Highest, Lesser
  <2> QED BY <1>1, <1>4, <2>1, <2>7, <2>8, <2>9, <2>10, SameLimits DEF Progressed, Reserved
<1>11. CASE phase = "envelope" /\ ~(lower < 1024)
  <2>1. /\ phase' = "done"
        /\ found'["reserved_input"] = found["reserved_input"]
        /\ found'["reserved_envelope"] = found["reserved_envelope"]
        /\ found'["input"] = found["input"] /\ found'["envelope"] = lower
        /\ found'.reserved_input = found.reserved_input
        /\ found'.reserved_envelope = found.reserved_envelope
        /\ found'.input = found.input /\ found'.envelope = lower
    BY <1>1, <1>11, FollowerFacts DEF BoundsTyped, Searches
  <2>2. /\ Settles("reserved_input", found["reserved_input"])
        /\ Settles("reserved_envelope", found["reserved_envelope"])
        /\ Settles("input", found["input"])
    BY <1>5, <1>11 DEF Searches, Over
  <2>3. /\ Settles("reserved_input", found["reserved_input"])'
        /\ Settles("reserved_envelope", found["reserved_envelope"])'
        /\ Settles("input", found["input"])'
    BY <1>1, <2>1, <2>2, SameLimits
  <2>4. Settles("envelope", found["envelope"])'
    BY <1>1, <1>6, <1>11, <2>1, SameLimits
  <2>5. \A p \in Searches : IF Over(p)' THEN Settles(p, found[p])' ELSE found'[p] = 0
    BY <2>1, <2>3, <2>4 DEF Searches, Over
  <2>6. Lesser(found.reserved_envelope, ResponseLimit) <= lower /\ lower >= 1024
    <3>1. Lesser(found.reserved_envelope, ResponseLimit) \in Nat
      BY Intervals DEF Lesser
    <3> QED BY <1>1, <1>11, <3>1 DEF Reserved, BoundsTyped
  <2>7. Reserved'
    BY <1>1, <1>11, <2>1, <2>6, SameLimits DEF Reserved
  <2>8. Progressed'
    BY <2>1, <2>5 DEF Progressed, Searches
  <2> QED BY <1>4, <2>7, <2>8
<1> QED BY <1>1, <1>7, <1>8, <1>9, <1>10, <1>11 DEF Searches

LEMMA AtBoundsInit ==
    ASSUME BoundsAssumption, BoundsInit
    PROVE  BoundsInvariant
<1>1. /\ LimitsTyped /\ limits \in LimitSets /\ lower = 1024 /\ upper = Highest("reserved_input")
      /\ phase = "refused" \/ (phase = "reserved_input" /\ Fits(1024, 1024))
      /\ found = [reserved_input |-> 0, reserved_envelope |-> 0, input |-> 0, envelope |-> 0]
  BY DEF BoundsInit, BoundsAssumption, LimitsTyped
<1>2. found \in [Searches -> Nat] /\ \A p \in Searches : found[p] = 0
  BY <1>1 DEF Searches
<1>3. Highest("reserved_input") \in Nat
  BY <1>1 DEF Highest, InputLimit, Lesser, LimitsTyped, KiB, MiB
<1>4. BoundsTyped
  BY <1>1, <1>2, <1>3 DEF BoundsTyped, Searches
<1>5. phase # "refused" => Searching
  BY <1>1, <1>3 DEF Searching, Lowest, CandidateFits
<1>6. Progressed
  BY <1>1, <1>2, <1>5 DEF Progressed, Over, Searches
<1>7. Reserved
  BY <1>1 DEF Reserved
<1> QED BY <1>4, <1>6, <1>7 DEF BoundsInvariant

(* For any configured limits, the control storage and all request slots together
   stay within the configured bytes and there is a slot; each of the four
   searches finds the largest value that fits; and the later ones take back
   nothing that the earlier ones reserved. *)
THEOREM StorageStaysBounded ==
    ASSUME BoundsAssumption
    PROVE  BoundsSpec => []StorageBounded
<1>1. BoundsInit => BoundsInvariant
  BY AtBoundsInit
<1>2. BoundsInvariant /\ [BoundsNext]_boundsVars => BoundsInvariant'
  <2> SUFFICES ASSUME BoundsInvariant, [BoundsNext]_boundsVars PROVE BoundsInvariant'
    OBVIOUS
  <2>1. CASE BoundsNext
    BY <2>1, HalveKeeps, FinishKeeps DEF BoundsNext
  <2>2. CASE UNCHANGED boundsVars
    BY <2>2 DEF boundsVars, BoundsInvariant, BoundsTyped, Progressed, Reserved, Searching, Over,
       Settles, Lowest, Highest, InputLimit, ResponseLimit, CandidateFits, Fits, Control, PerRequest,
       Output, Structure, DraftMime, Available
  <2> QED BY <2>1, <2>2
<1>3. BoundsInvariant => StorageBounded
  <2> SUFFICES ASSUME BoundsInvariant PROVE StorageBounded
    OBVIOUS
  <2> USE DEF BoundsInvariant
  <2>1. WithinBudget
    <3> SUFFICES ASSUME phase = "done" PROVE WithinBudget
      BY DEF WithinBudget
    <3> DEFINE a == Available - Control(found.input, found.envelope)
               r == PerRequest(found.input, found.envelope)
               n == limits.active_requests + limits.queued_requests
    <3>1. /\ LimitsTyped /\ found.input \in Nat /\ found.envelope \in Nat
          /\ found.input <= found.input /\ found.envelope <= found.envelope
      BY Intervals
    <3>2. Control(found.input, found.envelope) \in Nat /\ r \in Nat \ {0}
      BY <3>1, StorageGrows
    <3>3. Fits(found.input, found.envelope)
      <4>1. Settles("envelope", found["envelope"]) /\ found["envelope"] = found.envelope
        BY DEF Progressed, Over, Searches, BoundsTyped
      <4> QED BY <4>1 DEF Settles, CandidateFits
    <3>4. Available = limits.buffered_bytes - 64 * KiB /\ Available \in Int
          /\ limits.buffered_bytes \in Nat /\ 64 * KiB \in Nat /\ n \in Nat \ {0}
      BY <3>1 DEF Available, KiB, LimitsTyped
    <3>5. a \in Int /\ r <= a
      BY <3>2, <3>3, <3>4 DEF Fits
    <3>6. RequestSlots = Lesser(a \div r, n)
      BY DEF RequestSlots
    <3> HIDE DEF r, n
    <3>7. RequestSlots >= 1 /\ RequestSlots * r <= a
      BY <3>2, <3>4, <3>5, <3>6, SlotsFit
    <3>8. RequestSlots * r \in Int
      <4>1. a \div r \in Int
        BY <3>2, <3>5
      <4>2. RequestSlots \in Int
        BY <3>4, <3>6, <4>1 DEF Lesser
      <4> QED BY <3>2, <4>2
    <3>9. 64 * KiB + Control(found.input, found.envelope) + RequestSlots * r <= limits.buffered_bytes
      BY <3>2, <3>4, <3>7, <3>8
    <3> QED BY <3>7, <3>9 DEF WithinBudget, r
  <2>2. Largest
    <3> SUFFICES ASSUME NEW p \in Searches, phase \notin {"refused", p}, found[p] # 0
                 PROVE  Settles(p, found[p])
      BY FollowerFacts DEF Largest, Settles
    <3> QED BY DEF Progressed
  <2>3. ReservedIsKept
    BY Intervals DEF Reserved, ReservedIsKept
  <2> QED BY <2>1, <2>2, <2>3 DEF StorageBounded
<1> QED BY <1>1, <1>2, <1>3, PTL DEF BoundsSpec

-----------------------------------------------------------------------------
(* Nothing is under way in either direction. *)
Clean ==
    /\ requests = <<>> /\ answers = <<>> /\ current = Nothing
    /\ session \notin {"serving", "writing"}

(* Exactly the exchange of call c is: its request, its execution or its answer. *)
Carries(c) ==
    \/ requests = <<c>> /\ answers = <<>> /\ current = Nothing
           /\ session = "reading"
    \/ requests = <<>> /\ answers = <<>> /\ current = c
           /\ session \in {"serving", "writing"}
    \/ requests = <<>> /\ answers = <<c>> /\ current = Nothing
           /\ session \in {"reading", "ended"}

(* The stream in use is clean or carries the exchange of its owner. *)
OneExchange ==
    /\ open => Clean \/ (owner # Nothing /\ pc[owner] = "reading" /\ Carries(owner))
    /\ \A c \in Calls : pc[c] \in {"writing", "reading"} => owner = c
    /\ session = "hello" => ~retained /\ \A c \in Calls : pc[c] = "outside"
    /\ session \in {"serving", "writing"} => current \in Calls

(* What a call was told once its request may have reached the service. *)
ToldOnce ==
    \A c \in Calls :
        /\ told[c] # Nothing => pc[c] = "done"
        /\ (c \in executed \/ \E i \in DOMAIN requests : requests[i] = c) =>
               /\ pc[c] \in {"reading", "done"}
               /\ (Kind[c] = "save" /\ told[c] # Nothing /\ "code" \in DOMAIN told[c])
                      => told[c].code \in {"outcome_unknown", "dropped"}

SessionInvariant == AnswersMatch /\ OneExchange /\ ToldOnce

-----------------------------------------------------------------------------
(* The two shapes of what a call returns are apart. *)
LEMMA Shapes ==
    ASSUME NEW x
    PROVE  /\ DOMAIN [of |-> x] = {"of"} /\ [of |-> x].of = x
           /\ DOMAIN [code |-> x] = {"code"} /\ [code |-> x].code = x
           /\ "of" # "code"
OBVIOUS

(* A stream that carries one exchange carries nothing else. *)
LEMMA Single ==
    ASSUME NEW c \in Calls
    PROVE  /\ <<c>> \in Seq(Calls) /\ <<c>> # <<>> /\ Head(<<c>>) = c /\ Tail(<<c>>) = <<>>
           /\ Append(<<>>, c) = <<c>>
           /\ \A i \in DOMAIN <<c>> : <<c>>[i] = c
           /\ DOMAIN <<>> = {}
OBVIOUS

LEMMA Empty == <<>> \in Seq(Calls) /\ DOMAIN <<>> = {}
OBVIOUS

LEMMA SessionAtInit == SessionInit => SessionInvariant
<1>. SUFFICES ASSUME SessionInit PROVE SessionInvariant
  OBVIOUS
<1>1. SessionTypeOK
  BY Empty DEF SessionInit, SessionTypeOK
<1>2. OneStream /\ OwnAnswer /\ UncertainIsTold
  BY DEF SessionInit, OneStream, OwnAnswer, UncertainIsTold
<1>3. OneExchange
  BY DEF SessionInit, OneExchange, Clean
<1>4. ToldOnce
  BY Empty DEF SessionInit, ToldOnce
<1>. QED BY <1>1, <1>2, <1>3, <1>4 DEF SessionInvariant, AnswersMatch

(* What a call does to itself when it ends; the others are not told anything. *)
LEMMA DoneTells ==
    ASSUME SessionTypeOK, NEW c \in Calls, NEW said, Done(c, said)
    PROVE  /\ pc'[c] = "done" /\ told'[c] = said
           /\ \A d \in Calls \ {c} : pc'[d] = pc[d] /\ told'[d] = told[d]
           /\ pc' \in [Calls -> {"outside", "waiting", "writing", "reading", "done"}]
BY DEF SessionTypeOK, Done

(* The client's side of the stream. *)
LEMMA SessionCallStep ==
    ASSUME IsolationSessionAssumption, SessionInvariant, NEW c \in Calls, Step(c)
    PROVE  SessionInvariant'
<1>. USE DEF SessionInvariant, AnswersMatch
<1>1. CASE Call(c)
  <2>1. /\ pc'[c] = "waiting" /\ pc[c] = "outside" /\ \A d \in Calls \ {c} : pc'[d] = pc[d]
        /\ UNCHANGED <<owner, retained, open, requests, answers, session, current, executed, told>>
        /\ session # "hello"
    BY <1>1 DEF Call, SessionTypeOK
  <2>2. SessionTypeOK'
    BY <1>1, <2>1 DEF Call, SessionTypeOK
  <2>3. OneStream' /\ OwnAnswer' /\ UncertainIsTold'
    BY <2>1 DEF OneStream, OwnAnswer, UncertainIsTold, SessionTypeOK
  <2>4. OneExchange' /\ ToldOnce'
    BY <2>1 DEF OneExchange, ToldOnce, Clean, Carries, SessionTypeOK
  <2>. QED BY <2>2, <2>3, <2>4
<1>2. ASSUME NEW code \in {"timeout", "broker_unavailable", "dropped"},
             pc[c] = "waiting", Done(c, [code |-> code]),
             UNCHANGED <<owner, retained, open, requests, answers, session, current, executed>>
      PROVE  SessionInvariant'
  <2>1. /\ pc'[c] = "done" /\ told'[c] = [code |-> code]
        /\ \A d \in Calls \ {c} : pc'[d] = pc[d] /\ told'[d] = told[d]
        /\ pc' \in [Calls -> {"outside", "waiting", "writing", "reading", "done"}]
    BY <1>2, DoneTells
  <2>2. SessionTypeOK'
    BY <1>2, <2>1 DEF SessionTypeOK, Done, Told
  <2>3. OneStream'
    BY <1>2, <2>1 DEF OneStream, SessionTypeOK
  <2>4. c \notin executed /\ \A i \in DOMAIN requests : requests[i] # c
    BY <1>2 DEF ToldOnce
  <2>5. OwnAnswer' /\ UncertainIsTold'
    BY <1>2, <2>1, <2>4, Shapes DEF OwnAnswer, UncertainIsTold, SessionTypeOK
  <2>6. OneExchange'
    BY <1>2, <2>1 DEF OneExchange, OneStream, Clean, Carries, SessionTypeOK
  <2>7. ToldOnce'
    BY <1>2, <2>1, <2>4 DEF ToldOnce
  <2>. QED BY <2>2, <2>3, <2>5, <2>6, <2>7
<1>3. CASE TakeStream(c)
  <2>1. CASE ~retained
    BY <1>2, <1>3, <2>1 DEF TakeStream
  <2>2. CASE retained
    <3>1. /\ pc[c] = "waiting" /\ owner = Nothing /\ open /\ owner' = c /\ retained' = FALSE
          /\ pc'[c] = "writing" /\ \A d \in Calls \ {c} : pc'[d] = pc[d]
          /\ UNCHANGED <<told, open, requests, answers, session, current, executed>>
      BY <1>3, <2>2 DEF TakeStream, OneStream, SessionTypeOK
    <3>2. SessionTypeOK'
      BY <1>3, <2>2, <3>1 DEF TakeStream, SessionTypeOK
    <3>3. OneStream' /\ OwnAnswer' /\ UncertainIsTold'
      BY <3>1 DEF OneStream, OwnAnswer, UncertainIsTold
    <3>4. Clean /\ \A d \in Calls : pc[d] \notin {"writing", "reading"}
      BY <3>1, IsolationSessionAssumption DEF OneExchange, IsolationSessionAssumption
    <3>5. OneExchange'
      BY <3>1, <3>4 DEF OneExchange, Clean
    <3>6. ToldOnce'
      BY <3>1 DEF ToldOnce
    <3>. QED BY <3>2, <3>3, <3>5, <3>6
  <2>. QED BY <2>1, <2>2
<1>4. CASE WaitTimeout(c)
  BY <1>2, <1>4 DEF WaitTimeout
<1>5. CASE WriteRequest(c)
  <2>1. /\ pc[c] = "writing" /\ owner = c /\ open /\ session # "ended"
        /\ pc'[c] = "reading" /\ \A d \in Calls \ {c} : pc'[d] = pc[d]
        /\ UNCHANGED <<owner, retained, open, answers, session, current, executed, told>>
    BY <1>5 DEF WriteRequest, OneExchange, SessionTypeOK
  <2>2. Clean /\ session = "reading" /\ told[c] = Nothing
    BY <2>1 DEF OneExchange, Clean, ToldOnce, SessionTypeOK
  <2>3. requests' = <<c>>
    BY <1>5, <2>2, Single DEF WriteRequest, Clean
  <2>4. SessionTypeOK'
    BY <1>5, <2>1, <2>3, Single DEF WriteRequest, SessionTypeOK
  <2>5. OneStream' /\ OwnAnswer' /\ UncertainIsTold'
    BY <2>1, IsolationSessionAssumption
    DEF OneStream, OwnAnswer, UncertainIsTold, IsolationSessionAssumption
  <2>6. OneExchange'
    BY <2>1, <2>2, <2>3, IsolationSessionAssumption
    DEF OneExchange, Clean, Carries, IsolationSessionAssumption
  <2>7. ToldOnce'
    BY <2>1, <2>2, <2>3, Single DEF ToldOnce
  <2>. QED BY <2>4, <2>5, <2>6, <2>7
<1>6. ASSUME NEW said \in [code : {"outcome_unknown", "interrupted", "dropped"}],
             Kind[c] = "save" => said.code \in {"outcome_unknown", "dropped"},
             pc[c] \in {"writing", "reading"}, Done(c, said), Dropped,
             UNCHANGED <<requests, answers, session, current, executed>>
      PROVE  SessionInvariant'
  <2>1. /\ pc'[c] = "done" /\ told'[c] = said
        /\ \A d \in Calls \ {c} : pc'[d] = pc[d] /\ told'[d] = told[d]
        /\ pc' \in [Calls -> {"outside", "waiting", "writing", "reading", "done"}]
    BY <1>6, DoneTells
  <2>2. owner = c /\ ~retained /\ owner' = Nothing /\ open' = FALSE /\ retained' = FALSE
    BY <1>6, IsolationSessionAssumption
    DEF OneExchange, OneStream, Dropped, SessionTypeOK, IsolationSessionAssumption
  <2>3. SessionTypeOK'
    <3>1. said \in Told
      BY <1>6 DEF Told
    <3>2. told' \in [Calls -> Told \cup {Nothing}]
      BY <1>6, <3>1 DEF SessionTypeOK, Done
    <3>. QED BY <1>6, <2>1, <2>2, <3>2 DEF SessionTypeOK
  <2>4. DOMAIN said = {"code"}
    BY <1>6, Shapes
  <2>5. OneStream' /\ OwnAnswer' /\ UncertainIsTold'
    BY <1>6, <2>1, <2>2, <2>4, Shapes DEF OneStream, OwnAnswer, UncertainIsTold, SessionTypeOK
  <2>6. OneExchange'
    BY <1>6, <2>1, <2>2 DEF OneExchange
  <2>7. ToldOnce'
    BY <1>6, <2>1 DEF ToldOnce
  <2>. QED BY <2>3, <2>5, <2>6, <2>7
<1>7. CASE Interrupted(c)
  <2>1. /\ InterruptedAnswer(c) \in [code : {"outcome_unknown", "interrupted", "dropped"}]
        /\ Kind[c] = "save" => InterruptedAnswer(c).code \in {"outcome_unknown", "dropped"}
    BY DEF InterruptedAnswer
  <2>. QED BY <1>6, <1>7, <2>1 DEF Interrupted
<1>8. CASE DropCall(c)
  <2>1. CASE pc[c] = "waiting"
    BY <1>2, <1>8, <2>1 DEF DropCall
  <2>2. CASE pc[c] \in {"writing", "reading"}
    <3>1. /\ [code |-> "dropped"] \in [code : {"outcome_unknown", "interrupted", "dropped"}]
          /\ [code |-> "dropped"].code = "dropped"
      OBVIOUS
    <3>. QED BY <1>6, <1>8, <2>2, <3>1 DEF DropCall
  <2>. QED BY <1>8, <2>1, <2>2 DEF DropCall
<1>9. CASE ReadAnswer(c)
  <2>1. /\ pc[c] = "reading" /\ owner = c /\ open /\ answers # <<>>
        /\ owner' = Nothing /\ retained' = TRUE
        /\ UNCHANGED <<open, requests, session, current, executed>>
    BY <1>9 DEF ReadAnswer, OneExchange
  <2>2. /\ requests = <<>> /\ answers = <<c>> /\ current = Nothing
        /\ session \in {"reading", "ended"}
    BY <2>1 DEF OneExchange, Clean, Carries
  <2>3. answers' = <<>> /\ Done(c, [of |-> c])
    BY <1>9, <2>2, Single DEF ReadAnswer
  <2>4. /\ pc'[c] = "done" /\ told'[c] = [of |-> c]
        /\ \A d \in Calls \ {c} : pc'[d] = pc[d] /\ told'[d] = told[d]
        /\ pc' \in [Calls -> {"outside", "waiting", "writing", "reading", "done"}]
    BY <2>3, DoneTells
  <2>5. SessionTypeOK'
    BY <2>1, <2>2, <2>3, <2>4 DEF SessionTypeOK, Done, Told
  <2>6. OneStream' /\ OwnAnswer' /\ UncertainIsTold'
    BY <2>1, <2>4, Shapes DEF OneStream, OwnAnswer, UncertainIsTold, SessionTypeOK
  <2>7. OneExchange'
    BY <2>1, <2>2, <2>3, <2>4 DEF OneExchange, Clean
  <2>8. ToldOnce'
    BY <2>1, <2>2, <2>4, Shapes DEF ToldOnce
  <2>. QED BY <2>5, <2>6, <2>7, <2>8
<1>. QED
  BY <1>1, <1>3, <1>4, <1>5, <1>7, <1>8, <1>9 DEF Step

(* The server's side, and the end of the session. *)
LEMMA SessionServerStep ==
    ASSUME IsolationSessionAssumption, SessionInvariant, Hello \/ Serve \/ EndSession
    PROVE  SessionInvariant'
<1>. USE DEF SessionInvariant, AnswersMatch
<1>1. CASE Hello
  <2>1. OneExchange' /\ OneStream'
    BY <1>1, IsolationSessionAssumption
    DEF Hello, OneExchange, OneStream, Clean, Carries, SessionTypeOK, IsolationSessionAssumption
  <2>2. SessionTypeOK' /\ OwnAnswer' /\ UncertainIsTold' /\ ToldOnce'
    BY <1>1 DEF Hello, SessionTypeOK, OwnAnswer, UncertainIsTold, ToldOnce
  <2>. QED BY <2>1, <2>2
<1>2. CASE ReadRequest
  <2>1. /\ requests \in Seq(Calls) /\ requests # <<>> /\ session = "reading"
        /\ current' = Head(requests) /\ requests' = Tail(requests) /\ session' = "serving"
        /\ executed' = executed \cup {Head(requests)}
        /\ UNCHANGED <<pc, owner, retained, open, answers, told>>
    BY <1>2 DEF ReadRequest, SessionTypeOK
  <2>2. /\ Head(requests) \in Calls /\ Tail(requests) \in Seq(Calls)
        /\ \E i \in DOMAIN requests : requests[i] = Head(requests)
        /\ \A i \in DOMAIN Tail(requests) : i + 1 \in DOMAIN requests
                                           /\ Tail(requests)[i] = requests[i + 1]
    BY <2>1
  <2>3. SessionTypeOK'
    BY <2>1, <2>2 DEF SessionTypeOK
  <2>4. ToldOnce'
    BY <2>1, <2>2 DEF ToldOnce
  <2>5. OneStream' /\ OwnAnswer' /\ UncertainIsTold'
    BY <2>1, <2>2, <2>4 DEF OneStream, OwnAnswer, UncertainIsTold, ToldOnce
  <2>6. OneExchange'
    <3>1. CASE open
      <4>1. owner # Nothing /\ owner \in Calls /\ pc[owner] = "reading" /\ requests = <<owner>>
            /\ answers = <<>>
        BY <2>1, <3>1 DEF OneExchange, Clean, Carries, SessionTypeOK
      <4>2. current' = owner /\ requests' = <<>>
        BY <2>1, <4>1, Single
      <4>. QED BY <2>1, <2>2, <4>1, <4>2 DEF OneExchange, Carries
    <3>2. CASE ~open
      BY <2>1, <2>2, <3>2 DEF OneExchange
    <3>. QED BY <3>1, <3>2
  <2>. QED BY <2>3, <2>4, <2>5, <2>6
<1>3. CASE Served
  <2>1. OneExchange'
    BY <1>3 DEF Served, OneExchange, Clean, Carries
  <2>2. SessionTypeOK' /\ OneStream' /\ OwnAnswer' /\ UncertainIsTold' /\ ToldOnce'
    BY <1>3 DEF Served, SessionTypeOK, OneStream, OwnAnswer, UncertainIsTold, ToldOnce
  <2>. QED BY <2>1, <2>2
<1>4. CASE WriteResult
  <2>1. /\ session = "writing" /\ open /\ owner # Nothing /\ owner \in Calls
        /\ pc[owner] = "reading" /\ requests = <<>> /\ answers = <<>> /\ current = owner
        /\ current' = Nothing /\ session' = "reading"
        /\ UNCHANGED <<pc, owner, retained, open, requests, executed, told>>
    BY <1>4 DEF WriteResult, OneExchange, Clean, Carries, SessionTypeOK
  <2>2. answers' = <<owner>>
    BY <1>4, <2>1, Single DEF WriteResult
  <2>3. SessionTypeOK'
    BY <2>1, <2>2, Single DEF SessionTypeOK
  <2>4. OneExchange'
    BY <2>1, <2>2 DEF OneExchange, Carries
  <2>5. OneStream' /\ OwnAnswer' /\ UncertainIsTold' /\ ToldOnce'
    BY <2>1 DEF OneStream, OwnAnswer, UncertainIsTold, ToldOnce
  <2>. QED BY <2>3, <2>4, <2>5
<1>5. CASE EndSession
  <2>1. /\ session' = "ended" /\ current' = Nothing /\ requests' = <<>>
        /\ UNCHANGED <<pc, owner, retained, open, answers, executed, told>>
    BY <1>5 DEF EndSession
  <2>2. SessionTypeOK'
    BY <2>1 DEF SessionTypeOK
  <2>3. OneExchange'
    BY <2>1 DEF OneExchange, Clean, Carries
  <2>4. OneStream' /\ OwnAnswer' /\ UncertainIsTold'
    BY <2>1 DEF OneStream, OwnAnswer, UncertainIsTold
  <2>5. ToldOnce'
    BY <2>1 DEF ToldOnce
  <2>. QED BY <2>2, <2>3, <2>4, <2>5
<1>. QED BY <1>1, <1>2, <1>3, <1>4, <1>5 DEF Serve

LEMMA SessionStep ==
    ASSUME IsolationSessionAssumption
    PROVE  SessionInvariant /\ [SessionNext]_sessionVars => SessionInvariant'
<1>. SUFFICES ASSUME SessionInvariant, [SessionNext]_sessionVars PROVE SessionInvariant'
  OBVIOUS
<1>1. CASE UNCHANGED sessionVars
  BY <1>1
  DEF sessionVars, SessionInvariant, AnswersMatch, SessionTypeOK, OneStream, OwnAnswer, UncertainIsTold,
      OneExchange, ToldOnce, Clean, Carries
<1>. QED BY <1>1, SessionCallStep, SessionServerStep DEF SessionNext

(* However many calls share the stream, and whichever of them are dropped or run
   into their deadlines: the answer a call returns is its own, a draft that may
   have been begun is reported as such, and the stream is in one place. *)
THEOREM AnswersReachTheirCalls ==
    ASSUME IsolationSessionAssumption
    PROVE  SessionSpec => []AnswersMatch
<1>1. SessionInit => SessionInvariant
  BY SessionAtInit
<1>2. SessionInvariant /\ [SessionNext]_sessionVars => SessionInvariant'
  BY SessionStep
<1>3. SessionInvariant => AnswersMatch
  BY DEF SessionInvariant
<1>. QED BY <1>1, <1>2, <1>3, PTL DEF SessionSpec

-----------------------------------------------------------------------------
(* The sessions of process p under grant g. *)
Under(p, g) == {c \in Of(p) : sessions[c].grant = g}

Accepting == {"serving", "stopping"}
Holding == {"locked", "cleared", "bound", "unlinked"} \cup Accepting

(* singleton_lock is held from its success to the end of the process. *)
HoldersHold == \A p \in Servers : stage[p] \in Holding => lock = p

(* A session is a task of a process that serves. *)
SessionsServed == \A c \in Connections : sessions[c] # Nobody => stage[sessions[c].server] \in Accepting

(* What PermitsAccounted says of one process, and that its sessions are finitely
   many. *)
Accounted(p) ==
    /\ IsFiniteSet(Of(p))
    /\ permits[p] + Cardinality(Of(p)) = Cap
    /\ \A g \in Grants : grantFree[p][g] + Cardinality(Under(p, g)) = GrantCap[g]

ServerInvariant ==
    /\ ServerTypeOK
    /\ HoldersHold /\ Reachable /\ StaleIsReplaced /\ SessionsServed
    /\ \A p \in Servers : stage[p] \in Accepting => Accounted(p)

-----------------------------------------------------------------------------
(* Cardinality of a set that gains or loses one member: what Accept and
   SessionEnds do to the sessions of a process. *)
LEMMA Counting ==
    ASSUME NEW A, NEW x, IsFiniteSet(A)
    PROVE  /\ Cardinality(A) \in Nat
           /\ IsFiniteSet(A \cup {x}) /\ IsFiniteSet(A \ {x})
           /\ x \notin A => Cardinality(A \cup {x}) = Cardinality(A) + 1
           /\ x \in A => Cardinality(A) = Cardinality(A \ {x}) + 1
<1>1. Cardinality(A) \in Nat
  BY FS_CardinalityType
<1>2. /\ IsFiniteSet(A \cup {x})
      /\ Cardinality(A \cup {x}) = IF x \in A THEN Cardinality(A) ELSE Cardinality(A) + 1
  BY FS_AddElement
<1>3. /\ IsFiniteSet(A \ {x})
      /\ Cardinality(A \ {x}) = IF x \in A THEN Cardinality(A) - 1 ELSE Cardinality(A)
  BY FS_RemoveElement
<1> QED
  BY <1>1, <1>2, <1>3

(* Under a grant are some of the sessions of the process. *)
LEMMA UnderFinite ==
    ASSUME NEW p, NEW g, IsFiniteSet(Of(p))
    PROVE  IsFiniteSet(Under(p, g))
<1>1. Under(p, g) \subseteq Of(p)
  BY DEF Under
<1> QED
  BY <1>1, FS_Subset

(* A process none of whose sessions and permits change stays accounted for. *)
LEMMA AccountFrame ==
    ASSUME NEW p \in Servers, Accounted(p),
           Of(p)' = Of(p), permits'[p] = permits[p], grantFree'[p] = grantFree[p],
           \A c \in Of(p) : sessions'[c] = sessions[c]
    PROVE  Accounted(p)'
<1>1. \A g \in Grants : Under(p, g)' = Under(p, g)
  BY DEF Under
<1> QED
  BY <1>1 DEF Accounted

LEMMA ServerAtInit ==
    ASSUME IsolationServerAssumption, ServerInit
    PROVE  ServerInvariant
<1>1. ServerTypeOK
  BY DEF IsolationServerAssumption, ServerInit, ServerTypeOK, Stages, Session
<1>2. SessionsServed /\ HoldersHold /\ Reachable /\ StaleIsReplaced
  BY DEF ServerInit, SessionsServed, HoldersHold, Holding, Accepting, Reachable, StaleIsReplaced
<1>3. \A p \in Servers : stage[p] \notin Accepting
  BY DEF ServerInit, Accepting
<1> QED
  BY <1>1, <1>2, <1>3 DEF ServerInvariant

(* The steps of a process that touch neither permits nor sessions. *)
LEMMA QuietSteps ==
    ASSUME IsolationServerAssumption, ServerInvariant, NEW p \in Servers,
           \/ Load(p) \/ Open(p) \/ SingletonLock(p) \/ RemoveStaleSocket(p) \/ Bind(p)
           \/ Signal(p) \/ Unlink(p) \/ Release(p)
    PROVE  ServerInvariant'
<1>1. ServerTypeOK'
  <2>1. CASE Load(p)
    BY <2>1 DEF ServerInvariant, ServerTypeOK, Stages, Quiet, Load, At
  <2>2. CASE Open(p)
    BY <2>2 DEF ServerInvariant, ServerTypeOK, Stages, Quiet, Open, At
  <2>3. CASE SingletonLock(p)
    BY <2>3 DEF ServerInvariant, ServerTypeOK, Stages, Quiet, SingletonLock, At
  <2>4. CASE RemoveStaleSocket(p)
    BY <2>4 DEF ServerInvariant, ServerTypeOK, Stages, Quiet, RemoveStaleSocket, At
  <2>5. CASE Bind(p)
    BY <2>5 DEF ServerInvariant, ServerTypeOK, Stages, Quiet, Bind, At
  <2>6. CASE Signal(p)
    BY <2>6 DEF ServerInvariant, ServerTypeOK, Stages, Quiet, Signal, At
  <2>7. CASE Unlink(p)
    BY <2>7 DEF ServerInvariant, ServerTypeOK, Stages, Quiet, Unlink, At
  <2>8. CASE Release(p)
    BY <2>8 DEF ServerInvariant, ServerTypeOK, Stages, Quiet, Release, At
  <2> QED
    BY <2>1, <2>2, <2>3, <2>4, <2>5, <2>6, <2>7, <2>8
<1>2. HoldersHold'
  BY DEF IsolationServerAssumption, ServerInvariant, ServerTypeOK, Stages, HoldersHold, Holding,
     Accepting, Load, Open, SingletonLock, RemoveStaleSocket, Bind, Signal, Unlink, Release, At
<1>3. Reachable' /\ StaleIsReplaced'
  <2>1. CASE Load(p)
    BY <2>1 DEF IsolationServerAssumption, ServerInvariant, ServerTypeOK, HoldersHold,
       Holding, Accepting, Reachable, StaleIsReplaced, Load, At
  <2>2. CASE Open(p)
    BY <2>2 DEF IsolationServerAssumption, ServerInvariant, ServerTypeOK, HoldersHold,
       Holding, Accepting, Reachable, StaleIsReplaced, Open, At
  <2>3. CASE SingletonLock(p)
    BY <2>3 DEF IsolationServerAssumption, ServerInvariant, ServerTypeOK, HoldersHold,
       Holding, Accepting, Reachable, StaleIsReplaced, SingletonLock, At
  <2>4. CASE RemoveStaleSocket(p)
    BY <2>4 DEF IsolationServerAssumption, ServerInvariant, ServerTypeOK, HoldersHold,
       Holding, Accepting, Reachable, StaleIsReplaced, RemoveStaleSocket, At
  <2>5. CASE Bind(p)
    <3>1. socket = Nobody /\ lock = p
      BY <2>5 DEF ServerInvariant, HoldersHold, Holding, StaleIsReplaced, Bind
    <3>2. socket' = p /\ stage' = [stage EXCEPT ![p] = "bound"]
      BY <2>5, <3>1 DEF Bind, At
    <3>3. \A q \in Servers \ {p} : stage'[q] = stage[q] /\ stage[q] \notin Holding
      BY <3>1, <3>2 DEF ServerInvariant, ServerTypeOK, HoldersHold
    <3> QED
      BY <3>2, <3>3 DEF ServerInvariant, ServerTypeOK, Holding, Accepting, Reachable, StaleIsReplaced
  <2>6. CASE Signal(p)
    BY <2>6 DEF IsolationServerAssumption, ServerInvariant, ServerTypeOK, HoldersHold,
       Holding, Accepting, Reachable, StaleIsReplaced, Signal, At
  <2>7. CASE Unlink(p)
    BY <2>7 DEF IsolationServerAssumption, ServerInvariant, ServerTypeOK, HoldersHold,
       Holding, Accepting, Reachable, StaleIsReplaced, Unlink, At
  <2>8. CASE Release(p)
    BY <2>8 DEF IsolationServerAssumption, ServerInvariant, ServerTypeOK, HoldersHold,
       Holding, Accepting, Reachable, StaleIsReplaced, Release, At
  <2> QED
    BY <2>1, <2>2, <2>3, <2>4, <2>5, <2>6, <2>7, <2>8
<1>4. SessionsServed'
  BY DEF IsolationServerAssumption, ServerInvariant, ServerTypeOK, Session, SessionsServed, Accepting, Of,
     Load, Open, SingletonLock, RemoveStaleSocket, Bind, Signal, Unlink, Release, At, Quiet
<1>5. ASSUME NEW q \in Servers, stage'[q] \in Accepting
      PROVE  Accounted(q)'
  <2>1. stage[q] \in Accepting
    BY <1>5 DEF ServerInvariant, ServerTypeOK, Accepting, Load, Open, SingletonLock,
       RemoveStaleSocket, Bind, Signal, Unlink, Release, At
  <2>2. Of(q)' = Of(q) /\ permits' = permits /\ grantFree' = grantFree /\ sessions' = sessions
    BY DEF Of, Load, Open, SingletonLock, RemoveStaleSocket, Bind, Signal, Unlink, Release, Quiet
  <2> QED
    BY <2>1, <2>2, AccountFrame DEF ServerInvariant
<1> QED
  BY <1>1, <1>2, <1>3, <1>4, <1>5 DEF ServerInvariant

(* Semaphores are made for a process that has no session yet. *)
LEMMA StartServingStep ==
    ASSUME IsolationServerAssumption, ServerInvariant, NEW p \in Servers, StartServing(p)
    PROVE  ServerInvariant'
<1>1. ServerTypeOK'
  BY DEF IsolationServerAssumption, ServerInvariant, ServerTypeOK, Stages, StartServing, At
<1>2. HoldersHold' /\ Reachable' /\ StaleIsReplaced'
  BY DEF ServerInvariant, ServerTypeOK, HoldersHold, Holding, Accepting, Reachable, StaleIsReplaced,
     StartServing, At
<1>3. SessionsServed'
  BY DEF ServerInvariant, ServerTypeOK, Session, SessionsServed, Accepting, StartServing, At
<1>4. Accounted(p)'
  <2>1. Of(p) = {}
    BY DEF ServerInvariant, SessionsServed, Accepting, StartServing, Of
  <2>2. Of(p)' = {}
    BY <2>1 DEF Of, StartServing
  <2>3. \A g \in Grants : Under(p, g)' = {}
    BY <2>2 DEF Under
  <2>4. permits'[p] = Cap /\ grantFree'[p] = GrantCap
    BY DEF ServerInvariant, ServerTypeOK, StartServing
  <2>5. IsFiniteSet({}) /\ Cardinality({}) = 0
    BY FS_EmptySet
  <2>6. Cap + 0 = Cap /\ \A g \in Grants : GrantCap[g] + 0 = GrantCap[g]
    BY DEF IsolationServerAssumption
  <2>7. IsFiniteSet(Of(p))' /\ permits'[p] + Cardinality(Of(p))' = Cap
    BY <2>2, <2>4, <2>5, <2>6
  <2>8. \A g \in Grants : grantFree'[p][g] + Cardinality(Under(p, g))' = GrantCap[g]
    BY <2>3, <2>4, <2>5, <2>6
  <2> QED
    BY <2>7, <2>8 DEF Accounted
<1>5. ASSUME NEW q \in Servers, q # p, stage'[q] \in Accepting
      PROVE  Accounted(q)'
  <2>1. /\ stage[q] \in Accepting /\ Of(q)' = Of(q) /\ sessions' = sessions
        /\ permits'[q] = permits[q] /\ grantFree'[q] = grantFree[q]
    BY <1>5 DEF ServerInvariant, ServerTypeOK, StartServing, At, Of
  <2> QED
    BY <2>1, AccountFrame DEF ServerInvariant
<1> QED
  BY <1>1, <1>2, <1>3, <1>4, <1>5 DEF ServerInvariant

(* A session begins: one permit of the process and one of its grant are taken. *)
LEMMA AcceptStep ==
    ASSUME IsolationServerAssumption, ServerInvariant, NEW p \in Servers, NEW c \in Connections,
           Accept(p, c)
    PROVE  ServerInvariant'
<1>1. PICK g \in Grants : Accepted(p, c, g)
  BY DEF Accept
<1>s. sessions' = [sessions EXCEPT ![c] = [server |-> p, grant |-> g]]
  BY <1>1 DEF Accepted
<1>n. [server |-> p, grant |-> g] # Nobody /\ [server |-> p, grant |-> g] \in Session
  BY DEF IsolationServerAssumption, Session
<1>f. /\ permits' = [permits EXCEPT ![p] = permits[p] - 1] /\ permits[p] > 0 /\ permits[p] \in 0..Cap
      /\ grantFree' = [grantFree EXCEPT ![p][g] = grantFree[p][g] - 1]
      /\ grantFree[p][g] > 0 /\ grantFree[p][g] \in 0..Cap
  <2>1. permits[p] \in 0..Cap /\ grantFree[p][g] \in 0..Cap
    BY DEF ServerInvariant, ServerTypeOK
  <2> QED
    BY <2>1, <1>1 DEF Accepted, Accept
<1>2. ServerTypeOK'
  <2>1. permits' \in [Servers -> 0..Cap] /\ sessions' \in [Connections -> Session \cup {Nobody}]
    BY <1>s, <1>n, <1>f DEF ServerInvariant, ServerTypeOK, IsolationServerAssumption
  <2>2. /\ grantFree' \in [Servers -> [Grants -> 0..Cap]]
        /\ \A q \in Servers, h \in Grants : grantFree'[q][h] <= GrantCap[h]
    BY <1>f DEF ServerInvariant, ServerTypeOK, IsolationServerAssumption
  <2> QED
    BY <2>1, <2>2 DEF ServerInvariant, ServerTypeOK, Accept
<1>3. HoldersHold' /\ Reachable' /\ StaleIsReplaced'
  BY DEF ServerInvariant, HoldersHold, Reachable, StaleIsReplaced, Accept
<1>4. SessionsServed'
  BY <1>s DEF ServerInvariant, ServerTypeOK, SessionsServed, Accepting, Accept
<1>5. Accounted(p)'
  <2>1. Accounted(p) /\ c \notin Of(p) /\ IsFiniteSet(Of(p))
    BY DEF ServerInvariant, Accept, Accepting, Of, Accounted
  <2>2. Of(p)' = Of(p) \cup {c}
    BY <1>s, <1>n DEF ServerInvariant, ServerTypeOK, Of
  <2>3. IsFiniteSet(Of(p) \cup {c}) /\ Cardinality(Of(p) \cup {c}) = Cardinality(Of(p)) + 1
    BY <2>1, Counting
  <2>4. permits'[p] + Cardinality(Of(p))' = Cap
    <3>1. permits'[p] = permits[p] - 1 /\ Cardinality(Of(p)) \in Nat
      BY <1>f, <2>1, FS_CardinalityType DEF ServerInvariant, ServerTypeOK
    <3> QED
      BY <3>1, <2>1, <2>2, <2>3, <1>f DEF Accounted, IsolationServerAssumption
  <2>5. ASSUME NEW h \in Grants
        PROVE  grantFree'[p][h] + Cardinality(Under(p, h))' = GrantCap[h]
    <3>1. IsFiniteSet(Under(p, h)) /\ Cardinality(Under(p, h)) \in Nat /\ c \notin Under(p, h)
      BY <2>1, UnderFinite, FS_CardinalityType DEF Under
    <3>2. grantFree[p][h] + Cardinality(Under(p, h)) = GrantCap[h]
      BY <2>1 DEF Accounted
    <3>3. CASE h = g
      <4>1. Under(p, h)' = Under(p, h) \cup {c}
        BY <2>2, <1>s, <3>3 DEF ServerInvariant, ServerTypeOK, Under, Of
      <4>2. Cardinality(Under(p, h) \cup {c}) = Cardinality(Under(p, h)) + 1
        BY <3>1, Counting
      <4>3. grantFree'[p][h] = grantFree[p][h] - 1
        BY <1>f, <3>3 DEF ServerInvariant, ServerTypeOK
      <4> QED
        BY <4>1, <4>2, <4>3, <3>1, <3>2, <1>f, <3>3 DEF IsolationServerAssumption
    <3>4. CASE h # g
      <4>1. Under(p, h)' = Under(p, h)
        BY <2>1, <2>2, <1>s, <3>4 DEF ServerInvariant, ServerTypeOK, Under, Of
      <4>2. grantFree'[p][h] = grantFree[p][h]
        BY <1>f, <3>4 DEF ServerInvariant, ServerTypeOK
      <4> QED
        BY <4>1, <4>2, <3>2
    <3> QED
      BY <3>3, <3>4
  <2> QED
    BY <2>2, <2>3, <2>4, <2>5 DEF Accounted
<1>6. ASSUME NEW q \in Servers, q # p, stage'[q] \in Accepting
      PROVE  Accounted(q)'
  <2>1. stage[q] \in Accepting /\ permits'[q] = permits[q] /\ grantFree'[q] = grantFree[q]
    BY <1>6, <1>f DEF ServerInvariant, ServerTypeOK, Accept
  <2>2. Of(q)' = Of(q) /\ \A d \in Of(q) : sessions'[d] = sessions[d]
    BY <1>6, <1>s DEF ServerInvariant, ServerTypeOK, Accept, Of
  <2> QED
    BY <2>1, <2>2, AccountFrame DEF ServerInvariant
<1> QED
  BY <1>2, <1>3, <1>4, <1>5, <1>6 DEF ServerInvariant

(* A session ends: both permits are returned. *)
LEMMA SessionEndsStep ==
    ASSUME IsolationServerAssumption, ServerInvariant, NEW c \in Connections, SessionEnds(c)
    PROVE  ServerInvariant'
<1>r. PICK p \in Servers, g \in Grants : p = sessions[c].server /\ g = sessions[c].grant
  BY DEF ServerInvariant, ServerTypeOK, Session, SessionEnds
<1>p. p \in Servers /\ g \in Grants /\ stage[p] \in Accepting /\ sessions[c] # Nobody
  BY <1>r DEF ServerInvariant, SessionsServed, SessionEnds
<1>s. sessions' = [sessions EXCEPT ![c] = Nobody] /\ stage' = stage
  BY DEF SessionEnds
<1>f. /\ permits' = [permits EXCEPT ![p] = permits[p] + 1] /\ permits[p] \in Nat
      /\ grantFree' = [grantFree EXCEPT ![p][g] = grantFree[p][g] + 1]
      /\ grantFree[p][g] \in Nat
  BY <1>r, <1>p DEF SessionEnds, ServerInvariant, ServerTypeOK
<1>a. Accounted(p) /\ IsFiniteSet(Of(p)) /\ c \in Of(p)
  BY <1>r, <1>p DEF ServerInvariant, Accounted, Of
<1>o. Of(p)' = Of(p) \ {c}
  BY <1>s, <1>p DEF ServerInvariant, ServerTypeOK, Of
<1>c. /\ Cardinality(Of(p)) = Cardinality(Of(p)') + 1
      /\ Cardinality(Of(p)') \in Nat /\ IsFiniteSet(Of(p)')
  BY <1>a, <1>o, Counting, FS_CardinalityType
<1>u. Under(p, g)' = Under(p, g) \ {c} /\ c \in Under(p, g)
  BY <1>r, <1>s, <1>p, <1>a, <1>o DEF ServerInvariant, ServerTypeOK, Of, Under
<1>v. /\ Cardinality(Under(p, g)) = Cardinality(Under(p, g)') + 1
      /\ Cardinality(Under(p, g)') \in Nat
  BY <1>a, <1>u, UnderFinite, Counting, FS_CardinalityType
<1>b. /\ permits[p] + Cardinality(Of(p)) = Cap
      /\ grantFree[p][g] + Cardinality(Under(p, g)) = GrantCap[g]
  BY <1>a, <1>p DEF Accounted
<1>w. /\ permits[p] + 1 + Cardinality(Of(p)') = Cap /\ permits[p] + 1 \in 0..Cap
      /\ grantFree[p][g] + 1 + Cardinality(Under(p, g)') = GrantCap[g]
      /\ grantFree[p][g] + 1 \in 0..GrantCap[g] /\ grantFree[p][g] + 1 \in 0..Cap
  <2>1. Cap \in Nat /\ GrantCap[g] \in 1..Cap
    BY <1>p DEF IsolationServerAssumption
  <2> QED
    BY <2>1, <1>b, <1>c, <1>v, <1>f
<1>2. ServerTypeOK'
  <2>1. permits' \in [Servers -> 0..Cap] /\ sessions' \in [Connections -> Session \cup {Nobody}]
    BY <1>s, <1>f, <1>w, <1>p DEF ServerInvariant, ServerTypeOK
  <2>2. /\ grantFree' \in [Servers -> [Grants -> 0..Cap]]
        /\ \A q \in Servers, h \in Grants : grantFree'[q][h] <= GrantCap[h]
    BY <1>f, <1>w, <1>p DEF ServerInvariant, ServerTypeOK
  <2> QED
    BY <2>1, <2>2 DEF ServerInvariant, ServerTypeOK, SessionEnds
<1>3. HoldersHold' /\ Reachable' /\ StaleIsReplaced'
  BY DEF ServerInvariant, HoldersHold, Reachable, StaleIsReplaced, SessionEnds
<1>4. SessionsServed'
  BY <1>s DEF ServerInvariant, ServerTypeOK, SessionsServed, Accepting
<1>5. Accounted(p)'
  <2>1. permits'[p] + Cardinality(Of(p)') = Cap
    BY <1>f, <1>w, <1>p DEF ServerInvariant, ServerTypeOK
  <2>2. ASSUME NEW h \in Grants
        PROVE  grantFree'[p][h] + Cardinality(Under(p, h)') = GrantCap[h]
    <3>1. CASE h = g
      BY <3>1, <1>f, <1>w, <1>p DEF ServerInvariant, ServerTypeOK
    <3>2. CASE h # g
      <4>1. Under(p, h)' = Under(p, h)
        BY <1>r, <1>o, <1>s, <3>2 DEF ServerInvariant, ServerTypeOK, Of, Under
      <4>2. grantFree'[p][h] = grantFree[p][h]
        BY <1>f, <1>p, <3>2 DEF ServerInvariant, ServerTypeOK
      <4> QED
        BY <4>1, <4>2, <1>a DEF Accounted
    <3> QED
      BY <3>1, <3>2
  <2> QED
    BY <2>1, <2>2, <1>c DEF Accounted
<1>6. ASSUME NEW q \in Servers, q # p, stage'[q] \in Accepting
      PROVE  Accounted(q)'
  <2>1. stage[q] \in Accepting /\ permits'[q] = permits[q] /\ grantFree'[q] = grantFree[q]
    BY <1>6, <1>f, <1>p, <1>s DEF ServerInvariant, ServerTypeOK
  <2>2. Of(q)' = Of(q) /\ \A d \in Of(q) : sessions'[d] = sessions[d]
    BY <1>r, <1>6, <1>s DEF ServerInvariant, ServerTypeOK, Of
  <2> QED
    BY <2>1, <2>2, AccountFrame DEF ServerInvariant
<1> QED
  BY <1>p, <1>2, <1>3, <1>4, <1>5, <1>6 DEF ServerInvariant

(* A process dies with its sessions; the lock goes with it, the socket's file stays. *)
LEMMA CrashStep ==
    ASSUME IsolationServerAssumption, ServerInvariant, NEW p \in Servers, Crash(p)
    PROVE  ServerInvariant'
<1>1. ServerTypeOK'
  BY DEF IsolationServerAssumption, ServerInvariant, ServerTypeOK, Stages, Crash, At
<1>2. HoldersHold' /\ Reachable' /\ StaleIsReplaced'
  BY DEF IsolationServerAssumption, ServerInvariant, ServerTypeOK, HoldersHold, Holding, Accepting,
     Reachable, StaleIsReplaced, Crash, At
<1>3. SessionsServed'
  BY DEF ServerInvariant, ServerTypeOK, Session, SessionsServed, Accepting, Crash, At, Of
<1>4. ASSUME NEW q \in Servers, stage'[q] \in Accepting
      PROVE  Accounted(q)'
  <2>1. q # p /\ stage[q] \in Accepting
    BY <1>4 DEF ServerInvariant, ServerTypeOK, Accepting, Crash, At
  <2>2. Of(q)' = Of(q) /\ \A d \in Of(q) : sessions'[d] = sessions[d]
    BY <2>1 DEF ServerInvariant, ServerTypeOK, Crash, Of
  <2>3. permits' = permits /\ grantFree' = grantFree
    BY DEF Crash
  <2> QED
    BY <2>1, <2>2, <2>3, AccountFrame DEF ServerInvariant
<1> QED
  BY <1>1, <1>2, <1>3, <1>4 DEF ServerInvariant

(* What the administrator does, and steps that change nothing. *)
LEMMA OutsideStep ==
    ASSUME IsolationServerAssumption, ServerInvariant, EditConfig \/ ChangeModes \/ UNCHANGED serverVars
    PROVE  ServerInvariant'
<1>1. ServerTypeOK'
  <2>1. config' \in 0..MaxConfig
    BY DEF IsolationServerAssumption, ServerInvariant, ServerTypeOK, EditConfig, ChangeModes, serverVars
  <2>2. trusted' \in BOOLEAN
    BY ZenonT(30) DEF ServerInvariant, ServerTypeOK, EditConfig, ChangeModes, serverVars
  <2> QED
    BY <2>1, <2>2 DEF ServerInvariant, ServerTypeOK, EditConfig, ChangeModes, serverVars
<1>2. HoldersHold' /\ Reachable' /\ StaleIsReplaced' /\ SessionsServed'
  BY DEF ServerInvariant, HoldersHold, Reachable, StaleIsReplaced, SessionsServed, EditConfig,
     ChangeModes, serverVars
<1>3. \A q \in Servers : stage'[q] \in Accepting => Accounted(q)'
  <2>1. stage' = stage /\ permits' = permits /\ grantFree' = grantFree /\ sessions' = sessions
    BY DEF EditConfig, ChangeModes, serverVars
  <2>2. \A q \in Servers : Of(q)' = Of(q)
    BY <2>1 DEF Of
  <2> QED
    BY <2>1, <2>2, AccountFrame DEF ServerInvariant
<1> QED
  BY <1>1, <1>2, <1>3 DEF ServerInvariant

-----------------------------------------------------------------------------
(* However many processes are started, stopped and killed, in whatever order: the
   socket of a process that listens is the one clients find, a dead one's never
   keeps the next from starting, and permits are those of the open sessions
   (server, singleton_lock, remove_stale_socket in isolation.rs). *)
THEOREM OneServerHolds ==
    ASSUME IsolationServerAssumption
    PROVE  ServerSpec => []OneServer
<1>1. ServerInit => ServerInvariant
  BY ServerAtInit
<1>2. ServerInvariant /\ [ServerNext]_serverVars => ServerInvariant'
  <2> SUFFICES ASSUME ServerInvariant, [ServerNext]_serverVars
               PROVE  ServerInvariant'
    OBVIOUS
  <2>1. CASE \E p \in Servers : \/ Load(p) \/ Open(p) \/ SingletonLock(p) \/ RemoveStaleSocket(p)
                                \/ Bind(p) \/ Signal(p) \/ Unlink(p) \/ Release(p)
    BY <2>1, QuietSteps
  <2>2. CASE \E p \in Servers : StartServing(p)
    BY <2>2, StartServingStep
  <2>3. CASE \E p \in Servers : Crash(p)
    BY <2>3, CrashStep
  <2>4. CASE \E p \in Servers, c \in Connections : Accept(p, c)
    BY <2>4, AcceptStep
  <2>5. CASE \E c \in Connections : SessionEnds(c)
    BY <2>5, SessionEndsStep
  <2>6. CASE EditConfig \/ ChangeModes \/ UNCHANGED serverVars
    BY <2>6, OutsideStep
  <2> QED
    BY <2>1, <2>2, <2>3, <2>4, <2>5, <2>6 DEF ServerNext
<1>3. ServerInvariant => OneServer
  BY DEF ServerInvariant, OneServer, PermitsAccounted, Accounted, Under, Accepting
<1> QED
  BY <1>1, <1>2, <1>3, PTL DEF ServerSpec

-----------------------------------------------------------------------------
Replied == Receipts \cup Errors \cup {Data}
Says(a) == a.type = "error" /\ a.code \in Uncertain
(* What may be said to someone who may have a draft. *)
Safe(a) == (Dispatched(a) /\ a.state # "rejected") \/ Says(a)
(* A read has no receipt and no uncertain outcome. *)
FitsKind(a) == kind = "read" => a.type # "receipt" /\ ~Says(a)

(* The service is at work, or may still be asked to begin. *)
MayHappen ==
    \/ service = "executing"
    \/ service = "idle" /\ adapter = "isolated" /\ client \in {"exchanging", "lost"}
Settled(a) ==
    /\ a \in Replied /\ FitsKind(a)
    /\ kind = "save" /\ (MayExist \/ MayHappen) => Safe(a)

RequestKnown ==
    /\ kind \in {"save", "reconcile", "status", "read"}
    /\ adapter \in {"embedded", "isolated"} /\ frontend \in {"mcp", "cli"}
    /\ kind # "save" => outcome = "none"
    /\ client \in {"exchanging", "lost"} => adapter = "isolated"
    /\ adapter = "isolated" /\ client = "waiting" => service = "idle"

(* The service's own answer. *)
ServiceSettled ==
    /\ service = "idle" => outcome = "none"
    /\ service \in {"answered", "written"} =>
           inner \in Replied /\ FitsKind(inner) /\ (MayExist => Safe(inner))
    /\ service = "answered" /\ Says(inner) => inner.named

(* The front end's. *)
FrontSettled ==
    /\ front = "waiting" => delivered = Silence
    /\ front # "waiting" => Settled(answer)
    /\ front # "waiting" /\ adapter = "embedded" => service = "over"
    /\ front # "waiting" => client # "exchanging"
    /\ front = "output" => frontend = "mcp"
    /\ (front = "answered" \/ (front # "waiting" /\ frontend = "cli")) /\ Says(answer) => answer.named

(* What is left of an answer whose output fails. *)
Remainders(a) ==
    {OutputFailure(a, code) : code \in {"response_too_large", "timeout", "other"}}

(* What was delivered follows from the answer, and so does the exit code of a
   command. *)
DeliveredFollows ==
    /\ delivered # Silence => front = "done" /\ delivered \in {answer} \cup Remainders(answer)
    /\ frontend = "cli" /\ front # "done" => exit = 99
    /\ frontend = "cli" /\ front = "done" =>
           IF delivered = Silence THEN exit \in {ExitCode(b) : b \in Remainders(answer)}
                                  ELSE exit = ExitCode(delivered)

(* An MCP server's failure, once it is known to be this answer's, and its exit. *)
FirstFollows ==
    /\ first.of # "nobody" => frontend = "mcp"
    /\ first.of = "request" => front = "done" /\ first.error \in Remainders(answer)
    /\ frontend = "mcp" /\ exit = 99 => ending = "running"
    /\ frontend = "cli" => ending \in {"running", "report"}
    /\ ending \in {"lifetime", "session"} /\ first.of # "nobody" => exit = ExitCode(first.error)

RepliesInvariant ==
    RepliesTyped /\ RequestKnown /\ ServiceSettled /\ FrontSettled /\ DeliveredFollows /\ FirstFollows

Codes == {"outcome_unknown", "operation_in_progress", "response_too_large", "timeout", "cancelled",
          "broker_unavailable", "other"}
States == {"prepared", "created", "unreferenced", "duplicate", "rejected"}

-----------------------------------------------------------------------------
(* The fields of the answers there are. *)
LEMMA ErrorFields ==
    ASSUME NEW code \in Codes
    PROVE  /\ Failure(code) \in Errors /\ Failure(code).type = "error"
           /\ Failure(code).code = code /\ Failure(code).named = FALSE
           /\ DraftOutcome(code) \in Errors /\ DraftOutcome(code).type = "error"
           /\ DraftOutcome(code).code = code /\ DraftOutcome(code).named = TRUE
  BY DEF Codes, Failure, DraftOutcome, Errors

LEMMA ReceiptFields ==
    ASSUME NEW state \in States, NEW ref \in BOOLEAN
    PROVE  /\ Receipt(state, ref) \in Receipts /\ Receipt(state, ref).type = "receipt"
           /\ Receipt(state, ref).state = state /\ Receipt(state, ref).reference = ref
  BY DEF States, Receipt, Receipts

LEMMA AnswerFields ==
    /\ \A a \in Receipts : a.type = "receipt" /\ a.state \in States /\ a.reference \in BOOLEAN
    /\ \A a \in Errors : a.type = "error" /\ a.code \in Codes /\ a.named \in BOOLEAN
    /\ Data.type = "data" /\ Silence.type = "none"
    /\ Silence \notin Replied
    /\ \A a \in Replied : /\ a.type = "receipt" => a \in Receipts
                          /\ a.type = "error" => a \in Errors
                          /\ a.type = "data" => a = Data
                          /\ a.type \in {"receipt", "error", "data"}
<1>1. /\ \A a \in Receipts : a.type = "receipt" /\ a.state \in States /\ a.reference \in BOOLEAN
      /\ \A a \in Errors : a.type = "error" /\ a.code \in Codes /\ a.named \in BOOLEAN
      /\ Data.type = "data" /\ Silence.type = "none"
  BY DEF Receipts, Errors, Data, Silence, States, Codes
<1>2. \A a \in Replied : /\ a.type = "receipt" => a \in Receipts
                         /\ a.type = "error" => a \in Errors
                         /\ a.type = "data" => a = Data
                         /\ a.type \in {"receipt", "error", "data"}
  BY <1>1 DEF Replied
<1> QED BY <1>1, <1>2

(* An uncertain outcome may be told to anyone but a reader. *)
LEMMA UncertainIsSafe ==
    ASSUME NEW code \in Uncertain
    PROVE  /\ DraftOutcome(code) \in Replied /\ Says(DraftOutcome(code))
           /\ Safe(DraftOutcome(code)) /\ DraftOutcome(code).named
  BY ErrorFields DEF Uncertain, Codes, Replied, Says, Safe

(* An ordinary failure may be told to someone who has no draft. *)
LEMMA PlainFailure ==
    ASSUME NEW code \in Codes \ Uncertain
    PROVE  /\ Failure(code) \in Replied /\ ~Says(Failure(code)) /\ FitsKind(Failure(code))
           /\ Failure(code).type = "error"
  BY ErrorFields DEF Replied, Says, FitsKind

(* Every answer of the service, as it is fitted to its bound. *)
Proper(a) ==
    /\ a \in Replied /\ FitsKind(a) /\ (MayExist => Safe(a))
    /\ Says(a) => a.named

LEMMA PriorProper ==
    ASSUME NEW a \in PriorAnswers \cup Failures \cup {Receipt("prepared", FALSE)},
           kind # "read", ~MayExist
    PROVE  Proper(a)
<1>1. CASE a \in PriorAnswers \/ a = Receipt("prepared", FALSE)
  <2>0. a.type = "receipt" => ~Says(a)
    BY DEF Says
  <2>1. a \in Replied /\ (Says(a) => a.named)
    <3>1. CASE a \in {DraftOutcome("outcome_unknown"), DraftOutcome("operation_in_progress")}
      BY <3>1, UncertainIsSafe DEF Uncertain
    <3>2. CASE a \in {Receipt("created", TRUE), Receipt("unreferenced", FALSE),
                      Receipt("duplicate", TRUE), Receipt("rejected", FALSE),
                      Receipt("prepared", FALSE)}
      BY <2>0, <3>2, ReceiptFields DEF States, Replied
    <3> QED BY <1>1, <3>1, <3>2 DEF PriorAnswers
  <2> QED BY <2>1 DEF Proper, FitsKind
<1>2. CASE a \in Failures
  BY <1>2, PlainFailure DEF Failures, Codes, Uncertain, Proper
<1> QED BY <1>1, <1>2

LEMMA AnswersProper ==
    ASSUME RepliesTyped, RequestKnown, NEW a \in Answers
    PROVE  Proper(a)
<1>1. CASE kind = "read"
  <2>1. a = Data \/ a \in Failures
    BY <1>1 DEF Answers
  <2>2. ~MayExist
    BY <1>1 DEF RequestKnown, MayExist
  <2>3. CASE a = Data
    BY <2>2, <2>3, AnswerFields DEF Proper, Replied, FitsKind, Says
  <2>4. CASE a \in Failures
    BY <2>2, <2>4, PlainFailure DEF Failures, Codes, Uncertain, Proper
  <2> QED BY <2>1, <2>3, <2>4
<1>2. CASE kind \in {"status", "reconcile"}
  <2>1. a \in PriorAnswers \cup Failures \cup {Receipt("prepared", FALSE)}
    BY <1>2 DEF Answers
  <2>2. ~MayExist
    BY <1>2 DEF RequestKnown, MayExist
  <2> QED BY <1>2, <2>1, <2>2, PriorProper
<1>3. CASE kind = "save" /\ outcome = "none"
  <2>1. a \in PriorAnswers \cup Failures
    BY <1>3 DEF Answers
  <2> QED BY <1>3, <2>1, PriorProper DEF MayExist
<1>4. CASE kind = "save" /\ outcome = "created"
  <2>1. a \in {Receipt("created", TRUE), Receipt("unreferenced", FALSE),
               DraftOutcome("outcome_unknown")}
    BY <1>4 DEF Answers
  <2>2. a = DraftOutcome("outcome_unknown") => Proper(a)
    BY <1>4, UncertainIsSafe DEF Proper, FitsKind, Uncertain
  <2>3. a \in {Receipt("created", TRUE), Receipt("unreferenced", FALSE)} => Proper(a)
    BY <1>4, ReceiptFields DEF Proper, FitsKind, Says, Safe, Dispatched, States, Replied
  <2> QED BY <2>1, <2>2, <2>3
<1>5. CASE kind = "save" /\ outcome = "rejected"
  <2>1. a \in {Receipt("rejected", FALSE), DraftOutcome("outcome_unknown")}
    BY <1>5 DEF Answers
  <2>2. a = DraftOutcome("outcome_unknown") => Proper(a)
    BY <1>5, UncertainIsSafe DEF Proper, FitsKind, Uncertain
  <2>3. a = Receipt("rejected", FALSE) => Proper(a)
    BY <1>5, ReceiptFields DEF Proper, FitsKind, Says, MayExist, States, Replied
  <2> QED BY <2>1, <2>2, <2>3
<1>6. CASE kind = "save" /\ outcome = "unknown"
  <2>1. a = DraftOutcome("outcome_unknown")
    BY <1>6 DEF Answers
  <2> QED BY <1>6, <2>1, UncertainIsSafe DEF Proper, FitsKind, Uncertain
<1> QED BY <1>1, <1>2, <1>3, <1>4, <1>5, <1>6 DEF RequestKnown, RepliesTyped

(* Fitting keeps an answer proper: a receipt of a draft that does not fit becomes
   an uncertain outcome, never a plain failure. *)
LEMMA FittedProper ==
    ASSUME NEW a, Proper(a), NEW full \in BOOLEAN, NEW short \in BOOLEAN
    PROVE  Proper(Fitted(a, full, short))
<1>a. a \in Replied /\ FitsKind(a)
  BY DEF Proper
<1>1. CASE full \/ a.type = "error"
  BY <1>1 DEF Fitted
<1>2. CASE ~full /\ a.type = "data"
  <2>1. Fitted(a, full, short) = Failure("response_too_large")
    BY <1>2 DEF Fitted
  <2>2. ~MayExist
    BY <1>2 DEF Proper, Safe, Dispatched, Says
  <2> QED BY <2>1, <2>2, PlainFailure DEF Proper, Codes, Uncertain
<1>3. CASE ~full /\ a.type = "receipt"
  <2> DEFINE state == IF a.reference /\ a.state = "created" THEN "unreferenced" ELSE a.state
  <2>1. state \in States /\ kind # "read"
    BY <1>a, <1>3, AnswerFields DEF States, FitsKind
  <2>2. Fitted(a, full, short) =
            CASE short -> Receipt(state, FALSE)
              [] ~short /\ state \in {"created", "unreferenced", "duplicate"} ->
                     DraftOutcome("outcome_unknown")
              [] OTHER -> Failure("response_too_large")
    BY <1>3 DEF Fitted
  <2>3. MayExist => state \notin {"prepared", "rejected"}
    BY <1>3 DEF Proper, Safe, Dispatched, Says
  <2>4. CASE short
    <3>1. Fitted(a, full, short) = Receipt(state, FALSE)
      BY <2>2, <2>4
    <3>2. /\ Receipt(state, FALSE) \in Replied /\ Receipt(state, FALSE).type = "receipt"
          /\ Receipt(state, FALSE).state = state
      BY <2>1, ReceiptFields DEF Replied
    <3>3. FitsKind(Receipt(state, FALSE)) /\ ~Says(Receipt(state, FALSE))
      BY <2>1, <3>2 DEF FitsKind, Says
    <3>4. MayExist => Safe(Receipt(state, FALSE))
      BY <2>3, <3>2 DEF Safe, Dispatched
    <3> QED BY <3>1, <3>2, <3>3, <3>4 DEF Proper
  <2>5. CASE ~short /\ state \in {"created", "unreferenced", "duplicate"}
    <3>1. Fitted(a, full, short) = DraftOutcome("outcome_unknown")
      BY <2>2, <2>5
    <3> QED BY <2>1, <3>1, UncertainIsSafe DEF Proper, FitsKind, Uncertain
  <2>6. CASE ~short /\ state \notin {"created", "unreferenced", "duplicate"}
    <3>1. Fitted(a, full, short) = Failure("response_too_large")
      BY <2>2, <2>6
    <3>2. ~MayExist
      BY <2>1, <2>3, <2>6 DEF States
    <3> QED BY <3>1, <3>2, PlainFailure DEF Proper, Codes, Uncertain
  <2> QED BY <2>4, <2>5, <2>6
<1> QED BY <1>a, <1>1, <1>2, <1>3, AnswerFields

(* An error that is compacted, or gets its name back, says the same; so does what
   is left of an answer that could not be output. *)
LEMMA CompactKeeps ==
    ASSUME NEW a \in Replied, a.type = "error"
    PROVE  /\ Compact(a) \in Replied /\ Compact(a).type = "error"
           /\ Says(Compact(a)) <=> Says(a)
           /\ Safe(a) => Safe(Compact(a))
           /\ FitsKind(a) => FitsKind(Compact(a))
<1>1. CASE a.code \in Uncertain
  <2>1. Compact(a) = Failure(a.code) /\ a.code \in Codes
    BY <1>1 DEF Compact, Uncertain, Codes
  <2> QED BY <1>1, <2>1, ErrorFields DEF Replied, Says, Safe, FitsKind
<1>2. CASE a.code \notin Uncertain
  <2>1. Compact(a) = Failure("response_too_large")
    BY <1>2 DEF Compact
  <2>2. ~Says(a) /\ ~Safe(a)
    BY <1>2 DEF Says, Safe, Dispatched
  <2> QED BY <2>1, <2>2, PlainFailure DEF Codes, Uncertain, FitsKind
<1> QED BY <1>1, <1>2

LEMMA SizedKeeps ==
    ASSUME NEW a \in Replied, NEW b \in Sized(a)
    PROVE  /\ b \in Replied /\ (Says(b) <=> Says(a)) /\ (Safe(a) => Safe(b))
           /\ FitsKind(a) => FitsKind(b)
  BY CompactKeeps DEF Sized

LEMMA NamedKeeps ==
    ASSUME NEW a \in Replied, FitsKind(a)
    PROVE  /\ Named(a) \in Replied /\ (Says(Named(a)) <=> Says(a))
           /\ Safe(a) => Safe(Named(a))
           /\ FitsKind(Named(a))
           /\ Says(Named(a)) => Named(a).named
<1>1. CASE Says(a)
  <2>1. a \in Errors /\ kind # "read"
    BY <1>1, AnswerFields DEF Says, FitsKind
  <2>2. Named(a) = [a EXCEPT !.named = TRUE]
    BY <1>1, <2>1 DEF Named, Says
  <2>3. Named(a) \in Errors /\ Named(a).code = a.code /\ Named(a).named = TRUE
    BY <2>1, <2>2 DEF Errors
  <2>4. Says(Named(a))
    BY <1>1, <2>3, AnswerFields DEF Says
  <2> QED BY <1>1, <2>1, <2>3, <2>4 DEF Replied, Safe, FitsKind
<1>2. CASE ~Says(a)
  BY <1>2 DEF Named, Says
<1> QED BY <1>1, <1>2

LEMMA OutputFailureKeeps ==
    ASSUME NEW a \in Replied, FitsKind(a), NEW b \in Remainders(a)
    PROVE  /\ b \in Replied /\ b \in Errors /\ FitsKind(b)
           /\ Safe(a) => Says(b) /\ Safe(b)
           /\ (Says(a) => a.named) => (Says(b) => b.named)
<1>0. PICK code \in {"response_too_large", "timeout", "other"} : b = OutputFailure(a, code)
  BY DEF Remainders
<1>1. CASE a.type = "error"
  <2>1. b = a
    BY <1>0, <1>1 DEF OutputFailure, Dispatched
  <2>2. Safe(a) => Says(a)
    BY <1>1 DEF Safe, Dispatched
  <2> QED BY <1>1, <2>1, <2>2, AnswerFields
<1>2. CASE Dispatched(a)
  <2>1. b = DraftOutcome("outcome_unknown") /\ kind # "read"
    BY <1>0, <1>2 DEF OutputFailure, Dispatched, FitsKind
  <2> QED BY <2>1, UncertainIsSafe, ErrorFields DEF Uncertain, FitsKind, Codes
<1>3. CASE a.type # "error" /\ ~Dispatched(a)
  <2>1. b = Failure(code) /\ ~Safe(a)
    BY <1>0, <1>3 DEF OutputFailure, Safe, Says
  <2> QED BY <2>1, PlainFailure, ErrorFields DEF Codes, Uncertain
<1> QED BY <1>1, <1>2, <1>3

LEMMA ExitTellsSays ==
    ASSUME NEW a \in Replied
    PROVE  /\ ExitCode(a) = 7 <=> Says(a)
           /\ ExitCode(a) \in {0, 5, 7, 8, 130}
<1>1. CASE a.type # "error"
  BY <1>1 DEF ExitCode, Says
<1>2. CASE a.type = "error" /\ a.code \in Uncertain
  BY <1>2 DEF ExitCode, Says, Uncertain
<1>3. CASE a.type = "error" /\ a.code \notin Uncertain
  BY <1>3 DEF ExitCode, Says, Uncertain
<1> QED BY <1>1, <1>2, <1>3

-----------------------------------------------------------------------------
LEMMA RepliesAtInit == RepliesInit => RepliesInvariant
<1> SUFFICES ASSUME RepliesInit PROVE RepliesInvariant
  OBVIOUS
<1>1. RepliesTyped /\ RequestKnown
  BY DEF RepliesInit, RepliesTyped, RequestKnown
<1>2. ServiceSettled /\ FrontSettled /\ DeliveredFollows /\ FirstFollows
  BY DEF RepliesInit, ServiceSettled, FrontSettled, DeliveredFollows, FirstFollows
<1> QED BY <1>1, <1>2 DEF RepliesInvariant

(* Nothing that the service does, before or after the front end has its answer,
   makes that answer untrue: it already counts with all of it. *)
LEMMA AnswerStays ==
    ASSUME RepliesInvariant, UNCHANGED <<Request, front, answer, delivered, Process>>, RequestKnown',
           client' = client \/ (front = "waiting" /\ front' = "waiting"),
           RepliesTyped', ServiceSettled',
           kind = "save" /\ front # "waiting" /\ (MayExist \/ MayHappen)' => MayExist \/ MayHappen,
           front # "waiting" /\ adapter = "embedded" /\ service = "over" => service' = "over"
    PROVE  RepliesInvariant'
<1>u. /\ kind' = kind /\ adapter' = adapter /\ frontend' = frontend
      /\ front' = front /\ answer' = answer /\ delivered' = delivered /\ exit' = exit
      /\ first' = first /\ ending' = ending
  BY DEF Request, Process
<1>1. front # "waiting" => Settled(answer)'
  BY <1>u DEF RepliesInvariant, FrontSettled, Settled, FitsKind
<1>2. FrontSettled'
  BY <1>u, <1>1 DEF RepliesInvariant, FrontSettled
<1>3. DeliveredFollows'
  BY <1>u DEF RepliesInvariant, DeliveredFollows, Remainders, OutputFailure, Dispatched
<1>4. FirstFollows'
  BY <1>u DEF RepliesInvariant, FirstFollows, Remainders, OutputFailure, Dispatched
<1> QED BY <1>2, <1>3, <1>4 DEF RepliesInvariant

LEMMA ServiceKeeps ==
    ASSUME RepliesInvariant,
           Execute \/ AppendDraft \/ Record \/ ServiceAnswers \/ WriteAnswer \/ ServiceEnds \/ TakesStream
    PROVE  RepliesInvariant'
<1>k. /\ RepliesTyped /\ RequestKnown /\ ServiceSettled
      /\ front # "waiting" /\ adapter = "embedded" => service = "over"
  BY DEF RepliesInvariant, FrontSettled
<1>1. CASE Execute
  <2>1. /\ UNCHANGED <<Request, client, front, outcome, inner, answer, delivered, Process>>
        /\ service = "idle" /\ service' = "executing"
        /\ IF adapter = "isolated" THEN client \in {"exchanging", "lost"} ELSE front = "waiting"
    BY <1>1 DEF Execute
  <2>2. RepliesTyped' /\ RequestKnown' /\ ServiceSettled'
    BY <1>k, <2>1 DEF RepliesTyped, RequestKnown, ServiceSettled, Request, Process
  <2>3. front # "waiting" => MayHappen
    BY <1>k, <2>1 DEF MayHappen, RequestKnown
  <2> QED BY <1>k, <2>1, <2>2, <2>3, AnswerStays
<1>2. CASE AppendDraft \/ Record
  <2>1. /\ UNCHANGED <<Request, service, client, front, inner, answer, delivered, Process>>
        /\ service = "executing" /\ outcome' \in {"unknown", "created", "rejected"}
        /\ kind = "save" \/ outcome = "unknown"
    BY <1>2 DEF AppendDraft, Record
  <2>u. UNCHANGED <<kind, adapter, frontend>> /\ kind = "save"
    BY <1>k, <2>1 DEF Request, RequestKnown
  <2>2. RepliesTyped' /\ RequestKnown' /\ ServiceSettled'
    BY <1>k, <2>1, <2>u DEF RepliesTyped, RequestKnown, ServiceSettled, Process
  <2>3. MayHappen
    BY <2>1 DEF MayHappen
  <2> QED BY <1>k, <2>1, <2>2, <2>3, AnswerStays
<1>3. CASE ServiceAnswers
  <2>1. /\ UNCHANGED <<Request, client, front, outcome, answer, delivered, Process>>
        /\ service = "executing" /\ service' = "answered"
    BY <1>3 DEF ServiceAnswers
  <2>2. PICK a \in Answers, full \in BOOLEAN, short \in BOOLEAN : inner' = Fitted(a, full, short)
    BY <1>3 DEF ServiceAnswers
  <2>3. Proper(inner')
    BY <1>k, <2>2, AnswersProper, FittedProper
  <2>4. RepliesTyped' /\ RequestKnown'
    BY <1>k, <2>1, <2>3 DEF RepliesTyped, RequestKnown, Request, Process, Proper, Replied
  <2>5. ServiceSettled'
    BY <2>1, <2>3 DEF ServiceSettled, Proper, FitsKind, MayExist, Request
  <2>6. MayHappen
    BY <2>1 DEF MayHappen
  <2> QED BY <1>k, <2>1, <2>4, <2>5, <2>6, AnswerStays
<1>4. CASE WriteAnswer
  <2>1. /\ UNCHANGED <<Request, client, front, outcome, answer, delivered, Process>>
        /\ service = "answered" /\ service' = "written" /\ adapter = "isolated"
        /\ inner' \in Sized(inner)
    BY <1>4 DEF WriteAnswer
  <2>2. inner \in Replied /\ FitsKind(inner) /\ (MayExist => Safe(inner))
    BY <1>k, <2>1 DEF ServiceSettled
  <2>3. inner' \in Replied /\ FitsKind(inner') /\ (MayExist => Safe(inner'))
    BY <2>1, <2>2, SizedKeeps
  <2>4. RepliesTyped' /\ RequestKnown'
    BY <1>k, <2>1, <2>3 DEF RepliesTyped, RequestKnown, Request, Process, Replied
  <2>5. ServiceSettled'
    BY <2>1, <2>3 DEF ServiceSettled, FitsKind, MayExist, Request
  <2>6. (MayExist \/ MayHappen)' => MayExist \/ MayHappen
    BY <2>1 DEF MayHappen, MayExist
  <2> QED BY <1>k, <2>1, <2>4, <2>5, <2>6, AnswerStays
<1>5. CASE ServiceEnds
  <2>1. /\ UNCHANGED <<Request, client, front, outcome, inner, answer, delivered, Process>>
        /\ service' = "over" /\ adapter = "isolated" /\ service # "idle"
    BY <1>5 DEF ServiceEnds
  <2>2. RepliesTyped' /\ RequestKnown' /\ ServiceSettled'
    BY <1>k, <2>1 DEF RepliesTyped, RequestKnown, ServiceSettled, Request, Process
  <2>3. (MayExist \/ MayHappen)' => MayExist \/ MayHappen
    BY <2>1 DEF MayHappen, MayExist
  <2> QED BY <1>k, <2>1, <2>2, <2>3, AnswerStays
<1>6. CASE TakesStream
  <2>1. /\ UNCHANGED <<Request, service, front, outcome, inner, answer, delivered, Process>>
        /\ adapter = "isolated" /\ front = "waiting" /\ client' = "exchanging"
    BY <1>6 DEF TakesStream
  <2>2. RepliesTyped' /\ RequestKnown'
    BY <1>k, <2>1 DEF RepliesTyped, RequestKnown, Request, Process
  <2>3. ServiceSettled'
    BY <1>k, <2>1 DEF ServiceSettled, FitsKind, MayExist, Request
  <2> QED BY <1>k, <2>1, <2>2, <2>3, AnswerStays
<1> QED BY <1>1, <1>2, <1>3, <1>4, <1>5, <1>6

(* The front end is handed an answer it may pass on. *)
LEMMA ReturnedKeeps ==
    ASSUME RepliesInvariant, NEW a, Returned(a), front = "waiting",
           UNCHANGED <<Request, outcome, inner, delivered, Process>>,
           service' \in {service, "over"}, adapter = "embedded" => service' = "over",
           client' \in {"over", "lost"} \/ (client' = "waiting" /\ adapter = "embedded"),
           client' = "lost" => adapter = "isolated",
           a \in Replied, FitsKind(a), Says(a) => a.named,
           kind = "save" /\ (MayExist \/ MayHappen)' => Safe(a)
    PROVE  RepliesInvariant'
<1>u. /\ kind' = kind /\ adapter' = adapter /\ frontend' = frontend /\ answer' = a
      /\ front' = "answered" /\ outcome' = outcome /\ inner' = inner
      /\ delivered' = delivered /\ first' = first /\ exit' = exit /\ ending' = ending
  BY DEF Request, Returned, Process
<1>k. /\ RepliesTyped /\ RequestKnown /\ ServiceSettled /\ FirstFollows /\ delivered = Silence
      /\ frontend = "cli" => exit = 99
  BY DEF RepliesInvariant, FrontSettled, DeliveredFollows
<1>1. RepliesTyped' /\ RequestKnown'
  BY <1>u, <1>k DEF RepliesTyped, RequestKnown, Replied
<1>2. ServiceSettled'
  BY <1>u, <1>k DEF ServiceSettled, FitsKind, MayExist, RepliesTyped
<1>3. Settled(answer)'
  BY <1>u DEF Settled, FitsKind
<1>4. FrontSettled' /\ DeliveredFollows'
  BY <1>u, <1>k, <1>3 DEF FrontSettled, DeliveredFollows
<1>5. FirstFollows'
  BY <1>u, <1>k DEF FirstFollows
<1> QED BY <1>1, <1>2, <1>4, <1>5 DEF RepliesInvariant

LEMMA FrontWaitKeeps ==
    ASSUME RepliesInvariant,
           ClientWaitFails \/ ExchangeFails \/ ExchangeDone \/ EmbeddedDone \/ CancelCall \/ Interrupt
    PROVE  RepliesInvariant'
<1>k. RepliesTyped /\ RequestKnown /\ ServiceSettled
  BY DEF RepliesInvariant
<1>s. /\ Request' = Request => kind' = kind /\ adapter' = adapter
      /\ outcome' = outcome => (MayExist' <=> MayExist)
  BY DEF Request, MayExist
<1>1. CASE ClientWaitFails
  <2>1. /\ UNCHANGED <<Request, service, outcome, inner, delivered, Process>>
        /\ adapter = "isolated" /\ front = "waiting" /\ client = "waiting" /\ client' = "over"
    BY <1>1 DEF ClientWaitFails
  <2>2. PICK code \in {"timeout", "broker_unavailable"} : Returned(Failure(code))
    BY <1>1 DEF ClientWaitFails
  <2>3. /\ Failure(code) \in Replied /\ FitsKind(Failure(code)) /\ ~Says(Failure(code))
    BY PlainFailure DEF Codes, Uncertain
  <2>4. kind = "save" => ~(MayExist \/ MayHappen)'
    <3>1. service' = "idle" /\ outcome' = "none"
      BY <1>k, <2>1 DEF RequestKnown, ServiceSettled
    <3> QED BY <2>1, <3>1 DEF MayExist, MayHappen
  <2> QED BY <2>1, <2>2, <2>3, <2>4, ReturnedKeeps
<1>2. CASE ExchangeFails
  <2> DEFINE a == IF DraftIdentity THEN DraftOutcome("outcome_unknown") ELSE Failure("timeout")
  <2>1. /\ UNCHANGED <<Request, service, outcome, inner, delivered, Process>>
        /\ front = "waiting" /\ client = "exchanging" /\ client' = "lost" /\ Returned(a)
    BY <1>2 DEF ExchangeFails
  <2>2. a \in Replied /\ FitsKind(a) /\ (Says(a) => a.named) /\ (kind = "save" => Safe(a))
    BY UncertainIsSafe, PlainFailure DEF DraftIdentity, Codes, Uncertain, FitsKind
  <2>3. adapter = "isolated"
    BY <1>k, <2>1 DEF RequestKnown
  <2> HIDE DEF a
  <2> QED BY <2>1, <2>2, <2>3, ReturnedKeeps
<1>3. CASE ExchangeDone
  <2>1. /\ UNCHANGED <<Request, outcome, inner, delivered, Process>>
        /\ front = "waiting" /\ client = "exchanging" /\ service = "written"
        /\ client' = "over" /\ service' = "over" /\ Returned(Named(inner))
    BY <1>3 DEF ExchangeDone
  <2>2. inner \in Replied /\ FitsKind(inner) /\ (MayExist => Safe(inner))
    BY <1>k, <2>1 DEF ServiceSettled
  <2>3. (MayExist \/ MayHappen)' => Safe(Named(inner))
    BY <1>s, <2>1, <2>2, NamedKeeps DEF MayHappen
  <2> QED BY <2>1, <2>2, <2>3, NamedKeeps, ReturnedKeeps
<1>4. CASE EmbeddedDone
  <2>1. /\ UNCHANGED <<Request, client, outcome, inner, delivered, Process>>
        /\ front = "waiting" /\ adapter = "embedded" /\ service = "answered"
        /\ service' = "over" /\ Returned(inner)
    BY <1>4 DEF EmbeddedDone
  <2>2. inner \in Replied /\ FitsKind(inner) /\ (MayExist => Safe(inner)) /\ (Says(inner) => inner.named)
    BY <1>k, <2>1 DEF ServiceSettled
  <2>3. (MayExist \/ MayHappen)' => Safe(inner)
    BY <1>s, <2>1, <2>2 DEF MayHappen
  <2>4. client' \in {"waiting", "over"}
    BY <1>k, <2>1 DEF RequestKnown, RepliesTyped
  <2> QED BY <2>1, <2>2, <2>3, <2>4, ReturnedKeeps
<1>5. CASE CancelCall \/ Interrupt
  <2>1. /\ UNCHANGED <<Request, outcome, inner, delivered, Process>>
        /\ front = "waiting"
        /\ client' = IF client = "exchanging" THEN "lost" ELSE "over"
        /\ service' = IF adapter = "embedded" THEN "over" ELSE service
    BY <1>5 DEF CancelCall, Interrupt, Abandoned
  <2>2. PICK code \in {"cancelled", "timeout"} :
            \/ Returned(InterruptedReply(code))
            \/ service = "idle" /\ client = "waiting" /\ Returned(Failure(code))
    BY <1>5 DEF CancelCall, Interrupt
  <2>3. client' = "lost" => adapter = "isolated"
    BY <1>k, <2>1 DEF RequestKnown
  <2>4. CASE Returned(InterruptedReply(code))
    <3>1. /\ InterruptedReply(code) \in Replied /\ FitsKind(InterruptedReply(code))
          /\ Says(InterruptedReply(code)) => InterruptedReply(code).named
          /\ kind = "save" => Safe(InterruptedReply(code))
      BY UncertainIsSafe, PlainFailure DEF InterruptedReply, DraftIdentity, Codes, Uncertain, FitsKind
    <3> QED BY <2>1, <2>3, <2>4, <3>1, ReturnedKeeps
  <2>5. CASE service = "idle" /\ client = "waiting" /\ Returned(Failure(code))
    <3>1. Failure(code) \in Replied /\ FitsKind(Failure(code)) /\ ~Says(Failure(code))
      BY PlainFailure DEF Codes, Uncertain
    <3>2. ~(MayExist \/ MayHappen)'
      <4>1. outcome' = "none" /\ client' = "over" /\ service' \in {"idle", "over"}
        BY <1>k, <2>1, <2>5 DEF ServiceSettled
      <4> QED BY <4>1 DEF MayExist, MayHappen
    <3> QED BY <2>1, <2>3, <2>5, <3>1, <3>2, ReturnedKeeps
  <2> QED BY <2>2, <2>4, <2>5
<1> QED BY <1>1, <1>2, <1>3, <1>4, <1>5

(* What every step after the front end has its answer leaves as it is. *)
LEMMA AnsweredStays ==
    ASSUME RepliesInvariant, front # "waiting", front' = "done",
           UNCHANGED <<Request, service, client, outcome, inner>>,
           answer' = answer
    PROVE  RequestKnown' /\ ServiceSettled' /\ FrontSettled' /\ Remainders(answer)' = Remainders(answer)
<1>u. UNCHANGED <<kind, adapter, frontend>>
  BY DEF Request
<1>1. RequestKnown' /\ ServiceSettled'
  BY <1>u DEF RepliesInvariant, RequestKnown, ServiceSettled, FitsKind, MayExist
<1>2. Settled(answer)'
  BY <1>u DEF RepliesInvariant, FrontSettled, Settled, FitsKind, MayExist, MayHappen
<1>3. FrontSettled'
  BY <1>u, <1>2 DEF RepliesInvariant, FrontSettled
<1>4. Remainders(answer)' = Remainders(answer)
  BY DEF Remainders
<1> QED BY <1>1, <1>3, <1>4

(* A command prints its answer, or fails to, and exits. *)
LEMMA ReportKeeps ==
    ASSUME RepliesInvariant, Report \/ ReportFails
    PROVE  RepliesInvariant'
<1>k. RepliesTyped /\ RequestKnown /\ FrontSettled /\ DeliveredFollows /\ FirstFollows
  BY DEF RepliesInvariant
<1>u. /\ UNCHANGED <<Request, service, client, outcome, inner, first>> /\ answer' = answer
      /\ UNCHANGED <<kind, adapter, frontend>> /\ frontend = "cli"
      /\ front = "answered" /\ front' = "done" /\ ending' = "report"
  BY DEF Report, ReportFails, Request
<1>1. RequestKnown' /\ ServiceSettled' /\ FrontSettled' /\ Remainders(answer)' = Remainders(answer)
  BY <1>u, AnsweredStays
<1>a. answer \in Replied /\ FitsKind(answer) /\ delivered = Silence /\ first.of = "nobody"
  BY <1>k, <1>u DEF FrontSettled, Settled, DeliveredFollows, FirstFollows, RepliesTyped
<1>2. /\ delivered' = Silence \/ delivered' \in {answer} \cup Remainders(answer)
      /\ IF delivered' = Silence THEN exit' \in {ExitCode(b) : b \in Remainders(answer)}
                                 ELSE exit' = ExitCode(delivered')
  <2>1. CASE Report
    <3>1. delivered' \in {answer} \cup Remainders(answer) /\ exit' = ExitCode(delivered')
      BY <2>1 DEF Report, Remainders
    <3>2. delivered' # Silence
      BY <1>a, <3>1, OutputFailureKeeps, AnswerFields
    <3> QED BY <3>1, <3>2
  <2>2. CASE ReportFails
    BY <1>a, <2>2 DEF ReportFails, Remainders
  <2> QED BY <2>1, <2>2
<1>3. DeliveredFollows'
  BY <1>1, <1>2, <1>u DEF DeliveredFollows
<1>4. FirstFollows'
  BY <1>a, <1>u DEF FirstFollows
<1>5. RepliesTyped'
  <2>1. \A b \in {answer} \cup Remainders(answer) : b \in Replied /\ ExitCode(b) \in {0, 5, 7, 8, 130}
    BY <1>a, OutputFailureKeeps, ExitTellsSays
  <2>2. exit' \in {0, 5, 7, 8, 130} /\ (delivered' = Silence \/ delivered' \in Replied)
    BY <1>2, <2>1
  <2> QED BY <1>k, <1>u, <2>2 DEF RepliesTyped, Replied
<1> QED BY <1>1, <1>3, <1>4, <1>5 DEF RepliesInvariant

(* The transport sends, withholds or fails to send the answer of a call. *)
LEMMA SendKeeps ==
    ASSUME RepliesInvariant, Measure \/ Deliver \/ SendFails
    PROVE  RepliesInvariant'
<1>k. /\ RepliesTyped /\ RequestKnown /\ ServiceSettled /\ FrontSettled /\ DeliveredFollows /\ FirstFollows
  BY DEF RepliesInvariant
<1>u. /\ UNCHANGED <<Request, service, client, outcome, inner, exit, ending>>
      /\ UNCHANGED <<kind, adapter, frontend>> /\ front \in {"answered", "output"}
  BY DEF Measure, Deliver, SendFails, Request, Process
<1>a. /\ answer \in Replied /\ FitsKind(answer) /\ delivered = Silence /\ first.of # "request"
      /\ kind = "save" /\ (MayExist \/ MayHappen) => Safe(answer)
      /\ client # "exchanging" /\ (adapter = "embedded" => service = "over")
  BY <1>k, <1>u DEF FrontSettled, Settled, DeliveredFollows, FirstFollows
<1>1. CASE Measure
  <2>1. /\ frontend = "mcp" /\ front' = "output" /\ UNCHANGED <<delivered, first>>
        /\ answer' \in Sized(answer)
    BY <1>1 DEF Measure, Process
  <2>2. answer' \in Replied /\ FitsKind(answer') /\ (Safe(answer) => Safe(answer'))
    BY <1>a, <2>1, SizedKeeps
  <2>3. Settled(answer)'
    BY <1>a, <1>u, <2>2 DEF Settled, FitsKind, MayExist, MayHappen
  <2>4. FrontSettled'
    BY <1>a, <1>u, <2>1, <2>3 DEF FrontSettled
  <2>5. RequestKnown' /\ ServiceSettled'
    BY <1>k, <1>u DEF RequestKnown, ServiceSettled, FitsKind, MayExist
  <2>6. RepliesTyped' /\ DeliveredFollows' /\ FirstFollows'
    BY <1>a, <1>k, <1>u, <2>1, <2>2 DEF RepliesTyped, DeliveredFollows, FirstFollows, Replied
  <2> QED BY <2>4, <2>5, <2>6 DEF RepliesInvariant
<1>2. CASE Deliver
  <2>1. /\ delivered' \in {answer, Silence} /\ front' = "done" /\ UNCHANGED <<answer, first>>
        /\ front = "output"
    BY <1>2 DEF Deliver, Process
  <2>2. RequestKnown' /\ ServiceSettled' /\ FrontSettled' /\ Remainders(answer)' = Remainders(answer)
    BY <1>u, <2>1, AnsweredStays
  <2>3. frontend = "mcp"
    BY <1>k, <2>1 DEF RequestKnown, DeliveredFollows, FrontSettled
  <2>4. RepliesTyped' /\ DeliveredFollows' /\ FirstFollows'
    BY <1>a, <1>k, <1>u, <2>1, <2>2, <2>3 DEF RepliesTyped, DeliveredFollows, FirstFollows, Replied
  <2> QED BY <2>2, <2>4 DEF RepliesInvariant
<1>3. CASE SendFails
  <2>1. /\ front' = "done" /\ UNCHANGED <<answer, delivered>> /\ front = "output"
    BY <1>3 DEF SendFails
  <2>2. RequestKnown' /\ ServiceSettled' /\ FrontSettled' /\ Remainders(answer)' = Remainders(answer)
    BY <1>u, <2>1, AnsweredStays
  <2>3. frontend = "mcp"
    BY <1>k, <2>1 DEF RequestKnown, DeliveredFollows, FrontSettled
  <2>4. PICK b \in Remainders(answer) : RecordFailure("request", b)
    BY <1>3 DEF SendFails, Remainders
  <2>5. b \in Errors
    BY <1>a, OutputFailureKeeps
  <2>6. \/ first' = first
        \/ first'.of = "request" /\ first'.error = b /\ exit = 99
    BY <2>4 DEF RecordFailure
  <2>7. FirstFollows'
    BY <1>a, <1>k, <1>u, <2>1, <2>2, <2>3, <2>6 DEF FirstFollows
  <2>8. RepliesTyped' /\ DeliveredFollows'
    BY <1>a, <1>k, <1>u, <2>1, <2>2, <2>3, <2>5, <2>6 DEF RepliesTyped, DeliveredFollows
  <2> QED BY <2>2, <2>7, <2>8 DEF RepliesInvariant
<1> QED BY <1>1, <1>2, <1>3

(* The server fails elsewhere, or ends: this answer stays what it is. *)
LEMMA EndKeeps ==
    ASSUME RepliesInvariant, SessionFails \/ SignalEnds \/ LifetimeEnds \/ SessionOver
    PROVE  RepliesInvariant'
<1>k. /\ RepliesTyped /\ RequestKnown /\ ServiceSettled /\ FrontSettled /\ DeliveredFollows /\ FirstFollows
  BY DEF RepliesInvariant
<1>u. /\ UNCHANGED <<Request, service, client, front, outcome, inner, answer, delivered>>
      /\ UNCHANGED <<kind, adapter, frontend>> /\ frontend = "mcp"
  BY DEF SessionFails, SignalEnds, LifetimeEnds, SessionOver, ProcessEnds, Request
<1>1. RequestKnown' /\ ServiceSettled' /\ FrontSettled'
  BY <1>k, <1>u DEF RequestKnown, ServiceSettled, FrontSettled, Settled, FitsKind, MayExist, MayHappen
<1>2. Remainders(answer)' = Remainders(answer)
  BY <1>u DEF Remainders
<1>3. DeliveredFollows'
  BY <1>k, <1>u, <1>2 DEF DeliveredFollows, RequestKnown
<1>4. CASE SessionFails
  <2>1. UNCHANGED <<exit, ending>>
    BY <1>4 DEF SessionFails
  <2>2. PICK error \in SessionFailures : RecordFailure("session", error)
    BY <1>4 DEF SessionFails
  <2>3. error \in Errors
    BY ErrorFields DEF SessionFailures, Codes
  <2>4. \/ first' = first
        \/ first'.of = "session" /\ first'.error = error /\ exit = 99
    BY <2>2 DEF RecordFailure
  <2>5. FirstFollows'
    BY <1>k, <1>u, <1>2, <2>1, <2>4 DEF FirstFollows
  <2>6. RepliesTyped'
    BY <1>k, <1>u, <2>1, <2>3, <2>4 DEF RepliesTyped
  <2> QED BY <1>1, <1>3, <2>5, <2>6 DEF RepliesInvariant
<1>5. CASE SignalEnds \/ LifetimeEnds \/ SessionOver
  <2>1. first' = first /\ ending' \in {"signal", "lifetime", "session"}
    BY <1>5 DEF SignalEnds, LifetimeEnds, SessionOver, ProcessEnds
  <2>2. /\ ExitCode(Failure("cancelled")) = 130 /\ ExitCode(Failure("timeout")) = 5
        /\ ExitCode(Failure("other")) = 8
    BY ErrorFields DEF Codes, ExitCode, Uncertain
  <2>3. first.of # "nobody" => ExitCode(first.error) \in {0, 5, 7, 8, 130}
    BY <1>k, ExitTellsSays DEF RepliesTyped, Replied, ExitCode, Silence
  <2>4. /\ exit' \in {0, 5, 7, 8, 130}
        /\ ending' # "signal" /\ first.of # "nobody" => exit' = ExitCode(first.error)
    BY <1>5, <2>2, <2>3 DEF SignalEnds, LifetimeEnds, SessionOver, ProcessEnds, ReportedExit
  <2>5. FirstFollows'
    BY <1>k, <1>u, <1>2, <2>1, <2>4 DEF FirstFollows
  <2>6. RepliesTyped'
    BY <1>k, <1>u, <2>1, <2>4 DEF RepliesTyped
  <2> QED BY <1>1, <1>3, <2>5, <2>6 DEF RepliesInvariant
<1> QED BY <1>4, <1>5

LEMMA RepliesStutter ==
    ASSUME RepliesInvariant, UNCHANGED repliesVars
    PROVE  RepliesInvariant'
<1>1. RepliesTyped' /\ RequestKnown' /\ ServiceSettled'
  BY DEF RepliesInvariant, repliesVars, RepliesTyped, RequestKnown, ServiceSettled, FitsKind, MayExist
<1>2. FrontSettled'
  BY DEF RepliesInvariant, repliesVars, FrontSettled, Settled, FitsKind, MayExist, MayHappen
<1>3. DeliveredFollows' /\ FirstFollows'
  BY DEF RepliesInvariant, repliesVars, DeliveredFollows, FirstFollows, Remainders
<1> QED BY <1>1, <1>2, <1>3 DEF RepliesInvariant

(* The invariant says what is promised. *)
LEMMA InvariantIsTruthful == RepliesInvariant => RepliesTruthful
<1> SUFFICES ASSUME RepliesInvariant PROVE RepliesTruthful
  OBVIOUS
<1>1. front = "done" => Settled(answer)
  BY DEF RepliesInvariant, FrontSettled
<1>2. MayExist => kind = "save"
  BY DEF RepliesInvariant, RequestKnown, MayExist
<1>3. \A b \in Remainders(answer) : front = "done" =>
          /\ b \in Replied /\ FitsKind(b) /\ (Safe(answer) => Says(b) /\ Safe(b))
          /\ frontend = "cli" => (Says(b) => b.named)
  BY <1>1, OutputFailureKeeps DEF RepliesInvariant, FrontSettled, Settled
<1>4. delivered # Silence =>
          /\ front = "done" /\ delivered \in Replied /\ FitsKind(delivered)
          /\ Safe(answer) => Safe(delivered)
          /\ frontend = "cli" => (Says(delivered) => delivered.named)
  BY <1>1, <1>3 DEF RepliesInvariant, FrontSettled, Settled, DeliveredFollows
<1>5. NeverInvitesAnother
  BY <1>1, <1>2, <1>4 DEF NeverInvitesAnother, Settled, Safe, Says
<1>6. ExitTells
  <2>1. ASSUME frontend = "cli", front = "done", delivered = Silence, MayExist PROVE exit = 7
    <3>1. PICK b \in Remainders(answer) : exit = ExitCode(b)
      BY <2>1 DEF RepliesInvariant, DeliveredFollows
    <3>2. b \in Replied /\ Says(b)
      BY <1>1, <1>2, <1>3, <2>1 DEF Settled
    <3> QED BY <3>1, <3>2, ExitTellsSays
  <2>2. ASSUME first.of = "request", ending \in {"lifetime", "session"}, MayExist PROVE exit = 7
    <3>1. front = "done" /\ first.error \in Remainders(answer) /\ exit = ExitCode(first.error)
      BY <2>2 DEF RepliesInvariant, FirstFollows
    <3>2. first.error \in Replied /\ Says(first.error)
      BY <1>1, <1>2, <1>3, <2>2, <3>1 DEF Settled
    <3> QED BY <3>1, <3>2, ExitTellsSays
  <2> QED BY <2>1, <2>2 DEF ExitTells
<1>7. CommandNamesDraft
  BY <1>4, AnswerFields DEF CommandNamesDraft, Says
<1>8. ReadsAreCertain
  <2> SUFFICES ASSUME kind = "read" PROVE
          /\ delivered.type = "error" => delivered.code \notin Uncertain
          /\ first.of = "request" /\ first.error.type = "error" => first.error.code \notin Uncertain
          /\ frontend = "cli" => exit # 7
    BY DEF ReadsAreCertain
  <2>1. delivered.type = "error" => delivered.code \notin Uncertain
    BY <1>4, AnswerFields DEF Says, FitsKind
  <2>2. first.of = "request" /\ first.error.type = "error" => first.error.code \notin Uncertain
    BY <1>3 DEF RepliesInvariant, FirstFollows, Says, FitsKind
  <2>3. frontend = "cli" => exit # 7
    <3> SUFFICES ASSUME frontend = "cli" PROVE exit # 7
      OBVIOUS
    <3>1. CASE front # "done"
      BY <3>1 DEF RepliesInvariant, DeliveredFollows
    <3>2. CASE front = "done" /\ delivered # Silence
      BY <1>4, <3>2, ExitTellsSays DEF RepliesInvariant, DeliveredFollows, FitsKind
    <3>3. CASE front = "done" /\ delivered = Silence
      <4>1. PICK b \in Remainders(answer) : exit = ExitCode(b)
        BY <3>3 DEF RepliesInvariant, DeliveredFollows
      <4> QED BY <1>3, <3>3, <4>1, ExitTellsSays DEF FitsKind
    <3> QED BY <3>1, <3>2, <3>3
  <2> QED BY <2>1, <2>2, <2>3
<1> QED BY <1>5, <1>6, <1>7, <1>8 DEF RepliesTruthful, RepliesInvariant

(* service.rs, isolation.rs, frontends.rs, mcp.rs, mcp_transport.rs: for every
   request, through every layer that may be lost, interrupted or too small, nobody
   who is told anything and may have a draft is invited to make another; where the
   output fails, the exit code of a command, and of an MCP server whose first
   failure this was and which no signal ended, tells it; a command that reports an
   uncertain draft names it; and a read is never one. *)
THEOREM RepliesStayTruthful == RepliesSpec => []RepliesTruthful
<1>1. RepliesInvariant /\ [RepliesNext]_repliesVars => RepliesInvariant'
  BY ServiceKeeps, FrontWaitKeeps, ReportKeeps, SendKeeps, EndKeeps, RepliesStutter DEF RepliesNext
<1> QED BY <1>1, RepliesAtInit, InvariantIsTruthful, PTL DEF RepliesSpec
=============================================================================
