---------------------------- MODULE McpTransport ----------------------------
(***************************************************************************)
(* The admission limits around the MCP SDK's STDIO transport               *)
(* (BoundedStdio in src/frontends/mcp_transport.rs).  The SDK polls        *)
(* receive() for the next message and drops the future whenever something  *)
(* else is ready, so everything receive() has begun is kept in the         *)
(* transport itself: the decoded message (staged), the one request that    *)
(* waits for a slot (deferred) and the overload answer being written       *)
(* (rejected).  A step is what receive() does between two awaits, or a     *)
(* step of a handler, of an output, of the client or of the clock.         *)
(*                                                                         *)
(* Clocks are counted down: an Instant is the time left until it.          *)
(***************************************************************************)
EXTENDS Integers, FiniteSets

CONSTANTS
    Ids,        \* JSON-RPC ids the client uses; an answered one may come again
    Requests,   \* Bounds.requests
    Deadline,   \* Bounds.deadline
    None

VARIABLES
    free,         \* permits of the slots semaphore
    controlFree,  \* permits of the control semaphore
    pending,      \* the request map: what the handler of each id does, or None
    cancelled,    \* ids whose RequestCancellation is cancelled
    staged,       \* the decoded message that holds the control permit
    deferred,     \* the request that waits for a slot: [id, left]
    rejected,     \* the id whose overload answer is being written
    notifying,    \* an SDK notification handler that holds the control permit
    initializing,
    receiveLeft,  \* time until receive_expires
    shutdown,     \* the session's CancellationToken
    failure,      \* the OnceLock
    closed,       \* receive() returned None, or the transport was closed
    unanswered    \* history: ids the client sent and neither cancelled nor saw answered

vars == <<free, controlFree, pending, cancelled, staged, deferred, rejected, notifying,
          initializing, receiveLeft, shutdown, failure, closed, unanswered>>

Item == [kind : {"initialize", "ping", "call", "cancel"}, id : Ids]
            \cup [kind : {"notification", "other"}]
RequestKinds == {"initialize", "ping", "call"}
Waiting == [id : Ids, left : 0..Deadline]
Progress == {"handling", "sending", "dropping", "oversized"}

McpTransportAssumption ==
    /\ Requests \in Nat \ {0}
    /\ Deadline \in Nat \ {0}
    /\ None \notin Ids /\ None \notin Item /\ None \notin Waiting /\ None \notin Progress

TypeOK ==
    /\ free \in 0..Requests
    /\ controlFree \in 0..1
    /\ pending \in [Ids -> Progress \cup {None}]
    /\ cancelled \subseteq Ids
    /\ staged \in Item \cup {None}
    /\ deferred \in Waiting \cup {None}
    /\ rejected \in Ids \cup {None}
    /\ notifying \in BOOLEAN
    /\ initializing \in BOOLEAN
    /\ receiveLeft \in 0..Deadline
    /\ shutdown \in BOOLEAN
    /\ failure \in {None, "frame", "too_large", "timeout", "write"}
    /\ closed \in BOOLEAN
    /\ unanswered \subseteq Ids

Init ==
    /\ free = Requests
    /\ controlFree = 1
    /\ pending = [i \in Ids |-> None]
    /\ cancelled = {}
    /\ staged = None
    /\ deferred = None
    /\ rejected = None
    /\ notifying = FALSE
    /\ initializing = TRUE
    /\ receiveLeft = Deadline
    /\ shutdown = FALSE
    /\ failure = None
    /\ closed = FALSE
    /\ unanswered = {}

Pending == {i \in Ids : pending[i] # None}
StagedRequest == staged # None /\ staged.kind \in RequestKinds

(* receive() returns None: the SDK stops receiving. *)
Closing ==
    /\ closed' = TRUE
    /\ UNCHANGED <<free, controlFree, pending, cancelled, staged, deferred, rejected,
                   notifying, initializing, receiveLeft, shutdown, failure, unanswered>>

(* record_output_failure *)
Recorded(kind) ==
    /\ failure' = IF failure = None THEN kind ELSE failure
    /\ shutdown' = TRUE

(* receive_deadline *)
ReceiveDeadline ==
    IF deferred # None /\ deferred.left < receiveLeft THEN deferred.left ELSE receiveLeft

-----------------------------------------------------------------------------
(* receive(): a rejection that was begun is finished first. *)
FinishRejection ==
    /\ ~closed /\ rejected # None
    /\ rejected' = None
    /\ controlFree' = controlFree + 1
    /\ unanswered' = unanswered \ {rejected}
    /\ UNCHANGED <<free, pending, cancelled, staged, deferred, notifying, initializing,
                   receiveLeft, shutdown, failure, closed>>

(* The write of the rejection fails, or is not done in time.  It stays where it
   is: close() drops it. *)
RejectionLost(why) ==
    /\ ~closed /\ rejected # None
    /\ Recorded(why)
    /\ closed' = TRUE
    /\ UNCHANGED <<free, controlFree, pending, cancelled, staged, deferred, rejected,
                   notifying, initializing, receiveLeft, unanswered>>
RejectionFailed == RejectionLost("write")
RejectionTimeout == ReceiveDeadline = 0 /\ RejectionLost("timeout")

DeferredExpired == deferred # None /\ deferred.left = 0

(* receive() past the rejection and past the deadline of the waiting request *)
Receiving == ~closed /\ rejected = None /\ ~DeferredExpired

GiveUpWaiting == ~closed /\ rejected = None /\ DeferredExpired /\ Closing

(* admit_request: an id that is there already ends the session. *)
Admitted(id) ==
    IF pending[id] = None
    THEN /\ free' = free - 1
         /\ pending' = [pending EXCEPT ![id] = "handling"]
         /\ UNCHANGED closed
    ELSE /\ closed' = TRUE
         /\ UNCHANGED <<free, pending>>

(* A slot is free: the waiting request is admitted, before a fresh request that
   was decoded in the meantime, but not before a decoded notification, which may
   cancel it. *)
AdmitDeferred ==
    /\ Receiving
    /\ deferred # None /\ free > 0
    /\ staged = None \/ StagedRequest
    /\ deferred' = None
    /\ Admitted(deferred.id)
    /\ UNCHANGED <<controlFree, cancelled, staged, rejected, notifying, initializing,
                   receiveLeft, shutdown, failure, unanswered>>

(* sdk.receive(), with the control permit: the client may send anything. *)
Decode(item) ==
    /\ Receiving
    /\ staged = None /\ controlFree = 1
    /\ ~(deferred # None /\ free > 0)
    /\ staged' = item
    /\ controlFree' = 0
    /\ receiveLeft' = Deadline
    /\ unanswered' = IF item.kind \in RequestKinds THEN unanswered \cup {item.id}
                     ELSE IF item.kind = "cancel" THEN unanswered \ {item.id}
                     ELSE unanswered
    /\ UNCHANGED <<free, pending, cancelled, deferred, rejected, notifying, initializing,
                   shutdown, failure, closed>>

(* Mutant: only a waiting request bounds the wait for the control permit. *)
ControlTimeoutDeferred ==
    /\ Receiving
    /\ staged = None /\ controlFree = 0 /\ deferred # None /\ deferred.left = 0
    /\ Closing

(* The control permit is not free in time. *)
ControlTimeout ==
    /\ Receiving
    /\ staged = None /\ controlFree = 0 /\ ReceiveDeadline = 0
    /\ Closing

Unstaged == staged' = None /\ controlFree' = controlFree + 1

(* A cancellation of an admitted request stays with the transport: the request
   keeps its slot until its handler and its output are done. *)
CancelPending ==
    /\ Receiving
    /\ staged # None /\ staged.kind = "cancel" /\ pending[staged.id] # None
    /\ cancelled' = cancelled \cup {staged.id}
    /\ Unstaged
    /\ UNCHANGED <<free, pending, deferred, rejected, notifying, initializing, receiveLeft,
                   shutdown, failure, closed, unanswered>>

(* Mutant: any cancellation ends the wait. *)
CancelWaiting ==
    /\ Receiving
    /\ staged # None /\ staged.kind = "cancel" /\ pending[staged.id] = None
    /\ deferred # None
    /\ deferred' = None
    /\ Unstaged
    /\ UNCHANGED <<free, pending, cancelled, rejected, notifying, initializing, receiveLeft,
                   shutdown, failure, closed, unanswered>>

(* A waiting request that is cancelled never reaches a handler. *)
CancelDeferred ==
    /\ Receiving
    /\ staged # None /\ staged.kind = "cancel" /\ pending[staged.id] = None
    /\ deferred # None /\ deferred.id = staged.id
    /\ deferred' = None
    /\ Unstaged
    /\ UNCHANGED <<free, pending, cancelled, rejected, notifying, initializing, receiveLeft,
                   shutdown, failure, closed, unanswered>>

Known(id) == id \in Pending \/ (deferred # None /\ deferred.id = id)

(* The decoded request is looked at: the waiting one was not admitted first. *)
RequestTurn == Receiving /\ StagedRequest /\ ~(deferred # None /\ free > 0)

TooEarly == initializing /\ staged.kind = "call"
Initialized == initializing' = (initializing /\ staged.kind # "initialize")

(* Anything but the handshake before it, or an id that is in use: the session ends. *)
Refuse ==
    /\ RequestTurn
    /\ TooEarly \/ Known(staged.id)
    /\ Closing

Admit ==
    /\ RequestTurn /\ ~TooEarly /\ ~Known(staged.id)
    /\ deferred = None /\ free > 0
    /\ Admitted(staged.id) /\ Initialized /\ Unstaged
    /\ UNCHANGED <<cancelled, deferred, rejected, notifying, receiveLeft, shutdown, failure,
                   unanswered>>

Defer ==
    /\ RequestTurn /\ ~TooEarly /\ ~Known(staged.id)
    /\ deferred = None /\ free = 0
    /\ deferred' = [id |-> staged.id, left |-> receiveLeft]
    /\ Initialized /\ Unstaged
    /\ UNCHANGED <<free, pending, cancelled, rejected, notifying, receiveLeft, shutdown,
                   failure, closed, unanswered>>

(* One request waits already: the control permit goes to the overload answer. *)
Reject ==
    /\ RequestTurn /\ ~TooEarly /\ ~Known(staged.id)
    /\ deferred # None /\ free = 0
    /\ rejected' = staged.id
    /\ staged' = None
    /\ Initialized
    /\ UNCHANGED <<free, controlFree, pending, cancelled, deferred, notifying, receiveLeft,
                   shutdown, failure, closed, unanswered>>

(* Everything else goes to the SDK; a notification keeps the control permit until
   its handler returns. *)
Notify ==
    /\ Receiving
    /\ staged # None
    /\ \/ staged.kind = "notification"
       \/ staged.kind = "cancel" /\ ~Known(staged.id)
    /\ staged' = None
    /\ notifying' = TRUE
    /\ UNCHANGED <<free, controlFree, pending, cancelled, deferred, rejected, initializing,
                   receiveLeft, shutdown, failure, closed, unanswered>>

PassOn ==
    /\ Receiving
    /\ staged # None /\ staged.kind = "other"
    /\ Unstaged
    /\ UNCHANGED <<free, pending, cancelled, deferred, rejected, notifying, initializing,
                   receiveLeft, shutdown, failure, closed, unanswered>>

NotificationHandled ==
    /\ notifying
    /\ notifying' = FALSE
    /\ controlFree' = controlFree + 1
    /\ UNCHANGED <<free, pending, cancelled, staged, deferred, rejected, initializing,
                   receiveLeft, shutdown, failure, closed, unanswered>>

-----------------------------------------------------------------------------
(* Mutant: the answer is written whether or not its request was cancelled. *)
AnswerAlways(id) ==
    /\ pending[id] = "handling"
    /\ pending' = [pending EXCEPT ![id] = "sending"]
    /\ UNCHANGED <<free, controlFree, cancelled, staged, deferred, rejected, notifying,
                   initializing, receiveLeft, shutdown, failure, closed, unanswered>>

(* send(): the answer of a cancelled request is dropped, one that is too large
   is never written. *)
Answer(id) ==
    /\ pending[id] = "handling"
    /\ IF id \in cancelled
       THEN pending' = [pending EXCEPT ![id] = "dropping"]
       ELSE \/ pending' = [pending EXCEPT ![id] = "sending"]
            \/ pending' = [pending EXCEPT ![id] = "oversized"]
    /\ UNCHANGED <<free, controlFree, cancelled, staged, deferred, rejected, notifying,
                   initializing, receiveLeft, shutdown, failure, closed, unanswered>>

Removed(id) ==
    /\ pending' = [pending EXCEPT ![id] = None]
    /\ cancelled' = cancelled \ {id}
    /\ free' = free + 1

(* The future of send(): the output is done, or there was none to write. *)
AnswerDone(id) ==
    /\ pending[id] \in {"sending", "dropping"}
    /\ unanswered' = IF pending[id] = "sending" THEN unanswered \ {id} ELSE unanswered
    /\ Removed(id)
    /\ UNCHANGED <<controlFree, staged, deferred, rejected, notifying, initializing,
                   receiveLeft, shutdown, failure, closed>>

(* The write fails: the slot is free again, and the session is shut down. *)
AnswerFailed(id) ==
    /\ pending[id] = "sending"
    /\ Removed(id)
    /\ Recorded("write")
    /\ UNCHANGED <<controlFree, staged, deferred, rejected, notifying, initializing,
                   receiveLeft, closed, unanswered>>

(* It takes too long, or was never begun: the entry stays, and with it the slot. *)
AnswerLost(id) ==
    /\ \/ pending[id] = "sending" /\ Recorded("timeout")
       \/ pending[id] = "oversized" /\ Recorded("too_large")
    /\ UNCHANGED <<free, controlFree, pending, cancelled, staged, deferred, rejected,
                   notifying, initializing, receiveLeft, closed, unanswered>>

(* The ingress task ends: end of input, a frame out of bounds or too late.  Its
   guard cancels the session's work whatever the reason was. *)
IngressEnds ==
    /\ ~shutdown
    /\ shutdown' = TRUE
    /\ failure' \in IF failure = None THEN {None, "frame"} ELSE {failure}
    /\ UNCHANGED <<free, controlFree, pending, cancelled, staged, deferred, rejected,
                   notifying, initializing, receiveLeft, closed, unanswered>>

(* Once the input has ended, sdk.receive() has nothing left to decode; the session
   ends too when the shutdown is seen, with close(), which drops the rejection. *)
Close ==
    /\ shutdown /\ ~closed
    /\ closed' = TRUE
    /\ rejected' = None
    /\ controlFree' = controlFree + (IF rejected = None THEN 0 ELSE 1)
    /\ UNCHANGED <<free, pending, cancelled, staged, deferred, notifying, initializing,
                   receiveLeft, shutdown, failure, unanswered>>

Tick ==
    /\ receiveLeft > 0 \/ (deferred # None /\ deferred.left > 0)
    /\ receiveLeft' = IF receiveLeft > 0 THEN receiveLeft - 1 ELSE 0
    /\ deferred' = IF deferred = None THEN None
                   ELSE [deferred EXCEPT !.left = IF @ > 0 THEN @ - 1 ELSE 0]
    /\ UNCHANGED <<free, controlFree, pending, cancelled, staged, rejected, notifying,
                   initializing, shutdown, failure, closed, unanswered>>

(* What receive() does whenever the SDK polls it. *)
Receive ==
    \/ GiveUpWaiting \/ AdmitDeferred \/ ControlTimeout
    \/ CancelPending \/ CancelDeferred
    \/ Refuse \/ Admit \/ Defer \/ Reject \/ Notify \/ PassOn

Next ==
    \/ Receive
    \/ FinishRejection \/ RejectionFailed \/ RejectionTimeout
    \/ \E item \in Item : Decode(item)
    \/ NotificationHandled
    \/ \E id \in Ids : Answer(id) \/ AnswerDone(id) \/ AnswerFailed(id) \/ AnswerLost(id)
    \/ IngressEnds \/ Close \/ Tick

(* Time passes, the SDK polls receive() and finds the time-outs, and close() runs.
   Handlers, the client and its reading of the output are not relied on. *)
Fairness ==
    /\ WF_vars(Receive)
    /\ WF_vars(RejectionTimeout)
    /\ WF_vars(Close)
    /\ WF_vars(Tick)

Spec == Init /\ [][Next]_vars
FairSpec == Spec /\ Fairness

-----------------------------------------------------------------------------
(* Every slot that is taken is an entry of the request map, and the one control
   permit has one owner: a message, a rejection or a notification handler. *)
PermitsOwned ==
    /\ free + Cardinality(Pending) = Requests
    /\ controlFree + (IF staged # None THEN 1 ELSE 0) + (IF rejected # None THEN 1 ELSE 0)
         + (IF notifying THEN 1 ELSE 0) = 1

(* "Never correlate an overload response with an admitted or waiting ID": an id
   is at one place only, so admit_request never finds it taken. *)
OnePlace ==
    /\ deferred # None => deferred.id \notin Pending
    /\ rejected # None => rejected \notin Pending /\ (deferred # None => deferred.id # rejected)

(* No request is forgotten: while the session lives, an id the client waits for
   is staged, deferred, being rejected, in the request map, or its answer failed
   and shut the session down. *)
NoneForgotten ==
    closed \/ shutdown \/
    \A id \in unanswered :
        \/ staged # None /\ staged.kind \in RequestKinds /\ staged.id = id
        \/ id \in Pending
        \/ deferred # None /\ deferred.id = id
        \/ rejected = id

(* receive() as a whole: what was taken from the client is somewhere, once. *)
RequestsKept == TypeOK /\ PermitsOwned /\ OnePlace /\ NoneForgotten

(* "keep older waiting work ahead of fresh requests": while a request waits, no
   other one is admitted. *)
InOrder ==
    \A id \in Ids : (pending[id] = None /\ pending'[id] # None /\ deferred # None)
        => deferred.id = id

(* "cancellation's no-response behavior": nothing is written for a request that
   was cancelled before its answer was begun. *)
CancelledIsSilent ==
    \A id \in cancelled : pending[id] = "handling" =>
        pending'[id] \in {"handling", "dropping"}

(* What receive() and send() may do in a step. *)
TransportSteps == [][InOrder /\ CancelledIsSilent]_vars

(* Nothing waits for ever, whatever handlers, client and output do: a request that
   waits for a slot, a rejection that cannot be written and a notification handler
   that keeps the control permit end, or the session does. *)
NothingHangs ==
    /\ (deferred # None) ~> (deferred = None \/ closed)
    /\ (rejected # None) ~> (rejected = None \/ closed)
    /\ notifying ~> (~notifying \/ closed)
=============================================================================
