----------------------------- MODULE Transfers ------------------------------
(***************************************************************************)
(* Attachment transfers (src/service/attachments/transfers.rs) and the     *)
(* requests that use them (get_attachment in src/service/attachments.rs).  *)
(* A transfer is a slot that counts against its account.  Between requests *)
(* the slot holds the reader (it is idle); a request checks the reader out *)
(* and puts it back, with the offset of the next chunk, or the transfer is *)
(* over.  Idle slots are closed by expiry tasks, one per executor, and by  *)
(* every request that looks at the slots.                                  *)
(*                                                                         *)
(* A step is one critical section of the slots' mutex, one poll of an      *)
(* expiry task, or a request giving up.  Any token that was ever issued    *)
(* may be sent again at any time.                                          *)
(***************************************************************************)
EXTENDS Integers, FiniteSets

CONSTANTS
    Calls,          \* concurrent get_attachment requests
    Ids,            \* bound: transfers ever begun (their UUIDs)
    Sessions,       \* sessions of request contexts
    Accounts,
    Scopes,         \* fingerprints of what a context may do
    Quota,          \* limits.transfers_per_account, per session's grant
    Duration,       \* limits.transfer_seconds
    Size,           \* decoded bytes of the attachment
    Chunk,          \* limits.attachment_chunk_bytes
    Runtimes,       \* executors
    RuntimeOf,      \* the executor a request runs on
    MaxNow,         \* bound: time
    None

VARIABLES
    slots,        \* Slots.entries
    idle,         \* Slots.idle
    nextExpiry,   \* Slots.next_expiry
    hasIdle,      \* Store.has_idle
    pc,           \* where each request stands
    at,           \* the slot of its Reservation
    held,         \* the Entry it checked out
    asked,        \* the offset its caller asked for
    tokens,       \* continuation tokens issued
    closed,       \* sessions whose last context is gone
    begun,        \* transfers begun
    received,     \* history: bytes of each transfer its caller has received
    tasks,        \* the expiry task of each executor
    alarm,        \* what it sleeps for
    told,         \* executors whose sleeping task was notified
    now

slotVars == <<slots, idle, nextExpiry, hasIdle>>
callVars == <<pc, at, held, asked>>
taskVars == <<tasks, alarm, told>>
vars == <<slotVars, callVars, tokens, closed, begun, received, taskVars, now>>

Entry == [scope : Scopes, offset : 0..Size]
Slot == [session : Sessions, account : Accounts, expires : Nat, entry : Entry \cup {None}]
Token == [session : Sessions, id : Ids, offset : 0..Size]

TransfersAssumption ==
    /\ Quota \in [Sessions -> Nat]
    /\ Duration \in Nat \ {0}
    /\ Size \in Nat \ {0}
    /\ Chunk \in Nat \ {0}
    /\ RuntimeOf \in [Calls -> Runtimes]
    /\ MaxNow \in Nat
    /\ IsFiniteSet(Ids)
    /\ \E s \in Sessions : \A t \in Sessions : Quota[t] <= Quota[s]
    /\ None \notin Ids \cup Entry \cup Slot /\ None \notin Nat

Idle(s) == {i \in Ids : s[i] # None /\ s[i].entry # None}
Earliest(s) ==
    IF Idle(s) = {} THEN None
    ELSE LET times == {s[i].expires : i \in Idle(s)}
         IN  CHOOSE t \in times : \A u \in times : t <= u

Init ==
    /\ slots = [i \in Ids |-> None]
    /\ idle = 0
    /\ nextExpiry = None
    /\ hasIdle = FALSE
    /\ pc = [c \in Calls |-> "outside"]
    /\ at = [c \in Calls |-> None]
    /\ held = [c \in Calls |-> None]
    /\ asked = [c \in Calls |-> 0]
    /\ tokens = {}
    /\ closed = {}
    /\ begun = {}
    /\ received = [i \in Ids |-> 0]
    /\ tasks = [r \in Runtimes |-> "none"]
    /\ alarm = [r \in Runtimes |-> None]
    /\ told = {}
    /\ now = 0

-----------------------------------------------------------------------------
(* Slots as a value: [slots, idle, next]. *)
Store == [slots |-> slots, idle |-> idle, next |-> nextExpiry]

Installed(s) ==
    /\ slots' = s.slots
    /\ idle' = s.idle
    /\ nextExpiry' = s.next
    /\ hasIdle' = (s.idle > 0)

(* expire_due: nothing before the known bound; then every idle slot that is due
   goes and the bound is taken anew.  Active reads keep their slot. *)
ExpireDue(s) ==
    IF s.next = None \/ (s.next # None /\ s.next > now) THEN s
    ELSE LET due == {i \in Idle(s.slots) : s.slots[i].expires <= now}
             kept == [i \in Ids |-> IF i \in due THEN None ELSE s.slots[i]]
         IN  [slots |-> kept, idle |-> Cardinality(Idle(kept)), next |-> Earliest(kept)]

(* CleanupTasks::start *)
Started(r) == IF tasks[r] = "none" THEN [tasks EXCEPT ![r] = "scanning"] ELSE tasks

(* restart_expiry, which every request passes: an executor that comes after the
   one that kept the timer takes over. *)
Restarted(r) == IF hasIdle THEN Started(r) ELSE tasks

Asleep == {r \in Runtimes : tasks[r] = "asleep"}

-----------------------------------------------------------------------------
Count(s, a) == Cardinality({i \in Ids : s.slots[i] # None /\ s.slots[i].account = a})

(* GetAttachmentInput::Start: a slot is reserved before the backend is asked. *)
Reserve(c) ==
    /\ pc[c] = "outside"
    /\ \E s \in Sessions \ closed, a \in Accounts, scope \in Scopes :
       \E i \in Ids \ begun :
          LET live == ExpireDue(Store) IN
          /\ Count(live, a) < Quota[s]
          /\ Installed([live EXCEPT !.slots[i] =
                 [session |-> s, account |-> a, expires |-> now + Duration, entry |-> None]])
          /\ held' = [held EXCEPT ![c] = [scope |-> scope, offset |-> 0]]
          /\ at' = [at EXCEPT ![c] = i]
          /\ begun' = begun \cup {i}
    /\ asked' = [asked EXCEPT ![c] = 0]
    /\ pc' = [pc EXCEPT ![c] = "reading"]
    /\ tasks' = Restarted(RuntimeOf[c])
    /\ UNCHANGED <<tokens, closed, received, alarm, told, now>>

(* Mutant: the offset of the token is not compared. *)
CheckoutAnyOffset(s, t, scope) ==
    /\ s.slots[t.id] # None
    /\ s.slots[t.id].session = t.session
    /\ s.slots[t.id].entry # None
    /\ s.slots[t.id].entry.scope = scope

(* What checkout asks of a slot. *)
CanCheckout(s, t, scope) ==
    /\ s.slots[t.id] # None
    /\ s.slots[t.id].session = t.session
    /\ s.slots[t.id].entry # None
    /\ s.slots[t.id].entry.scope = scope
    /\ s.slots[t.id].entry.offset = t.offset

(* GetAttachmentInput::Continue: the reader is taken out of its slot, or the
   request ends and has only expired what was due. *)
Checkout(c) ==
    /\ pc[c] = "outside"
    /\ \E t \in tokens, scope \in Scopes :
          LET live == ExpireDue(Store) IN
          /\ t.session \notin closed
          /\ IF CanCheckout(live, t, scope)
             THEN /\ Installed([live EXCEPT !.slots[t.id].entry = None, !.idle = @ - 1])
                  /\ held' = [held EXCEPT ![c] = live.slots[t.id].entry]
                  /\ at' = [at EXCEPT ![c] = t.id]
                  /\ asked' = [asked EXCEPT ![c] = t.offset]
                  /\ pc' = [pc EXCEPT ![c] = "reading"]
             ELSE Installed(live) /\ UNCHANGED callVars
    /\ tasks' = Restarted(RuntimeOf[c])
    /\ UNCHANGED <<tokens, closed, begun, received, alarm, told, now>>

Outside(c) ==
    /\ pc' = [pc EXCEPT ![c] = "outside"]
    /\ at' = [at EXCEPT ![c] = None]
    /\ held' = [held EXCEPT ![c] = None]
    /\ asked' = [asked EXCEPT ![c] = 0]

(* Reservation::drop of one that was not retained. *)
DropReservation(c) ==
    /\ slots' = [slots EXCEPT ![at[c]] = None]
    /\ UNCHANGED <<idle, nextExpiry, hasIdle>>

(* The read fails, the page does not fit or contradicts the reader, a deadline
   passes or the caller goes away: the transfer is over. *)
Fail(c) ==
    /\ pc[c] = "reading"
    /\ DropReservation(c)
    /\ Outside(c)
    /\ UNCHANGED <<tokens, closed, begun, received, taskVars, now>>

(* Mutant: the timer hears of a slot only if there was none. *)
RetainedNewsFirst(i) == nextExpiry = None

(* Reservation::retain: the bound that the expiry task may be sleeping for is
   not early enough for slot i. *)
RetainedNews(i) == nextExpiry = None \/ (nextExpiry # None /\ slots[i].expires < nextExpiry)

(* A page arrives in time.  The last one ends the transfer; any other puts the
   reader back under the next offset and hands out the token for it. *)
Deliver(c) ==
    /\ pc[c] = "reading"
    /\ now < slots[at[c]].expires
    /\ \E n \in 0..Chunk :
          LET i == at[c]
              next == held[c].offset + n
              complete == next = Size
          IN  /\ next <= Size
              /\ n > 0 \/ complete
              /\ received' = [received EXCEPT ![i] = next]
              /\ IF complete
                 THEN /\ DropReservation(c)
                      /\ UNCHANGED <<tokens, tasks, told>>
                 ELSE /\ slots' = [slots EXCEPT ![i].entry = [held[c] EXCEPT !.offset = next]]
                      /\ idle' = idle + 1
                      /\ nextExpiry' = IF RetainedNews(i) THEN slots[i].expires ELSE nextExpiry
                      /\ hasIdle' = TRUE
                      /\ tokens' = tokens \cup {[session |-> slots[i].session, id |-> i,
                                                 offset |-> next]}
                      /\ tasks' = Started(RuntimeOf[c])
                      /\ told' = IF RetainedNews(i) THEN told \cup Asleep ELSE told
    /\ Outside(c)
    /\ UNCHANGED <<closed, begun, alarm, now>>

(* Any other request on an executor passes restart_expiry too. *)
OtherRequest(r) ==
    /\ hasIdle
    /\ tasks[r] = "none"
    /\ tasks' = Started(r)
    /\ UNCHANGED <<slotVars, callVars, tokens, closed, begun, received, alarm, told, now>>

(* TransferSession::drop: no request of the session is under way any more. *)
CloseSession(s) ==
    /\ s \notin closed
    /\ \A c \in Calls : pc[c] = "reading" => slots[at[c]].session # s
    /\ LET kept == [i \in Ids |-> IF slots[i] # None /\ slots[i].session = s
                                  THEN None ELSE slots[i]]
       IN  Installed([slots |-> kept, idle |-> Cardinality(Idle(kept)),
                      next |-> Earliest(kept)])
    /\ closed' = closed \cup {s}
    /\ told' = told \cup Asleep
    /\ UNCHANGED <<callVars, tokens, begun, received, tasks, alarm, now>>

-----------------------------------------------------------------------------
(* A bound that belongs to slots that are checked out would keep a later retain
   from waking the task. *)
Scanned(s) == IF s.idle = 0 THEN [s EXCEPT !.next = None] ELSE s

(* One turn of expire_idle. *)
Scan(r) ==
    /\ tasks[r] = "scanning"
    /\ Installed(Scanned(ExpireDue(Store)))
    /\ alarm' = [alarm EXCEPT ![r] = nextExpiry']
    /\ tasks' = [tasks EXCEPT ![r] = "asleep"]
    /\ told' = told \ {r}
    /\ UNCHANGED <<callVars, tokens, closed, begun, received, now>>

WakeUp(r) ==
    /\ tasks[r] = "asleep"
    /\ r \in told \/ (alarm[r] # None /\ alarm[r] <= now)
    /\ tasks' = [tasks EXCEPT ![r] = "scanning"]
    /\ UNCHANGED <<slotVars, callVars, tokens, closed, begun, received, alarm, told, now>>

(* The executor shuts down with its task; the slots stay. *)
Shutdown(r) ==
    /\ tasks[r] # "gone"
    /\ tasks' = [tasks EXCEPT ![r] = "gone"]
    /\ told' = told \ {r}
    /\ alarm' = [alarm EXCEPT ![r] = None]
    /\ UNCHANGED <<slotVars, callVars, tokens, closed, begun, received, now>>

Tick ==
    /\ now < MaxNow
    /\ now' = now + 1
    /\ UNCHANGED <<slotVars, callVars, tokens, closed, begun, received, taskVars>>

Next ==
    \/ \E c \in Calls : Reserve(c) \/ Checkout(c) \/ Fail(c) \/ Deliver(c)
    \/ \E s \in Sessions : CloseSession(s)
    \/ \E r \in Runtimes : OtherRequest(r) \/ Scan(r) \/ WakeUp(r) \/ Shutdown(r)
    \/ Tick

Spec == Init /\ [][Next]_vars

(* Executors poll their expiry tasks. *)
FairSpec == Spec /\ \A r \in Runtimes : WF_vars(Scan(r) \/ WakeUp(r))

-----------------------------------------------------------------------------
TypeOK ==
    /\ slots \in [Ids -> Slot \cup {None}]
    /\ idle \in 0..Cardinality(Ids)
    /\ nextExpiry \in Nat \cup {None}
    /\ hasIdle \in BOOLEAN
    /\ pc \in [Calls -> {"outside", "reading"}]
    /\ at \in [Calls -> Ids \cup {None}]
    /\ held \in [Calls -> Entry \cup {None}]
    /\ asked \in [Calls -> 0..Size]
    /\ tokens \subseteq Token
    /\ closed \subseteq Sessions
    /\ begun \subseteq Ids
    /\ received \in [Ids -> 0..Size]
    /\ tasks \in [Runtimes -> {"none", "scanning", "asleep", "gone"}]
    /\ alarm \in [Runtimes -> Nat \cup {None}]
    /\ told \subseteq Runtimes
    /\ now \in 0..MaxNow

Active == {c \in Calls : pc[c] = "reading"}

(* A slot exists exactly as long as its reader is either in it or with one
   request: nothing that failed, expired or was closed keeps quota, and no
   two requests read from one transfer. *)
SlotsOwned ==
    /\ \A c, d \in Active : at[c] = at[d] => c = d
    /\ \A i \in Ids : slots[i] # None =>
           (slots[i].entry = None <=> \E c \in Active : at[c] = i)
    /\ \A c \in Active : slots[at[c]] # None

(* The shortcuts that save a look at every slot are never too late: the counter
   is exact, and the bound is at or before the first expiry. *)
BoundIsEarly ==
    /\ idle = Cardinality(Idle(slots))
    /\ hasIdle = (idle > 0)
    /\ \A i \in Idle(slots) : nextExpiry # None /\ nextExpiry <= slots[i].expires

(* Transfers of an account, reads in progress included, stay within the widest
   quota, however many requests begin at once. *)
WithinQuota ==
    \A a \in Accounts : \E s \in Sessions :
        \A t \in Sessions : Quota[t] <= Quota[s] /\ Count(Store, a) <= Quota[s]

(* The store as a whole: slots, shortcuts and quota agree with the transfers. *)
TransfersConsistent == TypeOK /\ SlotsOwned /\ BoundIsEarly /\ WithinQuota

(* The bytes of a transfer reach its caller in order, none twice and none left
   out: whatever tokens are repeated or sent at the same time, a chunk goes to
   the request that asked for the next one. *)
InOrder ==
    \A c \in Calls : pc[c] = "reading" /\ received'[at[c]] # received[at[c]] =>
        /\ asked[c] = received[at[c]]
        /\ held[c].offset = received[at[c]]

(* No request continues a transfer that has expired, even if no task closed it. *)
NotAfterExpiry ==
    \A c \in Calls : pc[c] = "outside" /\ pc'[c] = "reading" =>
        slots'[at'[c]].expires > now

(* What a request may do to a transfer in a step. *)
AttachmentSteps == [][InOrder /\ NotAfterExpiry]_vars

(* As long as some executor keeps the timer, no idle reader stays open past its
   expiry. *)
Overdue == \E i \in Idle(slots) : slots[i].expires <= now
Kept == \E r \in Runtimes : tasks[r] \in {"scanning", "asleep"}
OverdueIsClosed == (Overdue /\ Kept) ~> ~(Overdue /\ Kept)
=============================================================================
