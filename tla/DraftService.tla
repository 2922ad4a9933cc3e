---------------------------- MODULE DraftService ----------------------------
(***************************************************************************)
(* Draft creation, status and reconciliation (src/service/drafts.rs) over  *)
(* the shared journal, the per-account writer lock and the recovery fence  *)
(* (src/service/state/drafts.rs), with backup and restore of the journal   *)
(* (src/service/state/maintenance.rs) and an IMAP server that is external. *)
(*                                                                         *)
(* A call is one save_draft or draft_status request.  The calls of all     *)
(* processes of an installation are interleaved; a step ends where the     *)
(* code awaits, releases a lock or commits a transaction.  Crash(c) is the *)
(* death of the process that serves c, Cancel(c) its deadline or its       *)
(* caller going away.                                                      *)
(***************************************************************************)
EXTENDS DraftJournal

CONSTANTS
    Calls,         \* concurrent calls of every process of the installation
    Accounts,      \* configured accounts; each has one writer lock
    AccountOf,     \* the account of an operation
    Kinds,         \* bound: the kinds of request that are made
    Maintained,    \* bound: whether the installation is ever taken offline
    Retirable,     \* bound: the operations whose account may be reconfigured
    MaxValidity,   \* bound: incarnations (UIDVALIDITY values) of the mailbox
    MaxCopies,     \* bound: copies of one draft that users may pile up
    Free, Worker   \* writer lock states besides "held by a call"

ASSUME ServiceAssumption ==
    /\ AccountOf \in [Ops -> Accounts]
    /\ Kinds \subseteq {"save", "status", "reconcile"}
    /\ Maintained \in BOOLEAN
    /\ Retirable \subseteq Ops
    /\ MaxValidity \in Nat \ {0}
    /\ MaxCopies \in Nat \ {0}
    /\ Free \notin Calls
    /\ Worker \notin Calls
    /\ Free # Worker

VARIABLES
    journal,     \* drafts.sqlite
    fence,       \* drafts.suspended: Recovery
    writer,      \* draft-<account>.lock: its holder
    pc,          \* where each call stands
    req,         \* its request
    prior,       \* the row it read when it opened the journal, then froze
    target,      \* the UIDVALIDITY its EXAMINE returned
    dispatched,  \* its `dispatched` out-parameter is set
    answer,      \* the tagged APPEND reply that reached it
    reply,       \* what it answered its caller
    retired,     \* operations whose account generation is no longer current
    maintainer,  \* where the offline backup or restore stands
    snapshot,    \* the journal in the last backup
    oldRetired,  \* `retired` according to the registry in the last backup
    network,     \* APPENDs written to a connection and not yet processed
    validity,    \* UIDVALIDITY of the Drafts mailbox
    mailbox,     \* messages there that carry the operation's Message-ID
    sent,        \* history: APPENDs ever written, per operation
    accepted,    \* history: APPENDs the server ever stored
    bytes,       \* history: the content of the last APPEND written
    restored     \* history: a restore began

callVars == <<pc, req, prior, target, dispatched, answer, reply>>
localVars == <<journal, fence, writer, callVars, retired, maintainer, snapshot,
               oldRetired>>
serverVars == <<network, validity, mailbox, accepted>>
vars == <<localVars, serverVars, sent, bytes, restored>>

Requests == [kind : Kinds, op : Ops,
             input : Inputs, encoder : Encoders]
NoRequest == [kind |-> "none", op |-> AnOp, input |-> AnInput,
              encoder |-> AnEncoder]

(* Only save_draft carries content. *)
ReachableRequests == {r \in Requests : r.kind # "save" =>
                          r.input = AnInput /\ r.encoder = AnEncoder}

Replies == {"none", "Prepared", "Created", "Duplicate", "Rejected",
            "OutcomeUnknown", "OperationInProgress", "OperationConflict",
            "OperationNotFound", "JournalUnavailable", "JournalFull",
            "DraftMailboxUnavailable", "RateLimited", "Timeout", "Refused"}

PCs == {"idle", "lock", "contended", "open", "opened", "verify", "examine",
        "examined", "frozen", "dispatched", "appending",
        "reconciling", "done"}

(* The points where a call awaits, and can be cancelled. *)
Awaiting == {"lock", "contended", "open", "verify", "examine", "dispatched",
             "appending", "reconciling"}

(* The points between Dispatch::start and Dispatch::complete. *)
Dispatching == {"dispatched", "appending"}

Content == [input : Inputs, encoder : Encoders]
ContentOf(r) == [input |-> r.input, encoder |-> r.encoder]

(* Messages with an operation's Message-ID: exact copies and altered ones. *)
Holds(exact, other) == [exact |-> exact, other |-> other]

OpOf(c) == req[c].op
LockOf(c) == AccountOf[OpOf(c)]

(* The exclusive maintenance lock is free for the taking: no process holds its
   shared lease. *)
Quiescent ==
    /\ Maintained
    /\ \A c \in Calls : pc[c] = "idle"
    /\ \A a \in Accounts : writer[a] = Free

Init ==
    /\ journal = [op \in Ops |-> AbsentRow]
    /\ fence = "none"
    /\ writer = [a \in Accounts |-> Free]
    /\ pc = [c \in Calls |-> "idle"]
    /\ req = [c \in Calls |-> NoRequest]
    /\ prior = [c \in Calls |-> AbsentRow]
    /\ target = [c \in Calls |-> 0]
    /\ dispatched = [c \in Calls |-> FALSE]
    /\ answer = [c \in Calls |-> "none"]
    /\ reply = [c \in Calls |-> "none"]
    /\ retired = {}
    /\ maintainer = "idle"
    /\ snapshot = [op \in Ops |-> AbsentRow]
    /\ oldRetired = {}
    /\ network = [op \in Ops |-> 0]
    /\ validity = 1
    /\ mailbox = [op \in Ops |-> Holds(0, 0)]
    /\ sent = [op \in Ops |-> 0]
    /\ accepted = [op \in Ops |-> 0]
    /\ bytes = [op \in Ops |-> [input |-> AnInput, encoder |-> AnEncoder]]
    /\ restored = FALSE

-----------------------------------------------------------------------------
(* Mutant: a call that ends unlocks every account's lock file. *)
ReleasedByAnyone(c) == [a \in Accounts |-> Free]

(* Mutant: a call that ends leaves the lock to its process. *)
ReleasedNever(c) == writer

(* What a call does when it returns: DraftHistory drops, which closes SQLite
   before it releases the account's writer lock. *)
Released(c) == [a \in Accounts |-> IF writer[a] = c THEN Free ELSE writer[a]]

Finish(c, r) ==
    /\ pc' = [pc EXCEPT ![c] = "done"]
    /\ reply' = [reply EXCEPT ![c] = r]
    /\ prior' = [prior EXCEPT ![c] = AbsentRow]
    /\ target' = [target EXCEPT ![c] = 0]
    /\ answer' = [answer EXCEPT ![c] = "none"]
    /\ writer' = Released(c)

Goto(c, p) == pc' = [pc EXCEPT ![c] = p]

(* DraftHistory::access and DraftHistory::open: an invalid database raises the
   Suspended fence, if that can be persisted. *)
MaybeSuspend ==
    \/ fence' = fence
    \/ fence = "none" /\ fence' = "suspended"

(* draft_receipt: what a persisted state is answered as. *)
Receipt(state) ==
    CASE state = "prepared"        -> "Prepared"
      [] state = "in_flight"       -> "OperationInProgress"
      [] state = "created"         -> "Created"
      [] state = "duplicate"       -> "Duplicate"
      [] state = "rejected"        -> "Rejected"
      [] state = "outcome_unknown" -> "OutcomeUnknown"

(* absent_draft *)
AbsentReply == IF fence # "none" THEN "JournalUnavailable" ELSE "OperationNotFound"

untouched == <<retired, maintainer, snapshot, oldRetired, restored>>
remote == <<serverVars, sent, bytes>>

-----------------------------------------------------------------------------
(* A caller asks.  Authorization and admission precede the writer lock; plain
   status takes none.  No call is served while maintenance has the
   installation to itself. *)
Start(c) ==
    /\ pc[c] = "idle"
    /\ maintainer = "idle"
    /\ \E r \in ReachableRequests :
          /\ req' = [req EXCEPT ![c] = r]
          /\ Goto(c, IF r.kind = "status" THEN "open" ELSE "lock")
    /\ UNCHANGED <<journal, fence, writer, prior, target, dispatched, answer,
                   reply, untouched, remote>>

(* draft_writer: the lock is taken ... *)
AcquireWriter(c) ==
    /\ pc[c] = "lock"
    /\ writer[LockOf(c)] = Free
    /\ writer' = [writer EXCEPT ![LockOf(c)] = c]
    /\ Goto(c, "open")
    /\ UNCHANGED <<journal, fence, req, prior, target, dispatched, answer,
                   reply, untouched, remote>>

(* ... or still held by someone else when initialization_seconds are over. *)
WriterContended(c) ==
    /\ pc[c] = "lock"
    /\ writer[LockOf(c)] # Free
    /\ Goto(c, "contended")
    /\ UNCHANGED <<journal, fence, writer, req, prior, target, dispatched,
                   answer, reply, untouched, remote>>

(* Mutant: without the lock a call recovers the row that is in flight. *)
PeekRecovers(c) ==
    /\ pc[c] = "contended"
    /\ fence # "restoring"
    /\ journal' = IF journal[OpOf(c)].state = "in_flight"
                  THEN Record(journal, OpOf(c), "outcome_unknown") ELSE journal
    /\ Finish(c, "OutcomeUnknown")
    /\ UNCHANGED <<fence, req, dispatched, untouched, remote>>

(* Mutant: a call that found the lock taken tries again for as long as it is. *)
PeekRetries(c) ==
    /\ pc[c] = "contended"
    /\ Goto(c, "lock")
    /\ UNCHANGED <<journal, fence, writer, req, prior, target, dispatched, answer,
                   reply, untouched, remote>>

(* Without the lock a call only looks: an in-flight row belongs to whoever
   holds it. *)
PeekContended(c) ==
    /\ pc[c] = "contended"
    /\ fence # "restoring"
    /\ Finish(c, IF journal[OpOf(c)].state = "in_flight"
                 THEN "OperationInProgress" ELSE "RateLimited")
    /\ UNCHANGED <<journal, fence, req, dispatched, untouched, remote>>

(* wait_for_draft_journal and authorized_operation *)
OpenJournal(c) ==
    /\ pc[c] = "open"
    /\ fence # "restoring"
    /\ prior' = [prior EXCEPT ![c] = journal[OpOf(c)]]
    /\ Goto(c, "opened")
    /\ UNCHANGED <<journal, fence, writer, req, target, dispatched, answer,
                   reply, untouched, remote>>

(* A journal access that fails before anything was dispatched: the database is
   locked for too long, missing, damaged, or fenced by an unfinished restore, or
   it refuses the transition. *)
JournalFault(c) ==
    /\ \/ pc[c] \in {"contended", "open", "verify", "examined", "frozen"}
       \/ pc[c] = "opened" /\ req[c].kind = "save" /\ prior[c].state = "absent"
    /\ \/ Finish(c, "JournalUnavailable")
       \/ pc[c] \in {"contended", "open"} /\ Finish(c, "RateLimited")
    /\ MaybeSuspend
    /\ UNCHANGED <<journal, req, dispatched, untouched, remote>>

(* Mutant: recovery makes an interrupted operation dispatchable again. *)
RecoverAsPrepared(c) ==
    /\ pc[c] = "opened"
    /\ req[c].kind # "status"
    /\ prior[c].state = "in_flight"
    /\ CanRecord(journal, OpOf(c), "outcome_unknown")
    /\ journal' = Record(journal, OpOf(c), "prepared")
    /\ prior' = [prior EXCEPT ![c] = journal'[OpOf(c)]]
    /\ UNCHANGED <<fence, writer, pc, target, answer, reply, req, dispatched,
                   untouched, remote>>

(* The holder of the lock finds a row in flight: its owner is gone. *)
RecoverInFlight(c) ==
    /\ pc[c] = "opened"
    /\ req[c].kind \in {"save", "reconcile"}
    /\ prior[c].state = "in_flight"
    /\ \/ /\ CanRecord(journal, OpOf(c), "outcome_unknown")
          /\ journal' = Record(journal, OpOf(c), "outcome_unknown")
          /\ prior' = [prior EXCEPT ![c] = journal'[OpOf(c)]]
          /\ UNCHANGED <<fence, writer, pc, target, answer, reply>>
       \/ /\ Finish(c, "OutcomeUnknown")
          /\ MaybeSuspend
          /\ UNCHANGED journal
    /\ UNCHANGED <<req, dispatched, untouched, remote>>

(* Data-dependent refusals of the request that touch nothing: a row of another
   mailbox, an oversized draft, an unusable From identity, a receipt that would
   not fit. *)
RefuseLocally(c) ==
    /\ pc[c] \in {"contended", "opened", "examine", "examined"}
    /\ Finish(c, "Refused")
    /\ UNCHANGED <<journal, fence, req, dispatched, untouched, remote>>

(* draft_status without reconciliation only reads. *)
AnswerStatus(c) ==
    /\ pc[c] = "opened"
    /\ \/ req[c].kind = "status"
       \/ req[c].kind = "reconcile" /\ prior[c].state \notin {"in_flight", "outcome_unknown"}
    /\ Finish(c, IF prior[c].state = "absent" THEN AbsentReply
                 ELSE Receipt(prior[c].state))
    /\ UNCHANGED <<journal, fence, req, dispatched, untouched, remote>>

-----------------------------------------------------------------------------
(* Mutant: any generation may create. *)
DecisionOfAnyGeneration(c) ==
    IF prior[c].state \in {"absent", "prepared"}
    THEN IF fence # "none" THEN "JournalUnavailable" ELSE "go"
    ELSE Receipt(prior[c].state)

(* Mutant: a replay is not compared with the frozen input. *)
DecisionOfAnyInput(c) ==
    CASE prior[c].state \in {"absent", "prepared"} /\ fence # "none" -> "JournalUnavailable"
      [] prior[c].state = "absent" /\ fence = "none" /\ Full(journal) -> "JournalFull"
      [] prior[c].state \notin {"absent", "prepared"} -> Receipt(prior[c].state)
      [] OTHER -> "go"

(* save_draft_inner, from the row it found to the decision to dispatch.  "go"
   is the decision to go on. *)
SaveDecision(c) ==
    LET row == prior[c] IN
    IF row.state = "absent"
    THEN CASE OpOf(c) \in retired -> AbsentReply
           [] OpOf(c) \notin retired /\ fence # "none" -> "JournalUnavailable"
           [] OpOf(c) \notin retired /\ fence = "none" /\ Full(journal) -> "JournalFull"
           [] OTHER -> "go"
    ELSE CASE row.input # req[c].input -> "OperationConflict"
           [] row.input = req[c].input /\ row.state # "prepared" -> Receipt(row.state)
           [] row.input = req[c].input /\ row.state = "prepared" /\ fence # "none" ->
                  "JournalUnavailable"
           [] OTHER -> "go"

DecideSave(c) ==
    /\ pc[c] = "opened"
    /\ req[c].kind = "save"
    /\ prior[c].state # "in_flight"
    /\ IF SaveDecision(c) = "go"
       THEN Goto(c, "verify") /\ UNCHANGED <<writer, prior, target, answer, reply>>
       ELSE Finish(c, SaveDecision(c))
    /\ UNCHANGED <<journal, fence, req, dispatched, untouched, remote>>

(* verify_for_dispatch runs on a blocking worker that owns the journal and the
   writer lock while it scans.  Once it is back the fence is checked again,
   and the target is routed. *)
VerifyHistory(c) ==
    /\ pc[c] = "verify"
    /\ IF fence = "none"
       THEN Goto(c, "examine") /\ UNCHANGED <<writer, prior, target, answer, reply>>
       ELSE Finish(c, "JournalUnavailable")
    /\ UNCHANGED <<journal, fence, req, dispatched, untouched, remote>>

(* The Drafts mailbox is examined; a login, a connection or a mailbox that fails
   is answered without any change. *)
ExamineTarget(c) ==
    /\ pc[c] = "examine"
    /\ \/ /\ target' = [target EXCEPT ![c] = validity]
          /\ Goto(c, "examined")
          /\ UNCHANGED <<writer, prior, answer, reply>>
       \/ Finish(c, "DraftMailboxUnavailable")
    /\ UNCHANGED <<journal, fence, req, dispatched, untouched, remote>>

(* The facts this call would freeze or expects to find frozen. *)
Proposed(c) == PreparedRow(req[c].input, target[c], req[c].encoder)

Reencoding(c) == prior[c].state # "absent" /\ prior[c].encoder # req[c].encoder

(* The journal hands back the row it now holds; from here on that is the
   operation to dispatch. *)
Frozen(c) ==
    /\ prior' = [prior EXCEPT ![c] = journal'[OpOf(c)]]
    /\ Goto(c, "frozen")
    /\ UNCHANGED <<writer, target, answer, reply>>

(* The incarnation must be the frozen one and the fence still down; then the
   row is inserted, found again, or re-encoded for this build. *)
FreezeOperation(c) ==
    /\ pc[c] = "examined"
    /\ IF prior[c].state # "absent" /\ target[c] # prior[c].validity
       THEN Finish(c, "DraftMailboxUnavailable") /\ UNCHANGED journal
       ELSE IF fence # "none"
       THEN Finish(c, "JournalUnavailable") /\ UNCHANGED journal
       ELSE \/ /\ Reencoding(c)
               /\ CanReencode(journal, OpOf(c), prior[c], req[c].encoder)
               /\ journal' = Reencode(journal, OpOf(c), req[c].encoder)
               /\ Frozen(c)
            \/ /\ ~Reencoding(c)
               /\ CanPrepare(journal, OpOf(c), Proposed(c))
               /\ journal' = Prepare(journal, OpOf(c), Proposed(c))
               /\ Frozen(c)
            \/ /\ ~Reencoding(c)
               /\ ~CanPrepare(journal, OpOf(c), Proposed(c))
               /\ Finish(c, IF journal[OpOf(c)].state = "absent"
                            THEN "JournalFull" ELSE "OperationConflict")
               /\ UNCHANGED journal
    /\ UNCHANGED <<fence, req, dispatched, untouched, remote>>

(* Dispatch::start, and `dispatched` set before the next await. *)
StartDispatch(c) ==
    /\ pc[c] = "frozen"
    /\ CanBeginDispatch(journal, OpOf(c), prior[c])
    /\ journal' = BeginDispatch(journal, OpOf(c))
    /\ dispatched' = [dispatched EXCEPT ![c] = TRUE]
    /\ Goto(c, "dispatched")
    /\ UNCHANGED <<fence, writer, req, prior, target, answer, reply,
                   untouched, remote>>

(* The APPEND goes out on the wire. *)
WriteAppend(c) ==
    /\ pc[c] = "dispatched"
    /\ network' = [network EXCEPT ![OpOf(c)] = @ + 1]
    /\ sent' = [sent EXCEPT ![OpOf(c)] = @ + 1]
    /\ bytes' = [bytes EXCEPT ![OpOf(c)] = ContentOf(req[c])]
    /\ Goto(c, "appending")
    /\ UNCHANGED <<journal, fence, writer, req, prior, target, dispatched,
                   answer, reply, untouched, validity, mailbox, accepted>>

(* Mutant: a connection that breaks during APPEND counts as a rejection. *)
OutcomesOfSilence(c) == {IF answer[c] = "none" THEN "rejected" ELSE answer[c]}

(* Dispatch::complete.  Anything but a tagged reply (a lost connection, a
   protocol error, an error before the command was written) is uncertainty. If
   the outcome cannot be recorded, Dispatch::drop tries to record uncertainty;
   if that fails too the row stays in flight. *)
Outcomes(c) == {"outcome_unknown"} \cup (IF answer[c] = "none" THEN {} ELSE {answer[c]})

CompleteDispatch(c) ==
    /\ pc[c] \in Dispatching
    /\ \/ \E outcome \in Outcomes(c) :
             /\ CanRecord(journal, OpOf(c), outcome)
             /\ journal' = Record(journal, OpOf(c), outcome)
             /\ Finish(c, Receipt(outcome))
             /\ UNCHANGED fence
       \/ /\ CanRecord(journal, OpOf(c), "outcome_unknown")
          /\ journal' = Record(journal, OpOf(c), "outcome_unknown")
          /\ Finish(c, "OutcomeUnknown")
          /\ MaybeSuspend
       \/ /\ Finish(c, "OutcomeUnknown")
          /\ MaybeSuspend
          /\ UNCHANGED journal
    /\ UNCHANGED <<req, dispatched, untouched, remote>>

-----------------------------------------------------------------------------
(* draft_status with reconcile: true, of an uncertain row. *)
BeginReconcile(c) ==
    /\ pc[c] = "opened"
    /\ req[c].kind = "reconcile"
    /\ prior[c].state = "outcome_unknown"
    /\ Goto(c, "reconciling")
    /\ UNCHANGED <<journal, fence, writer, req, prior, target, dispatched,
                   answer, reply, untouched, remote>>

(* Mutant: no more than one candidate is evidence enough. *)
EvidenceUnambiguous(c) ==
    /\ validity = prior[c].validity
    /\ mailbox[OpOf(c)].exact <= 1
    /\ mailbox[OpOf(c)].other = 0

(* DraftEvidence::Verified: the original incarnation holds exactly one message
   with the operation's Message-ID, and its bytes hash to the row's content. *)
EvidenceVerified(c) ==
    LET found == mailbox[OpOf(c)] IN
    /\ validity = prior[c].validity
    /\ found.exact = 1
    /\ found.other = 0
    /\ bytes[OpOf(c)] = ContentOf(prior[c])

(* Everything short of verified evidence leaves the operation uncertain. *)
ReconcileDraft(c) ==
    /\ pc[c] = "reconciling"
    /\ \/ /\ EvidenceVerified(c)
          /\ CanRecord(journal, OpOf(c), "duplicate")
          /\ journal' = Record(journal, OpOf(c), "duplicate")
          /\ Finish(c, "Duplicate")
          /\ UNCHANGED fence
       \/ /\ Finish(c, "OutcomeUnknown")
          /\ MaybeSuspend
          /\ UNCHANGED journal
    /\ UNCHANGED <<req, dispatched, untouched, remote>>

-----------------------------------------------------------------------------
(* Mutant: a deadline is a timeout, whatever was dispatched. *)
CancelAlwaysTimeout(c) == "Timeout"

(* The deadline passes, or the caller goes away, while the call awaits.  The
   blocking worker of verify_for_dispatch outlives its call and keeps the
   writer lock; an unfinished Dispatch records uncertainty, or leaves the row
   in flight when storage fails. *)
CancelReply(c) ==
    IF dispatched[c] \/ pc[c] = "reconciling" THEN "OutcomeUnknown" ELSE "Timeout"

Cancel(c) ==
    /\ pc[c] \in Awaiting
    /\ pc' = [pc EXCEPT ![c] = "done"]
    /\ reply' = [reply EXCEPT ![c] = CancelReply(c)]
    /\ prior' = [prior EXCEPT ![c] = AbsentRow]
    /\ target' = [target EXCEPT ![c] = 0]
    /\ answer' = [answer EXCEPT ![c] = "none"]
    /\ writer' = IF pc[c] = "verify"
                 THEN [writer EXCEPT ![LockOf(c)] = Worker]
                 ELSE Released(c)
    /\ \/ UNCHANGED journal
       \/ /\ pc[c] \in Dispatching
          /\ CanRecord(journal, OpOf(c), "outcome_unknown")
          /\ journal' = Record(journal, OpOf(c), "outcome_unknown")
    /\ UNCHANGED <<fence, req, dispatched, untouched, remote>>

(* The orphaned worker ends, drops the journal and with it the lock. *)
WorkerEnds(a) ==
    /\ writer[a] = Worker
    /\ writer' = [writer EXCEPT ![a] = Free]
    /\ MaybeSuspend
    /\ UNCHANGED <<journal, callVars, untouched, remote>>

Forget(c) ==
    /\ pc' = [pc EXCEPT ![c] = "idle"]
    /\ req' = [req EXCEPT ![c] = NoRequest]
    /\ prior' = [prior EXCEPT ![c] = AbsentRow]
    /\ target' = [target EXCEPT ![c] = 0]
    /\ dispatched' = [dispatched EXCEPT ![c] = FALSE]
    /\ answer' = [answer EXCEPT ![c] = "none"]
    /\ reply' = [reply EXCEPT ![c] = "none"]

Return(c) ==
    /\ pc[c] = "done"
    /\ Forget(c)
    /\ UNCHANGED <<journal, fence, writer, untouched, remote>>

(* The process dies: the system drops its locks, and nothing is recorded. *)
Crash(c) ==
    /\ pc[c] \notin {"idle", "done"}
    /\ Forget(c)
    /\ writer' = Released(c)
    /\ UNCHANGED <<journal, fence, untouched, remote>>

-----------------------------------------------------------------------------
(* Changes of the installation that need it to themselves. *)

(* A configuration change that gives the operation's account a new generation. *)
Retire(op) ==
    /\ Quiescent
    /\ maintainer = "idle"
    /\ retired' = retired \cup {op}
    /\ UNCHANGED <<journal, fence, writer, callVars, maintainer, snapshot,
                   oldRetired, restored, remote>>

Backup ==
    /\ Quiescent
    /\ maintainer = "idle"
    /\ fence # "restoring"
    /\ snapshot' = journal
    /\ oldRetired' = retired
    /\ UNCHANGED <<journal, fence, writer, callVars, retired, maintainer,
                   restored, remote>>

(* A backup or `verify` that meets an invalid database. *)
MaintenanceFault ==
    /\ Quiescent
    /\ maintainer = "idle"
    /\ fence = "none"
    /\ fence' = "suspended"
    /\ UNCHANGED <<journal, writer, callVars, untouched, remote>>

(* restore: the fence is durable before the first file is replaced. *)
RestoreFence ==
    /\ Quiescent
    /\ maintainer = "idle"
    /\ fence' = "restoring"
    /\ maintainer' = "fenced"
    /\ restored' = TRUE
    /\ UNCHANGED <<journal, writer, callVars, retired, snapshot, oldRetired, remote>>

RestoreJournal ==
    /\ maintainer = "fenced"
    /\ journal' = snapshot
    /\ maintainer' = "replaced"
    /\ UNCHANGED <<fence, writer, callVars, retired, snapshot, oldRetired, restored,
                   remote>>

(* The registry of the backup counts generations as they were then.  A snapshot
   without draft history skips RestoreJournal. *)
RestoreRegistry ==
    /\ maintainer \in {"fenced", "replaced"}
    /\ retired' = oldRetired
    /\ maintainer' = "registered"
    /\ UNCHANGED <<journal, fence, writer, callVars, snapshot, oldRetired, restored,
                   remote>>

(* Mutant: a finished restore lifts the fence. *)
RestoreLiftsFence ==
    /\ maintainer = "registered"
    /\ fence' = "none"
    /\ maintainer' = "idle"
    /\ UNCHANGED <<journal, writer, callVars, retired, snapshot, oldRetired, restored,
                   remote>>

RestoreFinish ==
    /\ maintainer = "registered"
    /\ fence' = "suspended"
    /\ maintainer' = "idle"
    /\ UNCHANGED <<journal, writer, callVars, retired, snapshot, oldRetired, restored,
                   remote>>

(* A crash, or a step that fails; the fence stays as it is. *)
RestoreInterrupted ==
    /\ maintainer # "idle"
    /\ maintainer' = "idle"
    /\ UNCHANGED <<journal, fence, writer, callVars, retired, snapshot, oldRetired,
                   restored, remote>>

-----------------------------------------------------------------------------
(* External: the IMAP server and the users of the mailbox.  A command on the
   wire is processed, or lost, at any later time, whatever became of the call
   that wrote it; its reply reaches a call that still waits, or nobody. *)
Deliver(op, tagged) ==
    \/ UNCHANGED answer
    \/ \E c \in Calls : /\ pc[c] = "appending"
                        /\ OpOf(c) = op
                        /\ answer' = [answer EXCEPT ![c] = tagged]

ServerAccepts(op) ==
    /\ network[op] > 0
    /\ network' = [network EXCEPT ![op] = @ - 1]
    /\ accepted' = [accepted EXCEPT ![op] = @ + 1]
    /\ mailbox' = [mailbox EXCEPT ![op] = Holds(@.exact + 1, @.other)]
    /\ Deliver(op, "created")
    /\ UNCHANGED <<journal, fence, writer, pc, req, prior, target, dispatched,
                   reply, untouched, validity, sent, bytes>>

ServerRejects(op) ==
    /\ network[op] > 0
    /\ network' = [network EXCEPT ![op] = @ - 1]
    /\ Deliver(op, "rejected")
    /\ UNCHANGED <<journal, fence, writer, pc, req, prior, target, dispatched,
                   reply, untouched, validity, mailbox, accepted, sent, bytes>>

CommandLost(op) ==
    /\ network[op] > 0
    /\ network' = [network EXCEPT ![op] = @ - 1]
    /\ UNCHANGED <<localVars, validity, mailbox, accepted, sent, bytes, restored>>

(* A user deletes, copies or edits the draft in another mail client. *)
UserChanges(op) ==
    /\ mailbox[op].exact > 0
    /\ \/ mailbox' = [mailbox EXCEPT ![op] = Holds(@.exact - 1, @.other)]
       \/ /\ mailbox[op].exact < MaxCopies
          /\ mailbox' = [mailbox EXCEPT ![op] = Holds(@.exact + 1, @.other)]
       \/ /\ mailbox[op].other < MaxCopies
          /\ mailbox' = [mailbox EXCEPT ![op] = Holds(@.exact - 1, @.other + 1)]
    /\ UNCHANGED <<localVars, network, validity, accepted, sent, bytes, restored>>

(* The mailbox is recreated under a new UIDVALIDITY. *)
MailboxRecreated ==
    /\ validity < MaxValidity
    /\ validity' = validity + 1
    /\ mailbox' = [op \in Ops |-> Holds(0, 0)]
    /\ UNCHANGED <<localVars, network, accepted, sent, bytes, restored>>

-----------------------------------------------------------------------------
(* Steps a served call takes by itself. *)
CallStep(c) ==
    \/ AcquireWriter(c) \/ WriterContended(c) \/ PeekContended(c)
    \/ OpenJournal(c) \/ JournalFault(c) \/ RecoverInFlight(c)
    \/ RefuseLocally(c) \/ AnswerStatus(c)
    \/ DecideSave(c) \/ VerifyHistory(c) \/ ExamineTarget(c)
    \/ FreezeOperation(c) \/ StartDispatch(c) \/ WriteAppend(c)
    \/ CompleteDispatch(c)
    \/ BeginReconcile(c) \/ ReconcileDraft(c)
    \/ Cancel(c) \/ Return(c)

Maintain ==
    \/ \E op \in Retirable : Retire(op)
    \/ Backup \/ MaintenanceFault \/ RestoreFence \/ RestoreJournal \/ RestoreRegistry
    \/ RestoreFinish \/ RestoreInterrupted

Environment ==
    \/ \E op \in Ops : \/ ServerAccepts(op) \/ ServerRejects(op)
                       \/ CommandLost(op) \/ UserChanges(op)
    \/ MailboxRecreated

Next ==
    \/ \E c \in Calls : Start(c) \/ CallStep(c) \/ Crash(c)
    \/ \E a \in Accounts : WorkerEnds(a)
    \/ Maintain
    \/ Environment

Spec == Init /\ [][Next]_vars

(* The executor polls every ready future and every deadline fires; a blocking
   worker runs to its end. *)
Fairness ==
    /\ \A c \in Calls : WF_vars(CallStep(c))
    /\ \A a \in Accounts : WF_vars(WorkerEnds(a))

FairSpec == Spec /\ Fairness

-----------------------------------------------------------------------------
TypeOK ==
    /\ journal \in [Ops -> Row]
    /\ snapshot \in [Ops -> Row]
    /\ fence \in {"none", "restoring", "suspended"}
    /\ writer \in [Accounts -> Calls \cup {Free, Worker}]
    /\ pc \in [Calls -> PCs]
    /\ req \in [Calls -> Requests \cup {NoRequest}]
    /\ prior \in [Calls -> Row]
    /\ target \in [Calls -> Nat]
    /\ dispatched \in [Calls -> BOOLEAN]
    /\ answer \in [Calls -> {"none", "created", "rejected"}]
    /\ reply \in [Calls -> Replies]
    /\ retired \subseteq Ops
    /\ oldRetired \subseteq Ops
    /\ maintainer \in {"idle", "fenced", "replaced", "registered"}
    /\ network \in [Ops -> Nat]
    /\ validity \in Nat \ {0}
    /\ mailbox \in [Ops -> [exact : Nat, other : Nat]]
    /\ sent \in [Ops -> Nat]
    /\ accepted \in [Ops -> Nat]
    /\ bytes \in [Ops -> Content]
    /\ restored \in BOOLEAN

(* At most one APPEND is ever written for a draft operation, whatever retries,
   concurrent processes, crashes, lost replies, failed journal writes and
   restores of older journals do. *)
AtMostOneAppend == \A op \in Ops : sent[op] <= 1

(* Nobody recovers an operation that a live call is dispatching: between
   Dispatch::start and Dispatch::complete the row stays in flight and the call
   keeps its account's writer lock. *)
OwnerUndisturbed ==
    \A c \in Calls : pc[c] \in Dispatching =>
        /\ journal[OpOf(c)].state = "in_flight"
        /\ writer[LockOf(c)] = c

(* A recorded outcome is true, in the journal and in every backup of it: an
   acknowledged draft was stored by the server, a rejected one was not and
   cannot arrive late any more. *)
TruthfulState(state, op) ==
    /\ state \in {"created", "duplicate"} => accepted[op] = 1
    /\ state = "rejected" => accepted[op] = 0 /\ network[op] = 0 /\ sent[op] = 1

TruthfulRow(j, op) == TruthfulState(j[op].state, op)

TruthfulHistory ==
    \A op \in Ops : TruthfulRow(journal, op) /\ TruthfulRow(snapshot, op)

(* What the caller is told of its own attempt: once APPEND may have been
   written, the answer is the server's or uncertainty, never an error that
   invites a retry; and an answered outcome is true. *)
HonestReply ==
    \A c \in Calls : pc[c] = "done" =>
        /\ dispatched[c] => reply[c] \in {"Created", "Rejected", "OutcomeUnknown"}
        /\ reply[c] \in {"Created", "Duplicate"} => accepted[OpOf(c)] = 1
        /\ reply[c] = "Rejected" => accepted[OpOf(c)] = 0 /\ network[OpOf(c)] = 0

(* The bytes on the wire are those whose hash the journal recorded, even when
   builds with different encoders take turns: otherwise reconciliation could
   never verify the draft it finds. *)
WireMatches(j, op) ==
    sent[op] > 0 /\ j[op].state \notin {"absent", "prepared"} =>
        bytes[op] = ContentOf(j[op])

WireMatchesJournal == \A op \in Ops : WireMatches(journal, op)

(* Two accounts prepare under two different locks; together they never put
   more rows into the journal than journal_records. *)
WithinLimit(j) == Cardinality(Records(j)) <= MaxRecords

JournalWithinLimit == WithinLimit(journal)

(* Recorded history is only extended: outside a restore, a row never goes away,
   never changes the input or the incarnation it was frozen for, never changes
   encoding once dispatched, and never leaves a terminal state. *)
ExtendsRow(old, new) ==
    \/ old.state = "absent"
    \/ /\ new.state # "absent"
       /\ new.input = old.input
       /\ new.validity = old.validity
       /\ old.state # "prepared" => new.encoder = old.encoder
       /\ old.state # "prepared" => new.state # "prepared"
       /\ old.state \in Terminal => new.state = old.state

HistoryExtended ==
    [][maintainer = "idle" => \A op \in Ops : ExtendsRow(journal[op], journal'[op])]_vars

(* Once a restore has begun no APPEND leaves the installation: operations the
   older journal does not know, or still calls prepared, may be on the server. *)
NothingSentAfterRestore == [][restored => sent' = sent]_vars

(* An operation of a replaced account generation is never created anew. *)
RetiredNotCreated ==
    [][\A op \in retired : maintainer = "idle" /\ journal[op].state = "absent" =>
           journal'[op].state = "absent"]_vars

(* Every call is answered, however the lock, the journal and the server behave. *)
EveryCallAnswers == \A c \in Calls : (pc[c] # "idle") ~> (pc[c] = "idle")

(* No holder keeps an account's writer lock for ever, a cancelled call's
   verification worker included. *)
WriterReleased == \A a \in Accounts : (writer[a] # Free) ~> (writer[a] = Free)

(* DraftService::save, status and reconcile: every call answers, and whatever it
   did, also when it was cancelled, the account is free for the next one. *)
CallsComplete == EveryCallAnswers /\ WriterReleased

-----------------------------------------------------------------------------
(***************************************************************************)
(* The inductive strengthening of the safety properties above: who owns    *)
(* the writer lock at each point, which calls can exist once a restore has *)
(* begun, and what the row says of the wire.                               *)
(***************************************************************************)

(* The points a call reaches only with its account's writer lock. *)
Owning == {"verify", "examine", "examined", "frozen", "dispatched", "appending",
           "reconciling"}

(* The points only a save_draft that found creation allowed can reach. *)
Creating == {"verify", "examine", "examined", "frozen", "dispatched", "appending"}

LocksHeld ==
    \A c \in Calls :
        /\ pc[c] \in Owning => writer[LockOf(c)] = c /\ req[c].kind # "status"
        /\ pc[c] \in {"open", "opened"} /\ req[c].kind # "status" =>
               writer[LockOf(c)] = c
        /\ pc[c] \in {"lock", "contended"} => req[c].kind # "status"

RestoreFenced ==
    /\ maintainer # "idle" => restored /\ \A c \in Calls : pc[c] = "idle"
    /\ restored => fence # "none"
    /\ restored => \A c \in Calls : pc[c] \notin Creating

WireFollowsRow ==
    /\ \A op \in Ops : ~restored /\ journal[op].state \in {"absent", "prepared"} =>
           sent[op] = 0
    /\ \A c \in Calls :
           /\ pc[c] \in Dispatching => journal[OpOf(c)].state = "in_flight"
           /\ pc[c] = "dispatched" => sent[OpOf(c)] = 0

(* One APPEND, by the owner of the lock, of a row that was recorded as in
   flight first. *)
DispatchInvariant ==
    /\ TypeOK
    /\ AtMostOneAppend
    /\ LocksHeld
    /\ RestoreFenced
    /\ WireFollowsRow

(* What a call knows: the holder of the writer lock has read the row as it
   still is, a save on its way to the wire sends what the row was frozen for,
   and a row read, a reply received or an answer given is true. *)
CallHistory(c) ==
    LET op == OpOf(c) IN
    /\ pc[c] \in {"opened", "verify", "examine", "examined", "frozen", "reconciling"}
           /\ req[c].kind # "status" => prior[c] = journal[op]
    /\ pc[c] \in {"verify", "examine", "examined"} =>
           /\ prior[c].state \in {"absent", "prepared"}
           /\ prior[c].state = "absent" => op \notin retired
           /\ prior[c].state = "prepared" => prior[c].input = req[c].input
    /\ pc[c] = "frozen" => ContentOf(prior[c]) = ContentOf(req[c])
    /\ pc[c] \in Dispatching => ContentOf(journal[op]) = ContentOf(req[c])
    /\ pc[c] = "dispatched" => snapshot[op].state \in {"absent", "prepared"}
    /\ pc[c] = "idle" => prior[c].state = "absent"
    /\ TruthfulState(prior[c].state, op)
    /\ TruthfulState(answer[c], op)
    /\ answer[c] # "none" => pc[c] = "appending"
    /\ dispatched[c] => pc[c] \in Dispatching \cup {"done"}
    /\ reply[c] # "none" => pc[c] = "done"
    /\ pc[c] = "done" /\ dispatched[c] =>
           reply[c] \in {"Created", "Rejected", "OutcomeUnknown"}
    /\ reply[c] \in {"Created", "Duplicate"} => TruthfulState("created", op)
    /\ reply[c] = "Rejected" => TruthfulState("rejected", op)

(* What is recorded of an operation, in the journal and in the last backup,
   against what the server was asked and what it did.  Only a restore makes
   the journal older than the backup. *)
OperationHistory(op) ==
    /\ accepted[op] + network[op] <= sent[op]
    /\ mailbox[op].exact > 0 => accepted[op] = 1
    /\ TruthfulRow(journal, op) /\ TruthfulRow(snapshot, op)
    /\ WireMatches(journal, op) /\ WireMatches(snapshot, op)
    /\ ~restored /\ journal[op].state \in {"absent", "prepared"} =>
           snapshot[op].state \in {"absent", "prepared"}

(* Recorded history is true and complete enough to answer from. *)
HistoryInvariant ==
    /\ DispatchInvariant
    /\ \A c \in Calls : CallHistory(c)
    /\ \A op \in Ops : OperationHistory(op)

(* Two accounts with a lock each over one journal: neither one's draft goes out
   twice or is overtaken by the other's, and the record that did not fit was
   refused before anything was sent. *)
AccountsShareJournal ==
    /\ DispatchInvariant
    /\ AtMostOneAppend
    /\ JournalWithinLimit

-----------------------------------------------------------------------------
(* The detailed specification implements DraftOnce. *)
Verdict(state) ==
    CASE state \in {"absent", "prepared"} -> "open"
      [] state \in {"in_flight", "outcome_unknown"} -> "uncertain"
      [] state \in {"created", "duplicate"} -> "created"
      [] state = "rejected" -> "rejected"

Once == INSTANCE DraftOnce WITH
    Operations <- Ops,
    verdict <- [op \in Ops |-> Verdict(journal[op].state)],
    attempts <- sent,
    stored <- accepted,
    sealed <- restored

(* Every behaviour of the service is one of the abstract at-most-once draft. *)
ImplementsOnce == Once!OnceSpec
=============================================================================
