------------------------- MODULE DraftServiceProofs -------------------------
(* Machine-checked proofs about DraftService. *)
EXTENDS DraftService, FiniteSetTheorems, TLAPS

(* The default values are of their types. *)
LEMMA Defaults ==
    /\ AnOp \in Ops
    /\ AnInput \in Inputs
    /\ AnEncoder \in Encoders
    /\ AbsentRow \in Row
    /\ NoRequest.op \in Ops /\ NoRequest.input \in Inputs
    /\ NoRequest.encoder \in Encoders /\ NoRequest.kind = "none"
BY JournalAssumption DEF AnOp, AnInput, AnEncoder, AbsentRow, Row, States, NoRequest

(* What the fields of a call's request are, whether or not it has one. *)
LEMMA RequestTypes ==
    ASSUME TypeOK, NEW c \in Calls
    PROVE  /\ OpOf(c) \in Ops
           /\ LockOf(c) \in Accounts
           /\ req[c].input \in Inputs
           /\ req[c].encoder \in Encoders
BY Defaults, ServiceAssumption DEF TypeOK, Requests, OpOf, LockOf

(* A call that ends leaves its own state and the locks well typed. *)
LEMMA FinishType ==
    ASSUME TypeOK, NEW c \in Calls, NEW r \in Replies, Finish(c, r)
    PROVE  /\ pc' \in [Calls -> PCs]
           /\ reply' \in [Calls -> Replies]
           /\ prior' \in [Calls -> Row]
           /\ target' \in [Calls -> Nat]
           /\ answer' \in [Calls -> {"none", "created", "rejected"}]
           /\ writer' \in [Accounts -> Calls \cup {Free, Worker}]
BY Defaults DEF TypeOK, Finish, Released, PCs

LEMMA ForgetType ==
    ASSUME TypeOK, NEW c \in Calls, Forget(c)
    PROVE  /\ pc' \in [Calls -> PCs]
           /\ req' \in [Calls -> Requests \cup {NoRequest}]
           /\ reply' \in [Calls -> Replies]
           /\ prior' \in [Calls -> Row]
           /\ target' \in [Calls -> Nat]
           /\ dispatched' \in [Calls -> BOOLEAN]
           /\ answer' \in [Calls -> {"none", "created", "rejected"}]
BY Defaults DEF TypeOK, Forget, PCs, Replies

LEMMA SuspendType ==
    TypeOK /\ MaybeSuspend => fence' \in {"none", "restoring", "suspended"}
BY DEF TypeOK, MaybeSuspend

LEMMA ReceiptType ==
    ASSUME NEW s \in States, s # "absent"
    PROVE  Receipt(s) \in Replies
BY DEF States, Receipt, Replies

(* Journal transitions keep the journal a function to rows. *)
LEMMA JournalTypes ==
    ASSUME TypeOK, NEW op \in Ops
    PROVE  /\ \A row \in Row : Prepare(journal, op, row) \in [Ops -> Row]
           /\ \A e \in Encoders : Reencode(journal, op, e) \in [Ops -> Row]
           /\ BeginDispatch(journal, op) \in [Ops -> Row]
           /\ \A s \in States : Record(journal, op, s) \in [Ops -> Row]
<1>. journal \in [Ops -> Row]
  BY DEF TypeOK
<1>1. ASSUME NEW row \in Row PROVE Prepare(journal, op, row) \in [Ops -> Row]
  BY DEF Prepare
<1>2. ASSUME NEW e \in Encoders PROVE Reencode(journal, op, e) \in [Ops -> Row]
  BY DEF Reencode, Row
<1>3. BeginDispatch(journal, op) \in [Ops -> Row]
  BY DEF BeginDispatch, Row, States
<1>4. ASSUME NEW s \in States PROVE Record(journal, op, s) \in [Ops -> Row]
  BY DEF Record, Row
<1>. QED BY <1>1, <1>2, <1>3, <1>4

-----------------------------------------------------------------------------
(* Type correctness, action by action. *)
LEMMA TypeCallStep ==
    ASSUME TypeOK, NEW c \in Calls, CallStep(c)
    PROVE  TypeOK'
<1>. USE RequestTypes
<1>1. CASE AcquireWriter(c)
  BY <1>1 DEF AcquireWriter, Goto, TypeOK, PCs, untouched, remote, serverVars
<1>2. CASE WriterContended(c)
  BY <1>2 DEF WriterContended, Goto, TypeOK, PCs, untouched, remote, serverVars
<1>3. CASE PeekContended(c)
  <2>1. (IF journal[OpOf(c)].state = "in_flight"
         THEN "OperationInProgress" ELSE "RateLimited") \in Replies
    BY DEF Replies
  <2>. QED
    BY <1>3, <2>1, FinishType DEF PeekContended, TypeOK, untouched, remote, serverVars
<1>4. CASE OpenJournal(c)
  BY <1>4 DEF OpenJournal, Goto, TypeOK, PCs, untouched, remote, serverVars
<1>5. CASE JournalFault(c)
  <2>1. {"JournalUnavailable", "RateLimited"} \subseteq Replies
    BY DEF Replies
  <2>. QED
    BY <1>5, <2>1, FinishType, SuspendType
    DEF JournalFault, TypeOK, untouched, remote, serverVars
<1>6. CASE RecoverInFlight(c)
  <2>1. "OutcomeUnknown" \in Replies /\ "outcome_unknown" \in States
    BY DEF Replies, States
  <2>2. journal' \in [Ops -> Row]
    BY <1>6, <2>1, JournalTypes DEF RecoverInFlight, TypeOK
  <2>. QED
    BY <1>6, <2>1, <2>2, FinishType, SuspendType
    DEF RecoverInFlight, TypeOK, untouched, remote, serverVars
<1>7. CASE RefuseLocally(c)
  <2>1. "Refused" \in Replies
    BY DEF Replies
  <2>. QED
    BY <1>7, <2>1, FinishType DEF RefuseLocally, TypeOK, untouched, remote, serverVars
<1>8. CASE AnswerStatus(c)
  <2>1. prior[c].state \in States
    BY DEF TypeOK, Row
  <2>2. (IF prior[c].state = "absent" THEN AbsentReply ELSE Receipt(prior[c].state))
            \in Replies
    BY <2>1, ReceiptType DEF AbsentReply, Replies
  <2>. QED
    BY <1>8, <2>2, FinishType DEF AnswerStatus, TypeOK, untouched, remote, serverVars
<1>9. CASE DecideSave(c)
  <2>1. prior[c].state \in States
    BY DEF TypeOK, Row
  <2>2. SaveDecision(c) \in Replies \cup {"go"}
    BY <2>1, ReceiptType DEF SaveDecision, AbsentReply, Replies
  <2>. QED
    BY <1>9, <2>2, FinishType
    DEF DecideSave, Goto, TypeOK, PCs, untouched, remote, serverVars
<1>10. CASE VerifyHistory(c)
  <2>1. "JournalUnavailable" \in Replies
    BY DEF Replies
  <2>. QED
    BY <1>10, <2>1, FinishType
    DEF VerifyHistory, Goto, TypeOK, PCs, untouched, remote, serverVars
<1>11. CASE ExamineTarget(c)
  <2>1. "DraftMailboxUnavailable" \in Replies
    BY DEF Replies
  <2>. QED
    <3>1. CASE Finish(c, "DraftMailboxUnavailable")
      BY <1>11, <2>1, <3>1, FinishType
      DEF ExamineTarget, TypeOK, untouched, remote, serverVars
    <3>2. CASE target' = [target EXCEPT ![c] = validity] /\ Goto(c, "examined")
               /\ UNCHANGED <<writer, prior, answer, reply>>
      BY <1>11, <3>2 DEF ExamineTarget, Goto, TypeOK, PCs, untouched, remote, serverVars
    <3>. QED BY <1>11, <3>1, <3>2 DEF ExamineTarget
<1>12. CASE FreezeOperation(c)
  <2>1. {"DraftMailboxUnavailable", "JournalUnavailable", "JournalFull",
         "OperationConflict"} \subseteq Replies
    BY DEF Replies
  <2>2. Proposed(c) \in Row
    BY DEF Proposed, PreparedRow, Row, States, TypeOK
  <2>3. /\ Prepare(journal, OpOf(c), Proposed(c)) \in [Ops -> Row]
        /\ Reencode(journal, OpOf(c), req[c].encoder) \in [Ops -> Row]
        /\ journal \in [Ops -> Row]
    BY <2>2, JournalTypes DEF TypeOK
  <2>4. journal' \in [Ops -> Row]
    BY <1>12, <2>3 DEF FreezeOperation
  <2>5. CASE Frozen(c)
    <3>1. journal'[OpOf(c)] \in Row
      BY <2>4
    <3>2. prior' \in [Calls -> Row]
      BY <2>5, <3>1 DEF Frozen, TypeOK
    <3>. QED
      BY <1>12, <2>4, <2>5, <3>2
      DEF FreezeOperation, Frozen, Goto, TypeOK, PCs, untouched, remote, serverVars
  <2>6. ASSUME NEW r \in Replies, Finish(c, r) PROVE TypeOK'
    BY <1>12, <2>4, <2>6, FinishType
    DEF FreezeOperation, TypeOK, untouched, remote, serverVars
  <2>. QED BY <1>12, <2>1, <2>5, <2>6 DEF FreezeOperation
<1>13. CASE StartDispatch(c)
  <2>1. journal' \in [Ops -> Row]
    BY <1>13, JournalTypes DEF StartDispatch, TypeOK
  <2>. QED
    BY <1>13, <2>1 DEF StartDispatch, Goto, TypeOK, PCs, untouched, remote, serverVars
<1>14. CASE WriteAppend(c)
  BY <1>14 DEF WriteAppend, Goto, TypeOK, PCs, untouched, Content, ContentOf
<1>15. CASE CompleteDispatch(c)
  <2>1. "OutcomeUnknown" \in Replies /\ "outcome_unknown" \in States
    BY DEF Replies, States
  <2>2. ASSUME NEW outcome \in Outcomes(c)
        PROVE  outcome \in States /\ Receipt(outcome) \in Replies
    BY <2>2, ReceiptType DEF Outcomes, TypeOK, States
  <2>3. /\ \A s \in States : Record(journal, OpOf(c), s) \in [Ops -> Row]
        /\ journal \in [Ops -> Row]
    BY JournalTypes DEF TypeOK
  <2>4. journal' \in [Ops -> Row]
    BY <1>15, <2>1, <2>2, <2>3 DEF CompleteDispatch
  <2>. QED
    BY <1>15, <2>1, <2>2, <2>4, FinishType, SuspendType
    DEF CompleteDispatch, TypeOK, untouched, remote, serverVars
<1>16. CASE BeginReconcile(c)
  BY <1>16 DEF BeginReconcile, Goto, TypeOK, PCs, untouched, remote, serverVars
<1>17. CASE ReconcileDraft(c)
  <2>1. {"Duplicate", "OutcomeUnknown"} \subseteq Replies /\ "duplicate" \in States
    BY DEF Replies, States
  <2>0. Record(journal, OpOf(c), "duplicate") \in [Ops -> Row] /\ journal \in [Ops -> Row]
    BY <2>1, JournalTypes DEF TypeOK
  <2>2. journal' \in [Ops -> Row]
    BY <1>17, <2>0 DEF ReconcileDraft
  <2>. QED
    BY <1>17, <2>1, <2>2, FinishType, SuspendType
    DEF ReconcileDraft, TypeOK, untouched, remote, serverVars
<1>18. CASE Cancel(c)
  <2>1. CancelReply(c) \in Replies /\ "outcome_unknown" \in States
    BY DEF CancelReply, Replies, States
  <2>2. journal' \in [Ops -> Row]
    BY <1>18, <2>1, JournalTypes DEF Cancel, TypeOK
  <2>3. writer' \in [Accounts -> Calls \cup {Free, Worker}]
    BY <1>18 DEF Cancel, Released, TypeOK
  <2>. QED
    BY <1>18, <2>1, <2>2, <2>3, Defaults
    DEF Cancel, TypeOK, PCs, untouched, remote, serverVars
<1>19. CASE Return(c)
  BY <1>19, ForgetType DEF Return, TypeOK, untouched, remote, serverVars
<1>. QED
  BY <1>1, <1>2, <1>3, <1>4, <1>5, <1>6, <1>7, <1>8, <1>9, <1>10, <1>11, <1>12,
     <1>13, <1>14, <1>15, <1>16, <1>17, <1>18, <1>19
  DEF CallStep

LEMMA TypeMaintain == TypeOK /\ Maintain => TypeOK'
<1>. SUFFICES ASSUME TypeOK, Maintain PROVE TypeOK'
  OBVIOUS
<1>. USE DEF TypeOK, remote, serverVars, callVars
<1>1. ASSUME NEW op \in Retirable, Retire(op) PROVE TypeOK'
  BY <1>1, ServiceAssumption DEF Retire
<1>2. CASE Backup \/ MaintenanceFault
  BY <1>2 DEF Backup, MaintenanceFault, untouched
<1>3. CASE RestoreFence \/ RestoreJournal \/ RestoreRegistry
  BY <1>3 DEF RestoreFence, RestoreJournal, RestoreRegistry
<1>4. CASE RestoreFinish \/ RestoreInterrupted
  BY <1>4 DEF RestoreFinish, RestoreInterrupted
<1>. QED BY <1>1, <1>2, <1>3, <1>4 DEF Maintain

LEMMA TypeEnvironment == TypeOK /\ Environment => TypeOK'
<1>. SUFFICES ASSUME TypeOK, Environment PROVE TypeOK'
  OBVIOUS
<1>1. ASSUME NEW op \in Ops, ServerAccepts(op) PROVE TypeOK'
  <2>1. answer' \in [Calls -> {"none", "created", "rejected"}]
    BY <1>1 DEF ServerAccepts, Deliver, TypeOK
  <2>2. network' \in [Ops -> Nat] /\ accepted' \in [Ops -> Nat]
    BY <1>1 DEF ServerAccepts, TypeOK
  <2>3. mailbox' \in [Ops -> [exact : Nat, other : Nat]]
    BY <1>1 DEF ServerAccepts, TypeOK, Holds
  <2>. QED
    BY <1>1, <2>1, <2>2, <2>3 DEF ServerAccepts, TypeOK, untouched
<1>2. ASSUME NEW op \in Ops, ServerRejects(op) PROVE TypeOK'
  BY <1>2 DEF ServerRejects, Deliver, TypeOK, untouched
<1>3. ASSUME NEW op \in Ops, CommandLost(op) PROVE TypeOK'
  BY <1>3 DEF CommandLost, TypeOK, localVars, callVars
<1>4. ASSUME NEW op \in Ops, UserChanges(op) PROVE TypeOK'
  <2>1. PICK x \in Nat, y \in Nat : mailbox' = [mailbox EXCEPT ![op] = Holds(x, y)]
    <3>. mailbox[op].exact \in Nat /\ mailbox[op].other \in Nat
      BY DEF TypeOK
    <3>. QED BY <1>4 DEF UserChanges
  <2>2. mailbox' \in [Ops -> [exact : Nat, other : Nat]]
    BY <2>1 DEF TypeOK, Holds
  <2>. QED
    BY <1>4, <2>2 DEF UserChanges, TypeOK, localVars, callVars
<1>5. ASSUME MailboxRecreated PROVE TypeOK'
  BY <1>5 DEF MailboxRecreated, TypeOK, Holds, localVars, callVars
<1>. QED BY <1>1, <1>2, <1>3, <1>4, <1>5 DEF Environment

(* Every variable keeps its type. *)
LEMMA TypeStep == TypeOK /\ [Next]_vars => TypeOK'
<1>. SUFFICES ASSUME TypeOK, [Next]_vars PROVE TypeOK'
  OBVIOUS
<1>1. ASSUME NEW c \in Calls, Start(c) PROVE TypeOK'
  <2>1. PICK r \in ReachableRequests :
          /\ req' = [req EXCEPT ![c] = r]
          /\ Goto(c, IF r.kind = "status" THEN "open" ELSE "lock")
    BY <1>1 DEF Start
  <2>. QED
    BY <1>1, <2>1 DEF Start, Goto, ReachableRequests, TypeOK, PCs, untouched, remote, serverVars
<1>2. ASSUME NEW c \in Calls, Crash(c) PROVE TypeOK'
  <2>1. writer' \in [Accounts -> Calls \cup {Free, Worker}]
    BY <1>2 DEF Crash, Released, TypeOK
  <2>. QED
    BY <1>2, <2>1, ForgetType DEF Crash, TypeOK, untouched, remote, serverVars
<1>3. ASSUME NEW a \in Accounts, WorkerEnds(a) PROVE TypeOK'
  BY <1>3, SuspendType DEF WorkerEnds, TypeOK, untouched, remote, serverVars, callVars
<1>4. CASE UNCHANGED vars
  BY <1>4 DEF vars, localVars, serverVars, callVars, TypeOK
<1>. QED
  BY <1>1, <1>2, <1>3, <1>4, TypeCallStep, TypeMaintain, TypeEnvironment DEF Next

LEMMA TypeInit == Init => TypeOK
<1>. SUFFICES ASSUME Init PROVE TypeOK
  OBVIOUS
<1>. USE Defaults DEF Init
<1>1. /\ journal \in [Ops -> Row]
      /\ snapshot \in [Ops -> Row]
      /\ prior \in [Calls -> Row]
      /\ bytes \in [Ops -> Content]
      /\ mailbox \in [Ops -> [exact : Nat, other : Nat]]
  BY DEF Content, Holds
<1>2. /\ pc \in [Calls -> PCs]
      /\ reply \in [Calls -> Replies]
      /\ answer \in [Calls -> {"none", "created", "rejected"}]
      /\ req \in [Calls -> Requests \cup {NoRequest}]
  BY DEF PCs, Replies
<1>3. /\ retired \subseteq Ops /\ validity \in Nat \ {0}
      /\ writer \in [Accounts -> Calls \cup {Free, Worker}]
      /\ target \in [Calls -> Nat] /\ dispatched \in [Calls -> BOOLEAN]
      /\ network \in [Ops -> Nat] /\ sent \in [Ops -> Nat] /\ accepted \in [Ops -> Nat]
  OBVIOUS
<1>. QED BY <1>1, <1>2, <1>3 DEF TypeOK

(* Type correctness of every reachable state. *)
THEOREM TypeCorrect == Spec => []TypeOK
BY TypeInit, TypeStep, PTL DEF Spec

-----------------------------------------------------------------------------
(* What the step of one call has to respect for the dispatch invariant: the
   other calls, their locks and the history stay as they are, and only the
   owner of an account's lock changes a row of the account. *)
Touches(c) ==
    /\ \A d \in Calls \ {c} : pc'[d] = pc[d] /\ req'[d] = req[d]
    /\ \A a \in Accounts : writer[a] \in Calls \ {c} => writer'[a] = writer[a]
    /\ UNCHANGED <<restored, maintainer>>
    /\ restored => fence' # "none"
    /\ maintainer = "idle"
    /\ \A op \in Ops :
          \/ journal'[op].state = journal[op].state
          \/ /\ writer[AccountOf[op]] = c
             /\ \/ journal'[op].state \notin {"absent", "prepared"}
                \/ journal[op].state \in {"absent", "prepared"}

(* What the invariant says of one call, after its step. *)
Settled(c) ==
    /\ pc[c] \in Owning => writer[LockOf(c)] = c /\ req[c].kind # "status"
    /\ pc[c] \in {"open", "opened"} /\ req[c].kind # "status" =>
           writer[LockOf(c)] = c
    /\ pc[c] \in {"lock", "contended"} => req[c].kind # "status"
    /\ restored => pc[c] \notin Creating
    /\ pc[c] \in Dispatching => journal[OpOf(c)].state = "in_flight"
    /\ pc[c] = "dispatched" => sent[OpOf(c)] = 0

LEMMA CallFrame ==
    ASSUME DispatchInvariant, TypeOK', NEW c \in Calls, Touches(c), Settled(c)',
           sent' = sent
    PROVE  DispatchInvariant'
<1>. USE DEF DispatchInvariant, OpOf, LockOf
<1>0. ASSUME NEW d \in Calls
      PROVE  OpOf(d) \in Ops /\ LockOf(d) \in Accounts
  BY <1>0, RequestTypes
<1>1. AtMostOneAppend'
  BY DEF AtMostOneAppend
<1>2. LocksHeld'
  <2>. SUFFICES ASSUME NEW d \in Calls, d # c
                PROVE  /\ pc'[d] \in Owning => writer'[LockOf(d)] = d /\ req[d].kind # "status"
                       /\ pc'[d] \in {"open", "opened"} /\ req[d].kind # "status" =>
                              writer'[LockOf(d)] = d
                       /\ pc'[d] \in {"lock", "contended"} => req[d].kind # "status"
    BY DEF LocksHeld, Settled, Touches
  <2>. QED
    BY <1>0 DEF LocksHeld, Touches
<1>3. RestoreFenced'
  BY DEF RestoreFenced, Touches, Settled
<1>4. WireFollowsRow'
  <2>1. ASSUME NEW op \in Ops, ~restored, journal'[op].state \in {"absent", "prepared"}
        PROVE  sent[op] = 0
    BY <2>1 DEF WireFollowsRow, Touches
  <2>2. ASSUME NEW d \in Calls, d # c, pc[d] \in Dispatching
        PROVE  journal'[OpOf(d)].state = "in_flight"
    BY <1>0, <2>2 DEF WireFollowsRow, Touches, LocksHeld, Dispatching, Owning
  <2>. QED
    BY <2>1, <2>2 DEF WireFollowsRow, Touches, Settled
<1>. QED BY <1>1, <1>2, <1>3, <1>4

(* A call that ends is settled, and disturbs nobody's lock. *)
LEMMA Ended ==
    ASSUME TypeOK, NEW c \in Calls, pc' = [pc EXCEPT ![c] = "done"]
    PROVE  Settled(c)'
BY DEF TypeOK, Settled, Owning, Creating, Dispatching

LEMMA ReleaseKeepsOthers ==
    ASSUME TypeOK, NEW c \in Calls, writer' = Released(c)
    PROVE  \A a \in Accounts : writer[a] \in Calls \ {c} => writer'[a] = writer[a]
BY DEF Released

LEMMA FenceStays ==
    ASSUME RestoreFenced, restored, MaybeSuspend \/ fence' = fence
    PROVE  fence' # "none"
BY DEF RestoreFenced, MaybeSuspend

(* An outcome is recorded by the owner of the row's lock, and never makes the
   row dispatchable again. *)
LEMMA RecordTouches ==
    ASSUME TypeOK, NEW c \in Calls, writer[LockOf(c)] = c,
           NEW outcome \in States \ {"absent", "prepared"},
           journal' = Record(journal, OpOf(c), outcome),
           NEW op \in Ops
    PROVE  \/ journal'[op].state = journal[op].state
           \/ /\ writer[AccountOf[op]] = c
              /\ journal'[op].state \notin {"absent", "prepared"}
<1>. OpOf(c) \in Ops /\ journal \in [Ops -> Row]
  BY RequestTypes DEF TypeOK
<1>1. CASE op = OpOf(c)
  <2>1. journal'[op].state = outcome
    BY <1>1 DEF Record, Row
  <2>. QED BY <1>1, <2>1 DEF LockOf
<1>2. CASE op # OpOf(c)
  BY <1>2 DEF Record
<1>. QED BY <1>1, <1>2

(* A call that is being served keeps maintenance away. *)
LEMMA ServedNotMaintained ==
    ASSUME RestoreFenced, NEW c \in Calls, pc[c] # "idle"
    PROVE  maintainer = "idle"
BY DEF RestoreFenced

(* The steps before a call freezes its operation. *)
LEMMA DispatchLookingSteps ==
    ASSUME DispatchInvariant, TypeOK', NEW c \in Calls,
           \/ AcquireWriter(c) \/ WriterContended(c) \/ PeekContended(c)
           \/ OpenJournal(c) \/ JournalFault(c) \/ RefuseLocally(c)
           \/ AnswerStatus(c) \/ DecideSave(c) \/ VerifyHistory(c)
           \/ ExamineTarget(c) \/ BeginReconcile(c)
    PROVE  Touches(c) /\ Settled(c)' /\ sent' = sent
<1>. USE RequestTypes, ServiceAssumption DEF DispatchInvariant
<1>. DEFINE Still == UNCHANGED <<journal, sent, restored, maintainer, req>>
<1>1. ASSUME Still, Goto(c, "open"), writer[LockOf(c)] = Free,
             writer' = [writer EXCEPT ![LockOf(c)] = c], fence' = fence, pc[c] = "lock"
      PROVE  Touches(c) /\ Settled(c)' /\ sent' = sent
  BY <1>1, ServedNotMaintained
  DEF Touches, Settled, Goto, TypeOK, LocksHeld, RestoreFenced, OpOf, LockOf,
      Owning, Creating, Dispatching
<1>2. ASSUME NEW r, Finish(c, r), Still, MaybeSuspend \/ fence' = fence, pc[c] # "idle"
      PROVE  Touches(c) /\ Settled(c)' /\ sent' = sent
  BY <1>2, Ended, ReleaseKeepsOthers, FenceStays, ServedNotMaintained
  DEF Touches, Finish, TypeOK
<1>3. ASSUME NEW p, Goto(c, p), Still, writer' = writer, fence' = fence, pc[c] # "idle",
             \/ pc[c] = "lock" /\ p = "contended"
             \/ pc[c] = "open" /\ p = "opened"
             \/ pc[c] = "opened" /\ req[c].kind = "save" /\ p = "verify" /\ ~restored
             \/ pc[c] = "verify" /\ p = "examine"
             \/ pc[c] = "examine" /\ p = "examined"
             \/ pc[c] = "opened" /\ req[c].kind = "reconcile" /\ p = "reconciling"
      PROVE  Touches(c) /\ Settled(c)' /\ sent' = sent
  <2>1. Touches(c)
    BY <1>3, ServedNotMaintained DEF Touches, Goto, TypeOK, RestoreFenced
  <2>2. Settled(c)'
    BY <1>3 DEF Settled, Goto, TypeOK, LocksHeld, RestoreFenced, OpOf, LockOf,
                Owning, Creating, Dispatching
  <2>. QED BY <1>3, <2>1, <2>2
<1>. USE DEF untouched, remote, serverVars
<1>4. CASE AcquireWriter(c)
  BY <1>4, <1>1 DEF AcquireWriter
<1>5. CASE WriterContended(c)
  BY <1>5, <1>3 DEF WriterContended
<1>6. CASE PeekContended(c)
  BY <1>6, <1>2 DEF PeekContended
<1>7. CASE OpenJournal(c)
  BY <1>7, <1>3 DEF OpenJournal
<1>8. CASE JournalFault(c)
  BY <1>8, <1>2 DEF JournalFault
<1>9. CASE RefuseLocally(c)
  BY <1>9, <1>2 DEF RefuseLocally
<1>10. CASE AnswerStatus(c)
  BY <1>10, <1>2 DEF AnswerStatus
<1>11. CASE DecideSave(c)
  <2>1. SaveDecision(c) = "go" => fence = "none"
    BY DEF SaveDecision, AbsentReply, Receipt, TypeOK, Row, States
  <2>2. CASE SaveDecision(c) = "go"
    BY <1>11, <2>1, <2>2, <1>3 DEF DecideSave, RestoreFenced
  <2>3. CASE SaveDecision(c) # "go"
    BY <1>11, <2>3, <1>2 DEF DecideSave
  <2>. QED BY <2>2, <2>3
<1>12. CASE VerifyHistory(c)
  <2>1. CASE fence = "none"
    BY <1>12, <2>1, <1>3 DEF VerifyHistory
  <2>2. CASE fence # "none"
    BY <1>12, <2>2, <1>2 DEF VerifyHistory
  <2>. QED BY <2>1, <2>2
<1>13. CASE ExamineTarget(c)
  <2>1. CASE Finish(c, "DraftMailboxUnavailable")
    BY <1>13, <2>1, <1>2 DEF ExamineTarget
  <2>2. CASE Goto(c, "examined") /\ writer' = writer
    BY <1>13, <2>2, <1>3 DEF ExamineTarget
  <2>. QED BY <1>13, <2>1, <2>2 DEF ExamineTarget
<1>14. CASE BeginReconcile(c)
  BY <1>14, <1>3 DEF BeginReconcile
<1>. QED
  BY <1>4, <1>5, <1>6, <1>7, <1>8, <1>9, <1>10, <1>11, <1>12, <1>13, <1>14

(* The steps that change the row: recovery, freezing, dispatch and outcomes. *)
LEMMA DispatchWritingSteps ==
    ASSUME DispatchInvariant, TypeOK', NEW c \in Calls,
           \/ RecoverInFlight(c) \/ FreezeOperation(c) \/ StartDispatch(c)
           \/ CompleteDispatch(c) \/ ReconcileDraft(c) \/ Cancel(c)
    PROVE  Touches(c) /\ Settled(c)' /\ sent' = sent
<1>. USE DEF DispatchInvariant
<1>. /\ OpOf(c) \in Ops /\ LockOf(c) \in Accounts
     /\ journal \in [Ops -> Row] /\ journal' \in [Ops -> Row]
  BY RequestTypes DEF TypeOK
<1>. DEFINE Still == UNCHANGED <<sent, restored, maintainer, req>>
            Rows == \A op \in Ops :
                       \/ journal'[op].state = journal[op].state
                       \/ /\ writer[AccountOf[op]] = c
                          /\ \/ journal'[op].state \notin {"absent", "prepared"}
                             \/ journal[op].state \in {"absent", "prepared"}
<1>1. ASSUME NEW r, Finish(c, r), Still, MaybeSuspend \/ fence' = fence,
             pc[c] # "idle", Rows
      PROVE  Touches(c) /\ Settled(c)' /\ sent' = sent
  BY <1>1, Ended, ReleaseKeepsOthers, FenceStays, ServedNotMaintained
  DEF Touches, Finish, TypeOK
<1>2. ASSUME writer[LockOf(c)] = c, NEW outcome \in States \ {"absent", "prepared"},
             journal' = Record(journal, OpOf(c), outcome)
      PROVE  Rows
  BY <1>2, RecordTouches
<1>3. ASSUME journal' = journal
      PROVE  Rows
  BY <1>3
<1>4. pc[c] \in Owning => writer[LockOf(c)] = c
  BY DEF LocksHeld
<1>5. "outcome_unknown" \in States \ {"absent", "prepared"}
      /\ "duplicate" \in States \ {"absent", "prepared"}
  BY DEF States
<1>. USE DEF untouched, remote, serverVars
<1>6. CASE RecoverInFlight(c)
  <2>1. writer[LockOf(c)] = c
    BY <1>6 DEF RecoverInFlight, LocksHeld
  <2>2. CASE /\ journal' = Record(journal, OpOf(c), "outcome_unknown")
             /\ UNCHANGED <<fence, writer, pc>>
    <3>1. Rows /\ Touches(c)
      BY <1>6, <2>1, <2>2, <1>2, <1>5, ServedNotMaintained
      DEF RecoverInFlight, Touches, RestoreFenced
    <3>2. Settled(c)'
      BY <1>6, <2>1, <2>2
      DEF RecoverInFlight, Settled, Owning, Creating, Dispatching, OpOf, LockOf
    <3>. QED BY <1>6, <3>1, <3>2 DEF RecoverInFlight
  <2>3. CASE Finish(c, "OutcomeUnknown") /\ MaybeSuspend /\ journal' = journal
    BY <1>6, <2>3, <1>1, <1>3 DEF RecoverInFlight
  <2>. QED BY <1>6, <2>2, <2>3 DEF RecoverInFlight
<1>7. CASE FreezeOperation(c)
  <2>1. writer[LockOf(c)] = c /\ req[c].kind # "status" /\ ~restored
    BY <1>7, <1>4 DEF FreezeOperation, LocksHeld, RestoreFenced, Creating, Owning
  <2>2. ASSUME NEW r, Finish(c, r), journal' = journal
        PROVE  Touches(c) /\ Settled(c)' /\ sent' = sent
    BY <1>7, <2>2, <1>1, <1>3 DEF FreezeOperation
  <2>3. ASSUME Rows, Goto(c, "frozen"), writer' = writer
        PROVE  Touches(c) /\ Settled(c)' /\ sent' = sent
    <3>1. Touches(c)
      BY <1>7, <2>3, <2>1, ServedNotMaintained DEF FreezeOperation, Touches, Goto, TypeOK
    <3>2. Settled(c)'
      BY <1>7, <2>3, <2>1
      DEF FreezeOperation, Settled, Goto, TypeOK, OpOf, LockOf, Owning, Creating,
          Dispatching
    <3>. QED BY <1>7, <3>1, <3>2 DEF FreezeOperation
  <2>4. ASSUME journal' = Reencode(journal, OpOf(c), req[c].encoder)
        PROVE  Rows
    BY <2>4 DEF Reencode, Row
  <2>5. ASSUME journal' = Prepare(journal, OpOf(c), Proposed(c))
        PROVE  Rows
    BY <2>5, <2>1 DEF Prepare, Proposed, PreparedRow, LockOf
  <2>. QED BY <1>7, <2>2, <2>3, <2>4, <2>5 DEF FreezeOperation, Frozen
<1>8. CASE StartDispatch(c)
  <2>1. writer[LockOf(c)] = c /\ req[c].kind # "status" /\ ~restored
    BY <1>8, <1>4 DEF StartDispatch, LocksHeld, RestoreFenced, Creating, Owning
  <2>2. journal[OpOf(c)].state = "prepared"
    BY <1>8 DEF StartDispatch, CanBeginDispatch
  <2>3. /\ journal'[OpOf(c)].state = "in_flight"
        /\ \A op \in Ops \ {OpOf(c)} : journal'[op] = journal[op]
    BY <1>8 DEF StartDispatch, BeginDispatch, Row
  <2>4. sent[OpOf(c)] = 0
    BY <2>1, <2>2 DEF WireFollowsRow
  <2>5. Touches(c)
    BY <1>8, <2>1, <2>3, ServedNotMaintained DEF StartDispatch, Touches, Goto, TypeOK, LockOf
  <2>6. Settled(c)'
    BY <1>8, <2>1, <2>3, <2>4
    DEF StartDispatch, Settled, Goto, TypeOK, OpOf, LockOf, Owning, Creating, Dispatching
  <2>. QED BY <1>8, <2>5, <2>6 DEF StartDispatch
<1>9. CASE CompleteDispatch(c)
  <2>1. writer[LockOf(c)] = c /\ pc[c] # "idle"
    BY <1>9, <1>4 DEF CompleteDispatch, Dispatching, Owning
  <2>2. ASSUME NEW outcome \in Outcomes(c) PROVE outcome \in States \ {"absent", "prepared"}
    BY <2>2 DEF Outcomes, TypeOK, States
  <2>3. PICK r : Finish(c, r)
    BY <1>9 DEF CompleteDispatch
  <2>4. MaybeSuspend \/ fence' = fence
    BY <1>9 DEF CompleteDispatch
  <2>5. Rows
    <3>1. CASE journal' = journal
      BY <3>1, <1>3
    <3>2. CASE journal' # journal
      <4>1. PICK outcome \in Outcomes(c) \cup {"outcome_unknown"} :
               journal' = Record(journal, OpOf(c), outcome)
        BY <1>9, <3>2 DEF CompleteDispatch
      <4>. QED BY <4>1, <2>1, <2>2, <1>2, <1>5
    <3>. QED BY <3>1, <3>2
  <2>. QED BY <1>9, <2>1, <2>3, <2>4, <2>5, <1>1 DEF CompleteDispatch
<1>10. CASE ReconcileDraft(c)
  <2>1. writer[LockOf(c)] = c /\ pc[c] # "idle"
    BY <1>10, <1>4 DEF ReconcileDraft, Owning
  <2>2. Rows
    BY <1>10, <2>1, <1>2, <1>3, <1>5 DEF ReconcileDraft
  <2>. QED BY <1>10, <2>1, <2>2, <1>1 DEF ReconcileDraft
<1>11. CASE Cancel(c)
  <2>1. pc[c] # "idle" /\ Settled(c)'
    BY <1>11, Ended DEF Cancel, Awaiting
  <2>2. pc[c] \in Dispatching \cup {"verify"} => writer[LockOf(c)] = c
    BY <1>4 DEF Dispatching, Owning
  <2>3. Rows
    <3>1. CASE journal' = journal
      BY <3>1, <1>3
    <3>2. CASE journal' = Record(journal, OpOf(c), "outcome_unknown") /\ pc[c] \in Dispatching
      BY <3>2, <2>2, <1>2, <1>5
    <3>. QED BY <1>11, <3>1, <3>2 DEF Cancel
  <2>4. \A a \in Accounts : writer[a] \in Calls \ {c} => writer'[a] = writer[a]
    BY <1>11, <2>2, ReleaseKeepsOthers DEF Cancel, TypeOK
  <2>. QED
    BY <1>11, <2>1, <2>3, <2>4, ServedNotMaintained
    DEF Cancel, Touches, TypeOK, RestoreFenced
<1>. QED BY <1>6, <1>7, <1>8, <1>9, <1>10, <1>11

(* The APPEND itself: only the owner of the row's lock writes it, and only once
   the row is in flight. *)
LEMMA DispatchWriteAppend ==
    ASSUME DispatchInvariant, TypeOK', NEW c \in Calls, WriteAppend(c)
    PROVE  DispatchInvariant'
<1>. USE DEF DispatchInvariant
<1>. DEFINE mine == OpOf(c)
<1>1. /\ mine \in Ops /\ mine' = mine
      /\ pc[c] = "dispatched" /\ pc' = [pc EXCEPT ![c] = "appending"]
      /\ sent' = [sent EXCEPT ![mine] = sent[mine] + 1]
      /\ UNCHANGED <<journal, fence, writer, req, restored, maintainer>>
  BY RequestTypes DEF WriteAppend, Goto, untouched, OpOf
<1>2. /\ writer[LockOf(c)] = c /\ req[c].kind # "status" /\ ~restored
      /\ journal[mine].state = "in_flight" /\ sent[mine] = 0
  BY <1>1 DEF LocksHeld, Owning, RestoreFenced, Creating, WireFollowsRow, Dispatching
<1>3. sent'[mine] = 1 /\ \A op \in Ops \ {mine} : sent'[op] = sent[op]
  BY <1>1, <1>2 DEF TypeOK
<1>4. AtMostOneAppend'
  BY <1>3 DEF AtMostOneAppend
<1>5. ASSUME NEW d \in Calls, pc[d] = "dispatched", d # c
      PROVE  OpOf(d) # mine
  BY <1>2, <1>5 DEF LocksHeld, Owning, LockOf
<1>6. /\ pc'[c] = "appending" /\ \A d \in Calls \ {c} : pc'[d] = pc[d]
      /\ \A d \in Calls : OpOf(d) \in Ops
  BY <1>1, RequestTypes DEF TypeOK
<1>7. LocksHeld'
  BY <1>1, <1>2, <1>6 DEF LocksHeld, OpOf, LockOf, Owning
<1>8. RestoreFenced'
  BY <1>1, <1>2, <1>6 DEF RestoreFenced
<1>9. WireFollowsRow'
  <2>1. ASSUME NEW op \in Ops, journal[op].state \in {"absent", "prepared"}
        PROVE  sent'[op] = 0
    BY <2>1, <1>2, <1>3 DEF WireFollowsRow
  <2>2. ASSUME NEW d \in Calls, pc'[d] \in Dispatching
        PROVE  journal[OpOf(d)].state = "in_flight"
    BY <2>2, <1>2, <1>6 DEF WireFollowsRow
  <2>3. ASSUME NEW d \in Calls, pc'[d] = "dispatched"
        PROVE  sent'[OpOf(d)] = 0
    BY <2>3, <1>3, <1>5, <1>6 DEF WireFollowsRow
  <2>. QED BY <1>1, <2>1, <2>2, <2>3 DEF WireFollowsRow, OpOf
<1>. QED BY <1>4, <1>7, <1>8, <1>9

(* A call that starts, returns or dies. *)
LEMMA DispatchBoundarySteps ==
    ASSUME DispatchInvariant, TypeOK', NEW c \in Calls,
           Start(c) \/ Return(c) \/ Crash(c)
    PROVE  Touches(c) /\ Settled(c)' /\ sent' = sent
<1>. USE DEF DispatchInvariant, untouched, remote, serverVars
<1>1. CASE Start(c)
  <2>1. PICK r \in ReachableRequests :
          /\ req' = [req EXCEPT ![c] = r]
          /\ Goto(c, IF r.kind = "status" THEN "open" ELSE "lock")
    BY <1>1 DEF Start
  <2>2. /\ req'[c] = r
        /\ pc'[c] = IF r.kind = "status" THEN "open" ELSE "lock"
    BY <2>1 DEF Goto, TypeOK
  <2>3. Settled(c)'
    BY <1>1, <2>2 DEF Settled, OpOf, LockOf, Owning, Creating, Dispatching
  <2>4. Touches(c)
    BY <1>1, <2>1 DEF Start, Touches, Goto, TypeOK, RestoreFenced
  <2>. QED BY <1>1, <2>3, <2>4 DEF Start
<1>2. CASE Return(c) \/ Crash(c)
  <2>1. pc[c] # "idle" /\ Forget(c) /\ (writer' = writer \/ writer' = Released(c))
    BY <1>2 DEF Return, Crash
  <2>2. Settled(c)'
    BY <2>1 DEF Forget, TypeOK, Settled, Owning, Creating, Dispatching
  <2>3. \A a \in Accounts : writer[a] \in Calls \ {c} => writer'[a] = writer[a]
    BY <2>1, ReleaseKeepsOthers
  <2>4. Touches(c)
    BY <1>2, <2>1, <2>3, ServedNotMaintained
    DEF Return, Crash, Forget, Touches, TypeOK, RestoreFenced
  <2>. QED BY <1>2, <2>2, <2>4 DEF Return, Crash
<1>. QED BY <1>1, <1>2

(* Steps of nobody's call. *)
LEMMA DispatchOtherSteps ==
    ASSUME DispatchInvariant, TypeOK',
           (\E a \in Accounts : WorkerEnds(a)) \/ Maintain \/ Environment \/ UNCHANGED vars
    PROVE  DispatchInvariant'
<1>. USE DEF DispatchInvariant
<1>0. \A c \in Calls : OpOf(c) \in Ops /\ LockOf(c) \in Accounts
  BY RequestTypes
<1>1. ASSUME NEW a \in Accounts, WorkerEnds(a) PROVE DispatchInvariant'
  <2>1. /\ UNCHANGED <<journal, pc, req, sent, restored, maintainer>>
        /\ writer' = [writer EXCEPT ![a] = Free] /\ writer[a] = Worker
        /\ restored => fence' # "none"
    BY <1>1, FenceStays DEF WorkerEnds, callVars, untouched, remote
  <2>2. LocksHeld'
    BY <2>1, <1>0, ServiceAssumption DEF LocksHeld, OpOf, LockOf, TypeOK
  <2>3. RestoreFenced'
    BY <2>1 DEF RestoreFenced
  <2>4. WireFollowsRow' /\ AtMostOneAppend'
    BY <2>1 DEF WireFollowsRow, AtMostOneAppend, OpOf
  <2>. QED BY <2>2, <2>3, <2>4
<1>2. ASSUME Maintain PROVE DispatchInvariant'
  <2>1. UNCHANGED <<writer, pc, req, sent>>
    BY <1>2 DEF Maintain, Retire, Backup, MaintenanceFault, RestoreFence, RestoreJournal,
                RestoreRegistry, RestoreFinish, RestoreInterrupted, untouched, callVars, remote
  <2>2. \A c \in Calls : pc[c] = "idle"
    BY <1>2 DEF Maintain, Retire, Backup, MaintenanceFault, RestoreFence, RestoreJournal,
                RestoreRegistry, RestoreFinish, RestoreInterrupted, untouched, Quiescent, RestoreFenced
  <2>3. restored' \/ UNCHANGED <<journal, restored, maintainer>>
    BY <1>2 DEF Maintain, Retire, Backup, MaintenanceFault, RestoreFence, RestoreJournal,
                RestoreRegistry, RestoreFinish, RestoreInterrupted, untouched, RestoreFenced
  <2>4. restored' => fence' # "none"
    BY <1>2 DEF Maintain, Retire, Backup, MaintenanceFault, RestoreFence, RestoreJournal,
                RestoreRegistry, RestoreFinish, RestoreInterrupted, untouched, RestoreFenced
  <2>5. LocksHeld' /\ AtMostOneAppend'
    BY <2>1 DEF LocksHeld, OpOf, LockOf, AtMostOneAppend
  <2>6. RestoreFenced'
    BY <2>1, <2>2, <2>3, <2>4 DEF RestoreFenced, Creating
  <2>7. WireFollowsRow'
    BY <2>1, <2>2, <2>3 DEF WireFollowsRow, Dispatching, OpOf, RestoreFenced
  <2>. QED BY <2>5, <2>6, <2>7
<1>3. ASSUME Environment \/ UNCHANGED vars PROVE DispatchInvariant'
  <2>1. UNCHANGED <<journal, fence, writer, pc, req, sent, restored, maintainer>>
    BY <1>3 DEF Environment, ServerAccepts, ServerRejects, CommandLost, UserChanges,
                MailboxRecreated, untouched, localVars, callVars, vars
  <2>. QED
    BY <2>1 DEF AtMostOneAppend, LocksHeld, RestoreFenced, WireFollowsRow, OpOf, LockOf
<1>. QED BY <1>1, <1>2, <1>3

LEMMA DispatchInit == Init => DispatchInvariant
<1>. SUFFICES ASSUME Init PROVE DispatchInvariant
  OBVIOUS
<1>1. TypeOK
  BY TypeInit
<1>2. AtMostOneAppend /\ WireFollowsRow
  BY <1>1, RequestTypes DEF Init, AtMostOneAppend, WireFollowsRow, Dispatching
<1>3. LocksHeld /\ RestoreFenced
  BY DEF Init, LocksHeld, RestoreFenced, Owning, Creating
<1>. QED BY <1>1, <1>2, <1>3 DEF DispatchInvariant

LEMMA DispatchStep == DispatchInvariant /\ [Next]_vars => DispatchInvariant'
<1>. SUFFICES ASSUME DispatchInvariant, [Next]_vars PROVE DispatchInvariant'
  OBVIOUS
<1>1. TypeOK'
  BY TypeStep DEF DispatchInvariant
<1>2. ASSUME NEW c \in Calls, Start(c) \/ CallStep(c) \/ Crash(c) PROVE DispatchInvariant'
  <2>1. CASE WriteAppend(c)
    BY <1>1, <2>1, DispatchWriteAppend
  <2>2. CASE ~WriteAppend(c)
    <3>1. Touches(c) /\ Settled(c)' /\ sent' = sent
      BY <1>1, <1>2, <2>2, DispatchLookingSteps, DispatchWritingSteps,
         DispatchBoundarySteps
      DEF CallStep
    <3>. QED BY <1>1, <3>1, CallFrame
  <2>. QED BY <2>1, <2>2
<1>. QED BY <1>1, <1>2, DispatchOtherSteps DEF Next

(* The dispatch invariant holds in every reachable state, for any numbers of
   calls, accounts, operations, builds and restores. *)
THEOREM DispatchInvariantHolds == Spec => []DispatchInvariant
BY DispatchInit, DispatchStep, PTL DEF Spec

(* At most one APPEND is written for a draft operation. *)
THEOREM AppendOnce == Spec => []AtMostOneAppend
<1>1. DispatchInvariant => AtMostOneAppend
  BY DEF DispatchInvariant
<1>. QED BY <1>1, DispatchInvariantHolds, PTL

(* Nobody recovers or takes over an operation that a live call dispatches. *)
THEOREM OwnerKeepsRow == Spec => []OwnerUndisturbed
<1>1. DispatchInvariant => OwnerUndisturbed
  BY DEF DispatchInvariant, OwnerUndisturbed, LocksHeld, WireFollowsRow, Owning, Dispatching
<1>. QED BY <1>1, DispatchInvariantHolds, PTL

(* Once a restore has begun no APPEND leaves the installation. *)
THEOREM RestoreSeals == Spec => NothingSentAfterRestore
<1>1. DispatchInvariant /\ [Next]_vars => [restored => sent' = sent]_vars
  <2>. SUFFICES ASSUME DispatchInvariant, Next, restored PROVE sent' = sent
    BY DEF vars
  <2>1. ASSUME NEW c \in Calls, Start(c) \/ CallStep(c) \/ Crash(c) PROVE sent' = sent
    <3>1. ~WriteAppend(c)
      BY DEF WriteAppend, DispatchInvariant, RestoreFenced, Creating
    <3>2. TypeOK'
      BY TypeStep DEF DispatchInvariant
    <3>. QED
      BY <2>1, <3>1, <3>2, DispatchLookingSteps, DispatchWritingSteps,
         DispatchBoundarySteps
      DEF CallStep
  <2>2. (\E a \in Accounts : WorkerEnds(a)) \/ Maintain \/ Environment => sent' = sent
    BY DEF WorkerEnds, Maintain, Retire, Backup, MaintenanceFault, RestoreFence,
           RestoreJournal,
           RestoreRegistry, RestoreFinish, RestoreInterrupted, Environment,
           ServerAccepts, ServerRejects, CommandLost, UserChanges, MailboxRecreated, remote
  <2>. QED BY <2>1, <2>2 DEF Next
<1>. QED BY <1>1, DispatchInvariantHolds, PTL DEF Spec, NothingSentAfterRestore

-----------------------------------------------------------------------------
(***************************************************************************)
(* What DraftService records and answers is true: the history invariant is *)
(* inductive, and with it the recorded outcomes, the replies, the bytes on *)
(* the wire and the refinement of DraftOnce hold for every installation.   *)
(***************************************************************************)

(* What the step of one call leaves alone: the other calls, the rows of the
   accounts whose lock it does not hold, and everything it does not own. *)
Aside(c) ==
    /\ \A d \in Calls \ {c} :
          /\ pc'[d] = pc[d] /\ req'[d] = req[d] /\ prior'[d] = prior[d]
          /\ dispatched'[d] = dispatched[d] /\ answer'[d] = answer[d]
          /\ reply'[d] = reply[d]
    /\ \A op \in Ops : writer[AccountOf[op]] # c => journal'[op] = journal[op]
    /\ UNCHANGED <<retired, snapshot, restored>>

(* What the step of one call has to keep of the journal. *)
JournalKept ==
    \A op \in Ops :
        /\ TruthfulRow(journal', op)
        /\ WireMatches(journal', op)
        /\ journal'[op].state \in {"absent", "prepared"} =>
               journal[op].state \in {"absent", "prepared"}

LEMMA HistoryCallFrame ==
    ASSUME HistoryInvariant, DispatchInvariant', NEW c \in Calls,
           Aside(c), CallHistory(c)', JournalKept, UNCHANGED remote
    PROVE  HistoryInvariant'
<1>. USE DEF HistoryInvariant, remote, serverVars
<1>1. ASSUME NEW d \in Calls, d # c
      PROVE  CallHistory(d)'
  <2>1. /\ pc'[d] = pc[d] /\ req'[d] = req[d] /\ prior'[d] = prior[d]
        /\ dispatched'[d] = dispatched[d] /\ answer'[d] = answer[d]
        /\ reply'[d] = reply[d] /\ OpOf(d)' = OpOf(d) /\ OpOf(d) \in Ops
    BY <1>1, RequestTypes DEF Aside, OpOf, DispatchInvariant
  <2>2. \/ pc[d] \in {"opened", "verify", "examine", "examined", "frozen", "reconciling"}
              /\ req[d].kind # "status"
        \/ pc[d] \in Dispatching
        => writer[LockOf(d)] = d
    BY DEF DispatchInvariant, LocksHeld, Owning, Dispatching
  <2>3. \/ pc[d] \in {"opened", "verify", "examine", "examined", "frozen", "reconciling"}
              /\ req[d].kind # "status"
        \/ pc[d] \in Dispatching
        => journal'[OpOf(d)] = journal[OpOf(d)]
    BY <1>1, <2>1, <2>2 DEF Aside, LockOf
  <2>4. CallHistory(d)
    OBVIOUS
  <2>. QED
    BY <2>1, <2>3, <2>4 DEF Aside, CallHistory, TruthfulState, ContentOf
<1>2. ASSUME NEW op \in Ops
      PROVE  OperationHistory(op)'
  <2>1. OperationHistory(op)
    OBVIOUS
  <2>. QED
    BY <2>1 DEF OperationHistory, JournalKept, Aside, TruthfulRow, TruthfulState,
                WireMatches
<1>. QED BY <1>1, <1>2

(* A journal that did not change keeps its history. *)
LEMMA SameJournal ==
    ASSUME HistoryInvariant, journal' = journal
    PROVE  JournalKept
BY DEF HistoryInvariant, OperationHistory, JournalKept

(* A call that ends says something true, and nothing that invites a retry once
   it has dispatched. *)
LEMMA EndedHistory ==
    ASSUME HistoryInvariant, NEW c \in Calls, NEW r \in Replies \ {"none"},
           pc' = [pc EXCEPT ![c] = "done"],
           reply' = [reply EXCEPT ![c] = r],
           prior' = [prior EXCEPT ![c] = AbsentRow],
           answer' = [answer EXCEPT ![c] = "none"],
           UNCHANGED <<req, dispatched, accepted, network, sent>>,
           dispatched[c] => r \in {"Created", "Rejected", "OutcomeUnknown"},
           r \in {"Created", "Duplicate"} => TruthfulState("created", OpOf(c)),
           r = "Rejected" => TruthfulState("rejected", OpOf(c))
    PROVE  CallHistory(c)'
<1>1. /\ pc'[c] = "done" /\ reply'[c] = r /\ prior'[c].state = "absent"
      /\ answer'[c] = "none" /\ dispatched'[c] = dispatched[c] /\ OpOf(c)' = OpOf(c)
  BY DEF HistoryInvariant, DispatchInvariant, TypeOK, AbsentRow, OpOf
<1>. QED
  BY <1>1 DEF CallHistory, TruthfulState, Dispatching

(* Finish leaves the other calls alone. *)
LEMMA FinishAside ==
    ASSUME TypeOK, NEW c \in Calls,
           pc' = [pc EXCEPT ![c] = "done"],
           \E r : reply' = [reply EXCEPT ![c] = r],
           prior' = [prior EXCEPT ![c] = AbsentRow],
           answer' = [answer EXCEPT ![c] = "none"],
           UNCHANGED <<req, dispatched, retired, snapshot, restored>>,
           \A op \in Ops : writer[AccountOf[op]] # c => journal'[op] = journal[op]
    PROVE  Aside(c)
BY DEF Aside, TypeOK

(* An answered receipt says what the row says. *)
LEMMA ReceiptHistory ==
    ASSUME NEW state \in States \ {"absent"}, NEW op \in Ops, TruthfulState(state, op)
    PROVE  /\ Receipt(state) \in Replies \ {"none"}
           /\ Receipt(state) \in {"Created", "Duplicate"} => TruthfulState("created", op)
           /\ Receipt(state) = "Rejected" => TruthfulState("rejected", op)
BY DEF States, Receipt, Replies, TruthfulState

(* An outcome that is true is recorded by the lock owner: the history stays. *)
LEMMA RecordHistory ==
    ASSUME HistoryInvariant, NEW c \in Calls, writer[LockOf(c)] = c,
           NEW outcome \in States \ {"absent", "prepared"},
           journal[OpOf(c)].state \in {"in_flight", "outcome_unknown"},
           journal' = Record(journal, OpOf(c), outcome),
           TruthfulState(outcome, OpOf(c))
    PROVE  /\ JournalKept
           /\ \A op \in Ops : writer[AccountOf[op]] # c => journal'[op] = journal[op]
<1>. USE DEF HistoryInvariant
<1>0. OpOf(c) \in Ops /\ journal \in [Ops -> Row]
  BY RequestTypes DEF TypeOK, DispatchInvariant
<1>1. \A op \in Ops \ {OpOf(c)} : journal'[op] = journal[op]
  BY <1>0 DEF Record
<1>2. /\ journal'[OpOf(c)].state = outcome
      /\ ContentOf(journal'[OpOf(c)]) = ContentOf(journal[OpOf(c)])
  BY <1>0 DEF Record, Row, ContentOf
<1>3. \A op \in Ops : OperationHistory(op)
  OBVIOUS
<1>4. ASSUME NEW op \in Ops
      PROVE  /\ TruthfulRow(journal', op)
             /\ WireMatches(journal', op)
             /\ journal'[op].state \in {"absent", "prepared"} =>
                    journal[op].state \in {"absent", "prepared"}
  <2>1. CASE op = OpOf(c)
    BY <1>0, <1>2, <1>3, <2>1 DEF OperationHistory, TruthfulRow, WireMatches
  <2>2. CASE op # OpOf(c)
    BY <1>1, <1>3, <2>2 DEF OperationHistory, TruthfulRow, WireMatches
  <2>. QED BY <2>1, <2>2
<1>. QED BY <1>1, <1>4 DEF JournalKept, LockOf

-----------------------------------------------------------------------------
(* The steps that only look: what a call learns or answers is true. *)
LEMMA HistoryLookingSteps ==
    ASSUME HistoryInvariant, DispatchInvariant', NEW c \in Calls,
           \/ AcquireWriter(c) \/ WriterContended(c) \/ PeekContended(c)
           \/ OpenJournal(c) \/ JournalFault(c) \/ RefuseLocally(c)
           \/ AnswerStatus(c) \/ DecideSave(c) \/ VerifyHistory(c)
           \/ ExamineTarget(c) \/ BeginReconcile(c)
    PROVE  HistoryInvariant'
<1>. USE DEF HistoryInvariant, untouched, remote, serverVars
<1>. DEFINE Still == UNCHANGED <<journal, req, dispatched, retired, snapshot, restored, remote>>
<1>0. /\ TypeOK /\ OpOf(c) \in Ops /\ prior[c].state \in States
      /\ CallHistory(c)
      /\ pc[c] \notin Dispatching /\ pc[c] \notin {"idle", "done"}
  BY RequestTypes
  DEF DispatchInvariant, TypeOK, Row, Dispatching, AcquireWriter, WriterContended,
      PeekContended, OpenJournal, JournalFault, RefuseLocally, AnswerStatus, DecideSave,
      VerifyHistory, ExamineTarget, BeginReconcile
<1>1. ~dispatched[c] /\ answer[c] = "none" /\ reply[c] = "none"
  BY <1>0 DEF CallHistory, Dispatching
<1>2. ASSUME NEW r \in Replies \ {"none"}, Finish(c, r), Still,
             r \in {"Created", "Duplicate"} => TruthfulState("created", OpOf(c)),
             r = "Rejected" => TruthfulState("rejected", OpOf(c))
      PROVE  HistoryInvariant'
  <2>1. CallHistory(c)'
    BY <1>1, <1>2, EndedHistory DEF Finish
  <2>2. Aside(c)
    BY <1>0, <1>2, FinishAside DEF Finish
  <2>3. JournalKept
    BY <1>2, SameJournal
  <2>. QED BY <1>2, <2>1, <2>2, <2>3, HistoryCallFrame
<1>3. ASSUME NEW p, Goto(c, p), Still, UNCHANGED <<answer, reply>>,
             \A d \in Calls \ {c} : prior'[d] = prior[d], CallHistory(c)'
      PROVE  HistoryInvariant'
  <2>1. Aside(c)
    BY <1>0, <1>3 DEF Aside, Goto, TypeOK
  <2>2. JournalKept
    BY <1>3, SameJournal
  <2>. QED BY <1>3, <2>1, <2>2, HistoryCallFrame
<1>4. ASSUME NEW p, Goto(c, p), Still, UNCHANGED <<answer, reply, prior>>,
             \/ p \in {"open", "contended"}
             \/ p = "examine" /\ pc[c] = "verify"
             \/ p = "examined" /\ pc[c] = "examine"
             \/ p = "reconciling" /\ pc[c] = "opened"
             \/ p = "verify" /\ pc[c] = "opened" /\ req[c].kind = "save"
                    /\ prior[c].state \in {"absent", "prepared"}
                    /\ (prior[c].state = "absent" => OpOf(c) \notin retired)
                    /\ (prior[c].state = "prepared" => prior[c].input = req[c].input)
      PROVE  HistoryInvariant'
  <2>1. pc'[c] = p /\ OpOf(c)' = OpOf(c)
    BY <1>0, <1>4 DEF Goto, TypeOK, OpOf
  <2>2. CallHistory(c)'
    BY <1>0, <1>1, <1>4, <2>1 DEF CallHistory, TruthfulState, Dispatching
  <2>. QED BY <1>3, <1>4, <2>2
<1>5. CASE AcquireWriter(c)
  BY <1>4, <1>5 DEF AcquireWriter
<1>6. CASE WriterContended(c)
  BY <1>4, <1>6 DEF WriterContended
<1>7. CASE PeekContended(c)
  <2>1. {"OperationInProgress", "RateLimited"} \subseteq Replies \ {"none"}
    BY DEF Replies
  <2>. QED BY <1>2, <1>7, <2>1 DEF PeekContended
<1>8. CASE OpenJournal(c)
  <2>1. /\ pc'[c] = "opened" /\ OpOf(c)' = OpOf(c) /\ prior'[c] = journal[OpOf(c)]
        /\ \A d \in Calls \ {c} : prior'[d] = prior[d]
    BY <1>0, <1>8 DEF OpenJournal, Goto, TypeOK, OpOf
  <2>2. TruthfulRow(journal, OpOf(c))
    BY <1>0 DEF OperationHistory
  <2>3. CallHistory(c)'
    BY <1>1, <1>8, <2>1, <2>2
    DEF OpenJournal, CallHistory, TruthfulRow, TruthfulState, Dispatching
  <2>. QED BY <1>3, <1>8, <2>1, <2>3 DEF OpenJournal
<1>9. CASE JournalFault(c)
  <2>1. {"JournalUnavailable", "RateLimited"} \subseteq Replies \ {"none"}
    BY DEF Replies
  <2>. QED BY <1>2, <1>9, <2>1 DEF JournalFault
<1>10. CASE RefuseLocally(c)
  <2>1. "Refused" \in Replies \ {"none"}
    BY DEF Replies
  <2>. QED BY <1>2, <1>10, <2>1 DEF RefuseLocally
<1>11. CASE AnswerStatus(c)
  <2>. DEFINE r == IF prior[c].state = "absent" THEN AbsentReply ELSE Receipt(prior[c].state)
  <2>1. TruthfulState(prior[c].state, OpOf(c))
    BY <1>0 DEF CallHistory
  <2>2. AbsentReply \in Replies \ {"none", "Created", "Duplicate", "Rejected"}
    BY DEF AbsentReply, Replies
  <2>3. /\ r \in Replies \ {"none"}
        /\ r \in {"Created", "Duplicate"} => TruthfulState("created", OpOf(c))
        /\ r = "Rejected" => TruthfulState("rejected", OpOf(c))
    BY <1>0, <2>1, <2>2, ReceiptHistory
  <2>4. Finish(c, r) /\ Still
    BY <1>11 DEF AnswerStatus
  <2>. HIDE DEF r
  <2>. QED BY <1>2, <2>3, <2>4
<1>12. CASE DecideSave(c)
  <2>1. TruthfulState(prior[c].state, OpOf(c))
    BY <1>0 DEF CallHistory
  <2>2. CASE SaveDecision(c) = "go"
    <3>1. /\ prior[c].state \in {"absent", "prepared"}
          /\ prior[c].state = "absent" => OpOf(c) \notin retired
          /\ prior[c].state = "prepared" => prior[c].input = req[c].input
      BY <1>0, <2>2 DEF SaveDecision, AbsentReply, Receipt, States
    <3>. QED BY <1>4, <1>12, <2>2, <3>1 DEF DecideSave
  <2>3. CASE SaveDecision(c) # "go"
    <3>1. \/ SaveDecision(c) \in Replies \ {"none", "Created", "Duplicate", "Rejected"}
          \/ prior[c].state # "absent" /\ SaveDecision(c) = Receipt(prior[c].state)
      BY <2>3 DEF SaveDecision, AbsentReply, Replies
    <3>2. /\ SaveDecision(c) \in Replies \ {"none"}
          /\ SaveDecision(c) \in {"Created", "Duplicate"} => TruthfulState("created", OpOf(c))
          /\ SaveDecision(c) = "Rejected" => TruthfulState("rejected", OpOf(c))
      BY <1>0, <2>1, <3>1, ReceiptHistory
    <3>. QED BY <1>2, <1>12, <2>3, <3>2 DEF DecideSave
  <2>. QED BY <2>2, <2>3
<1>13. CASE VerifyHistory(c)
  <2>1. "JournalUnavailable" \in Replies \ {"none"}
    BY DEF Replies
  <2>2. CASE fence = "none"
    BY <1>4, <1>13, <2>2 DEF VerifyHistory
  <2>3. CASE fence # "none"
    BY <1>2, <1>13, <2>1, <2>3 DEF VerifyHistory
  <2>. QED BY <2>2, <2>3
<1>14. CASE ExamineTarget(c)
  <2>1. "DraftMailboxUnavailable" \in Replies \ {"none"}
    BY DEF Replies
  <2>2. CASE Finish(c, "DraftMailboxUnavailable")
    BY <1>2, <1>14, <2>1, <2>2 DEF ExamineTarget
  <2>3. CASE Goto(c, "examined") /\ UNCHANGED <<prior, answer, reply>>
    BY <1>4, <1>14, <2>3 DEF ExamineTarget
  <2>. QED BY <1>14, <2>2, <2>3 DEF ExamineTarget
<1>15. CASE BeginReconcile(c)
  BY <1>4, <1>15 DEF BeginReconcile
<1>. QED
  BY <1>5, <1>6, <1>7, <1>8, <1>9, <1>10, <1>11, <1>12, <1>13, <1>14, <1>15

(* The steps that write the row: recovery, freezing and Dispatch::start. *)
LEMMA HistoryFreezingSteps ==
    ASSUME HistoryInvariant, DispatchInvariant', NEW c \in Calls,
           RecoverInFlight(c) \/ FreezeOperation(c) \/ StartDispatch(c)
    PROVE  HistoryInvariant'
<1>. USE DEF HistoryInvariant, untouched, remote, serverVars
<1>. DEFINE op == OpOf(c)
            Others == \A o \in Ops : writer[AccountOf[o]] # c => journal'[o] = journal[o]
<1>0. /\ TypeOK /\ TypeOK' /\ op \in Ops /\ op' = op /\ CallHistory(c)
      /\ journal \in [Ops -> Row] /\ journal' \in [Ops -> Row]
      /\ pc[c] \in {"opened", "examined", "frozen"} /\ req[c].kind # "status"
      /\ writer[LockOf(c)] = c
      /\ UNCHANGED <<req, retired, snapshot, restored, remote>>
  BY RequestTypes
  DEF DispatchInvariant, TypeOK, RecoverInFlight, FreezeOperation, StartDispatch, LocksHeld,
      Owning, OpOf
<1>1. ~dispatched[c] /\ answer[c] = "none" /\ reply[c] = "none" /\ prior[c] = journal[op]
  BY <1>0 DEF CallHistory, Dispatching
<1>2. ASSUME NEW r \in Replies \ {"none", "Created", "Duplicate", "Rejected"}, Finish(c, r),
             UNCHANGED <<journal, dispatched>>
      PROVE  HistoryInvariant'
  <2>1. CallHistory(c)'
    BY <1>0, <1>1, <1>2, EndedHistory DEF Finish
  <2>2. Aside(c)
    BY <1>0, <1>2, FinishAside DEF Finish
  <2>. QED BY <1>0, <1>2, <2>1, <2>2, SameJournal, HistoryCallFrame
<1>3. ASSUME \A o \in Ops \ {op} : journal'[o] = journal[o]
      PROVE  Others
  BY <1>0, <1>3 DEF LockOf
<1>4. CASE RecoverInFlight(c)
  <2>1. CASE /\ journal' = Record(journal, op, "outcome_unknown")
             /\ prior' = [prior EXCEPT ![c] = journal'[op]]
             /\ UNCHANGED <<pc, answer, reply>>
    <3>1. JournalKept /\ Others
      <4>1. "outcome_unknown" \in States \ {"absent", "prepared"}
        BY DEF States
      <4>. QED
        BY <1>0, <1>1, <1>4, <2>1, <4>1, RecordHistory DEF RecoverInFlight, TruthfulState
    <3>2. prior'[c] = journal'[op] /\ journal'[op].state = "outcome_unknown"
      BY <1>0, <2>1 DEF TypeOK, Record, Row
    <3>3. CallHistory(c)'
      BY <1>0, <1>1, <1>4, <2>1, <3>2
      DEF RecoverInFlight, CallHistory, TruthfulState, Dispatching
    <3>4. Aside(c)
      BY <1>0, <1>4, <2>1, <3>1 DEF RecoverInFlight, Aside, TypeOK
    <3>. QED BY <1>0, <3>1, <3>3, <3>4, HistoryCallFrame
  <2>2. CASE Finish(c, "OutcomeUnknown") /\ journal' = journal
    BY <1>2, <1>4, <2>2 DEF RecoverInFlight, Replies
  <2>. QED BY <1>4, <2>1, <2>2 DEF RecoverInFlight
<1>5. CASE FreezeOperation(c)
  <2>1. /\ prior[c].state \in {"absent", "prepared"}
        /\ prior[c].state = "prepared" => prior[c].input = req[c].input
        /\ UNCHANGED dispatched /\ pc[c] = "examined" /\ ~restored
    BY <1>0, <1>5 DEF FreezeOperation, CallHistory, DispatchInvariant, RestoreFenced, Creating
  <2>2. ASSUME NEW r \in {"DraftMailboxUnavailable", "JournalUnavailable", "JournalFull",
                          "OperationConflict"},
               Finish(c, r), journal' = journal
        PROVE  HistoryInvariant'
    BY <1>2, <2>1, <2>2 DEF Replies
  <2>3. ASSUME Frozen(c), journal'[op].state = "prepared",
               ContentOf(journal'[op]) = ContentOf(req[c]),
               \A o \in Ops \ {op} : journal'[o] = journal[o]
        PROVE  HistoryInvariant'
    <3>1. /\ pc'[c] = "frozen" /\ prior'[c] = journal'[op] /\ answer'[c] = answer[c]
          /\ reply'[c] = reply[c]
      BY <1>0, <2>3 DEF Frozen, Goto, TypeOK
    <3>2. CallHistory(c)'
      BY <1>0, <1>1, <2>1, <2>3, <3>1
      DEF CallHistory, TruthfulState, Dispatching
    <3>3. JournalKept
      BY <1>1, <2>1, <2>3
      DEF JournalKept, OperationHistory, TruthfulRow, TruthfulState, WireMatches
    <3>4. Aside(c)
      BY <1>0, <1>3, <2>1, <2>3 DEF Frozen, Goto, Aside, TypeOK
    <3>. QED BY <1>0, <3>2, <3>3, <3>4, HistoryCallFrame
  <2>4. CASE /\ Reencoding(c)
             /\ journal' = Reencode(journal, op, req[c].encoder)
             /\ Frozen(c)
    <3>1. /\ journal'[op].state = journal[op].state
          /\ journal'[op].input = journal[op].input
          /\ journal'[op].encoder = req[c].encoder
          /\ \A o \in Ops \ {op} : journal'[o] = journal[o]
      BY <1>0, <2>4 DEF Reencode, Row
    <3>. QED BY <1>1, <2>1, <2>3, <2>4, <3>1 DEF Reencoding, ContentOf
  <2>5. CASE /\ CanPrepare(journal, op, Proposed(c))
             /\ journal' = Prepare(journal, op, Proposed(c))
             /\ Frozen(c)
    <3>1. CASE journal[op].state = "absent"
      <4>1. journal'[op] = Proposed(c) /\ \A o \in Ops \ {op} : journal'[o] = journal[o]
        BY <1>0, <2>5, <3>1 DEF Prepare
      <4>. QED BY <2>3, <2>5, <4>1 DEF Proposed, PreparedRow, ContentOf
    <3>2. CASE journal[op].state # "absent"
      BY <1>1, <2>1, <2>3, <2>5, <3>2
      DEF Prepare, CanPrepare, SameFacts, Proposed, PreparedRow, ContentOf
    <3>. QED BY <3>1, <3>2
  <2>. QED BY <1>5, <2>2, <2>4, <2>5 DEF FreezeOperation
<1>6. CASE StartDispatch(c)
  <2>1. /\ journal[op].state = "prepared"
        /\ journal'[op].state = "in_flight"
        /\ ContentOf(journal'[op]) = ContentOf(journal[op])
        /\ \A o \in Ops \ {op} : journal'[o] = journal[o]
    BY <1>0, <1>6 DEF StartDispatch, CanBeginDispatch, BeginDispatch, Row, ContentOf
  <2>2. /\ pc[c] = "frozen" /\ pc'[c] = "dispatched" /\ ContentOf(prior[c]) = ContentOf(req[c])
        /\ UNCHANGED <<answer, reply, prior>>
    BY <1>0, <1>6 DEF StartDispatch, Goto, TypeOK, CallHistory
  <2>3. sent[op] = 0 /\ snapshot[op].state \in {"absent", "prepared"}
    BY <1>0, <2>1, <2>2
    DEF DispatchInvariant, WireFollowsRow, RestoreFenced, Creating, OperationHistory
  <2>4. CallHistory(c)'
    BY <1>0, <1>1, <2>1, <2>2, <2>3 DEF CallHistory, TruthfulState, Dispatching
  <2>5. JournalKept
    BY <1>0, <2>1, <2>3
    DEF JournalKept, OperationHistory, TruthfulRow, TruthfulState, WireMatches
  <2>6. Aside(c)
    BY <1>0, <1>3, <1>6, <2>1 DEF StartDispatch, Goto, Aside, TypeOK
  <2>. QED BY <1>0, <2>4, <2>5, <2>6, HistoryCallFrame
<1>. QED BY <1>4, <1>5, <1>6

(* The steps that end a dispatch or a reconciliation: the outcome is the
   server's, or uncertainty. *)
LEMMA HistoryOutcomeSteps ==
    ASSUME HistoryInvariant, DispatchInvariant', NEW c \in Calls,
           CompleteDispatch(c) \/ ReconcileDraft(c) \/ Cancel(c)
    PROVE  HistoryInvariant'
<1>. USE DEF HistoryInvariant, untouched, remote, serverVars
<1>. DEFINE op == OpOf(c)
            Others == \A o \in Ops : writer[AccountOf[o]] # c => journal'[o] = journal[o]
<1>0. /\ TypeOK /\ op \in Ops /\ CallHistory(c) /\ OperationHistory(op)
      /\ pc[c] \in Dispatching \cup {"reconciling"} => writer[LockOf(c)] = c
      /\ UNCHANGED <<req, dispatched, retired, snapshot, restored, remote>>
  BY RequestTypes
  DEF DispatchInvariant, CompleteDispatch, ReconcileDraft, Cancel, LocksHeld, Owning, Dispatching
<1>1. ASSUME JournalKept, Others, NEW r \in Replies \ {"none"},
             pc' = [pc EXCEPT ![c] = "done"],
             reply' = [reply EXCEPT ![c] = r],
             prior' = [prior EXCEPT ![c] = AbsentRow],
             answer' = [answer EXCEPT ![c] = "none"],
             dispatched[c] => r \in {"Created", "Rejected", "OutcomeUnknown"},
             r \in {"Created", "Duplicate"} => TruthfulState("created", op),
             r = "Rejected" => TruthfulState("rejected", op)
      PROVE  HistoryInvariant'
  <2>1. CallHistory(c)'
    BY <1>0, <1>1, EndedHistory
  <2>2. Aside(c)
    BY <1>0, <1>1, FinishAside
  <2>. QED BY <1>0, <1>1, <2>1, <2>2, HistoryCallFrame
<1>2. ASSUME pc[c] \in Dispatching \cup {"reconciling"},
             NEW outcome \in States \ {"absent", "prepared"},
             CanRecord(journal, op, outcome), TruthfulState(outcome, op),
             journal' = Record(journal, op, outcome)
      PROVE  JournalKept /\ Others
  BY <1>0, <1>2, RecordHistory DEF CanRecord
<1>3. ASSUME journal' = journal
      PROVE  JournalKept /\ Others
  BY <1>3, SameJournal
<1>4. /\ "outcome_unknown" \in States \ {"absent", "prepared"}
      /\ "duplicate" \in States \ {"absent", "prepared"}
      /\ TruthfulState("outcome_unknown", op)
      /\ {"OutcomeUnknown", "Duplicate", "Timeout"} \subseteq Replies \ {"none"}
  BY DEF States, TruthfulState, Replies
<1>5. CASE CompleteDispatch(c)
  <2>1. CASE \E outcome \in Outcomes(c) :
                /\ CanRecord(journal, op, outcome)
                /\ journal' = Record(journal, op, outcome)
                /\ Finish(c, Receipt(outcome))
    <3>1. PICK outcome \in Outcomes(c) :
                /\ CanRecord(journal, op, outcome)
                /\ journal' = Record(journal, op, outcome)
                /\ Finish(c, Receipt(outcome))
      BY <2>1
    <3>2. outcome \in {"created", "rejected", "outcome_unknown"} /\ TruthfulState(outcome, op)
      BY <1>0, <1>4 DEF Outcomes, TypeOK, CallHistory
    <3>3. Receipt(outcome) \in {"Created", "Rejected", "OutcomeUnknown"}
      BY <3>2 DEF Receipt
    <3>4. /\ Receipt(outcome) \in Replies \ {"none"}
          /\ Receipt(outcome) \in {"Created", "Duplicate"} => TruthfulState("created", op)
          /\ Receipt(outcome) = "Rejected" => TruthfulState("rejected", op)
      BY <1>0, <3>2, ReceiptHistory DEF States
    <3>5. JournalKept /\ Others
      BY <1>2, <1>5, <3>1, <3>2 DEF CompleteDispatch, States
    <3>. QED BY <1>1, <3>1, <3>3, <3>4, <3>5 DEF Finish
  <2>2. CASE /\ Finish(c, "OutcomeUnknown")
             /\ \/ journal' = journal
                \/ /\ CanRecord(journal, op, "outcome_unknown")
                   /\ journal' = Record(journal, op, "outcome_unknown")
    <3>1. JournalKept /\ Others
      BY <1>2, <1>3, <1>4, <1>5, <2>2 DEF CompleteDispatch
    <3>. QED BY <1>1, <1>4, <2>2, <3>1 DEF Finish
  <2>. QED BY <1>5, <2>1, <2>2 DEF CompleteDispatch
<1>6. CASE ReconcileDraft(c)
  <2>1. ~dispatched[c]
    BY <1>0, <1>6 DEF ReconcileDraft, CallHistory, Dispatching
  <2>2. CASE /\ EvidenceVerified(c)
             /\ CanRecord(journal, op, "duplicate")
             /\ journal' = Record(journal, op, "duplicate")
             /\ Finish(c, "Duplicate")
    <3>1. TruthfulState("duplicate", op) /\ TruthfulState("created", op)
      BY <1>0, <2>2 DEF EvidenceVerified, OperationHistory, TruthfulState, TypeOK
    <3>2. JournalKept /\ Others
      BY <1>2, <1>4, <1>6, <2>2, <3>1 DEF ReconcileDraft
    <3>. QED BY <1>1, <1>4, <2>1, <2>2, <3>1, <3>2 DEF Finish
  <2>3. CASE Finish(c, "OutcomeUnknown") /\ journal' = journal
    BY <1>1, <1>3, <1>4, <2>3 DEF Finish
  <2>. QED BY <1>6, <2>2, <2>3 DEF ReconcileDraft
<1>7. CASE Cancel(c)
  <2>1. JournalKept /\ Others
    BY <1>2, <1>3, <1>4, <1>7 DEF Cancel
  <2>2. /\ CancelReply(c) \in {"OutcomeUnknown", "Timeout"}
        /\ dispatched[c] => CancelReply(c) = "OutcomeUnknown"
    BY DEF CancelReply
  <2>. QED BY <1>1, <1>4, <1>7, <2>1, <2>2 DEF Cancel
<1>. QED BY <1>5, <1>6, <1>7

(* The APPEND carries the content of the row that is in flight; no record of
   an outcome, old or new, exists yet. *)
LEMMA HistoryWriteAppend ==
    ASSUME HistoryInvariant, DispatchInvariant', NEW c \in Calls, WriteAppend(c)
    PROVE  HistoryInvariant'
<1>. USE DEF HistoryInvariant
<1>. DEFINE mine == OpOf(c)
<1>0. /\ TypeOK /\ mine \in Ops /\ CallHistory(c) /\ \A d \in Calls : OpOf(d) \in Ops
      /\ pc[c] = "dispatched"
      /\ pc'[c] = "appending" /\ \A d \in Calls \ {c} : pc'[d] = pc[d]
      /\ UNCHANGED <<journal, req, prior, dispatched, answer, reply, retired, snapshot,
                     restored, mailbox, accepted>>
  BY RequestTypes DEF DispatchInvariant, WriteAppend, Goto, TypeOK, untouched
<1>1. sent[mine] = 0 /\ accepted[mine] = 0 /\ network[mine] = 0
  <2>1. sent[mine] = 0
    BY <1>0 DEF DispatchInvariant, WireFollowsRow
  <2>2. accepted[mine] + network[mine] <= sent[mine]
    BY <1>0 DEF OperationHistory
  <2>3. accepted[mine] \in Nat /\ network[mine] \in Nat
    BY <1>0 DEF TypeOK
  <2>. QED BY <2>1, <2>2, <2>3
<1>2. /\ sent'[mine] = 1 /\ network'[mine] = 1 /\ bytes'[mine] = ContentOf(req[c])
      /\ \A op \in Ops \ {mine} : /\ sent'[op] = sent[op] /\ network'[op] = network[op]
                                  /\ bytes'[op] = bytes[op]
  BY <1>0, <1>1 DEF WriteAppend, TypeOK
<1>3. ASSUME NEW op \in Ops, NEW state, TruthfulState(state, op)
      PROVE  TruthfulState(state, op)'
  BY <1>0, <1>1, <1>2, <1>3 DEF TruthfulState
<1>4. ASSUME NEW d \in Calls
      PROVE  CallHistory(d)'
  <2>1. CallHistory(d) /\ OpOf(d)' = OpOf(d)
    BY <1>0 DEF OpOf
  <2>2. /\ TruthfulState(prior[d].state, OpOf(d))'
        /\ TruthfulState(answer[d], OpOf(d))'
        /\ reply'[d] \in {"Created", "Duplicate"} => TruthfulState("created", OpOf(d))'
        /\ reply'[d] = "Rejected" => TruthfulState("rejected", OpOf(d))'
    <3>1. /\ TruthfulState(prior[d].state, OpOf(d))
          /\ TruthfulState(answer[d], OpOf(d))
          /\ reply[d] \in {"Created", "Duplicate"} => TruthfulState("created", OpOf(d))
          /\ reply[d] = "Rejected" => TruthfulState("rejected", OpOf(d))
      BY <2>1 DEF CallHistory
    <3>2. \A state : TruthfulState(state, OpOf(d)) => TruthfulState(state, OpOf(d))'
      BY <1>0, <1>3, <2>1 DEF TruthfulState
    <3>. QED BY <1>0, <2>1, <3>1, <3>2 DEF TruthfulState
  <2>3. CASE d = c
    BY <1>0, <2>1, <2>2, <2>3 DEF CallHistory, Dispatching, ContentOf
  <2>4. CASE d # c
    BY <1>0, <2>1, <2>2, <2>4 DEF CallHistory, Dispatching, ContentOf
  <2>. QED BY <2>3, <2>4
<1>5. ASSUME NEW op \in Ops
      PROVE  OperationHistory(op)'
  <2>1. OperationHistory(op)
    OBVIOUS
  <2>2. TruthfulRow(journal, op)' /\ TruthfulRow(snapshot, op)'
    BY <1>0, <1>1, <1>2, <2>1 DEF OperationHistory, TruthfulRow, TruthfulState
  <2>3. CASE op = mine
    <3>1. snapshot[op].state \in {"absent", "prepared"}
      BY <1>0, <2>3 DEF CallHistory
    <3>2. ContentOf(journal[op]) = ContentOf(req[c])
      BY <1>0, <2>3 DEF CallHistory, Dispatching
    <3>. QED
      BY <1>0, <1>1, <1>2, <2>1, <2>2, <2>3, <3>1, <3>2
      DEF OperationHistory, WireMatches, ContentOf
  <2>4. CASE op # mine
    BY <1>0, <1>2, <2>1, <2>2, <2>4 DEF OperationHistory, WireMatches, ContentOf
  <2>. QED BY <2>3, <2>4
<1>. QED BY <1>4, <1>5

(* A call that starts, returns or dies. *)
LEMMA HistoryBoundarySteps ==
    ASSUME HistoryInvariant, DispatchInvariant', NEW c \in Calls,
           Start(c) \/ Return(c) \/ Crash(c)
    PROVE  HistoryInvariant'
<1>. USE DEF HistoryInvariant, untouched, remote, serverVars
<1>0. TypeOK /\ CallHistory(c)
  BY DEF DispatchInvariant
<1>1. CASE Start(c)
  <2>1. PICK r \in ReachableRequests :
          /\ req' = [req EXCEPT ![c] = r]
          /\ Goto(c, IF r.kind = "status" THEN "open" ELSE "lock")
    BY <1>1 DEF Start
  <2>2. /\ pc'[c] \in {"open", "lock"}
        /\ \A d \in Calls \ {c} : pc'[d] = pc[d] /\ req'[d] = req[d]
        /\ UNCHANGED <<journal, prior, dispatched, answer, reply, retired, snapshot, restored, remote>>
    BY <1>0, <1>1, <2>1 DEF Start, Goto, TypeOK
  <2>3. ~dispatched[c] /\ answer[c] = "none" /\ reply[c] = "none" /\ pc[c] = "idle"
    BY <1>0, <1>1 DEF Start, CallHistory, Dispatching
  <2>4. CallHistory(c)'
    BY <1>0, <2>2, <2>3 DEF CallHistory, TruthfulState, Dispatching
  <2>5. Aside(c)
    BY <2>2 DEF Aside
  <2>. QED BY <2>2, <2>4, <2>5, SameJournal, HistoryCallFrame
<1>2. CASE Return(c) \/ Crash(c)
  <2>1. Forget(c) /\ UNCHANGED <<journal, retired, snapshot, restored, remote>>
    BY <1>2 DEF Return, Crash
  <2>2. /\ pc'[c] = "idle" /\ prior'[c].state = "absent" /\ ~dispatched'[c]
        /\ answer'[c] = "none" /\ reply'[c] = "none"
    BY <1>0, <2>1 DEF Forget, TypeOK, AbsentRow
  <2>3. CallHistory(c)'
    BY <2>2 DEF CallHistory, TruthfulState, Dispatching
  <2>4. Aside(c)
    BY <1>0, <2>1 DEF Forget, Aside, TypeOK
  <2>. QED BY <2>1, <2>3, <2>4, SameJournal, HistoryCallFrame
<1>. QED BY <1>1, <1>2

-----------------------------------------------------------------------------
(* Steps of nobody's call. *)

(* Maintenance runs when no call does; a backup copies true history, and a
   restore puts it back. *)
LEMMA HistoryMaintain ==
    ASSUME HistoryInvariant, DispatchInvariant', Maintain
    PROVE  HistoryInvariant'
<1>. USE DEF HistoryInvariant, Maintain, Retire, Backup, MaintenanceFault, RestoreFence,
             RestoreJournal, RestoreRegistry, RestoreFinish, RestoreInterrupted, untouched,
             callVars, remote, serverVars
<1>1. UNCHANGED <<pc, req, prior, dispatched, answer, reply, accepted, network, sent, bytes,
                  mailbox>>
  OBVIOUS
<1>2. \A c \in Calls : pc[c] = "idle"
  BY DEF Quiescent, DispatchInvariant, RestoreFenced
<1>3. ASSUME NEW c \in Calls
      PROVE  CallHistory(c)'
  <2>1. CallHistory(c) /\ pc'[c] = "idle" /\ OpOf(c)' = OpOf(c)
    BY <1>1, <1>2 DEF OpOf
  <2>. QED BY <1>1, <2>1 DEF CallHistory, TruthfulState, Dispatching
<1>4. /\ journal' \in {journal, snapshot} /\ snapshot' \in {journal, snapshot}
      /\ restored \/ (restored' = restored /\ journal' = journal) \/ restored'
      /\ restored => restored'
  BY DEF DispatchInvariant, RestoreFenced
<1>5. ~restored' => journal' = journal /\ ~restored
  BY <1>4 DEF DispatchInvariant, RestoreFenced
<1>6. ASSUME NEW op \in Ops
      PROVE  OperationHistory(op)'
  <2>1. OperationHistory(op)
    OBVIOUS
  <2>2. /\ TruthfulRow(journal, op)' /\ TruthfulRow(snapshot, op)'
        /\ WireMatches(journal, op)' /\ WireMatches(snapshot, op)'
    BY <1>1, <1>4, <2>1 DEF OperationHistory, TruthfulRow, TruthfulState, WireMatches
  <2>. QED BY <1>1, <1>4, <1>5, <2>1, <2>2 DEF OperationHistory
<1>. QED BY <1>3, <1>6

(* The server answers what it did, and a command is processed once. *)
LEMMA HistoryServer ==
    ASSUME HistoryInvariant, DispatchInvariant', NEW op \in Ops,
           ServerAccepts(op) \/ ServerRejects(op) \/ CommandLost(op)
    PROVE  HistoryInvariant'
<1>. USE DEF HistoryInvariant
<1>0. /\ TypeOK /\ \A d \in Calls : OpOf(d) \in Ops
      /\ UNCHANGED <<journal, pc, req, prior, dispatched, reply, retired, snapshot, restored,
                     sent, bytes>>
  BY RequestTypes
  DEF DispatchInvariant, ServerAccepts, ServerRejects, CommandLost, untouched, localVars, callVars
<1>1. sent[op] = 1 /\ network[op] = 1 /\ accepted[op] = 0
  <2>1. accepted[op] + network[op] <= sent[op] /\ sent[op] <= 1
    BY DEF DispatchInvariant, AtMostOneAppend, OperationHistory
  <2>2. network[op] > 0
    BY DEF ServerAccepts, ServerRejects, CommandLost
  <2>3. accepted[op] \in Nat /\ network[op] \in Nat /\ sent[op] \in Nat
    BY <1>0 DEF TypeOK
  <2>. QED BY <2>1, <2>2, <2>3
<1>2. /\ network'[op] = 0 /\ accepted'[op] \in {0, 1}
      /\ ServerAccepts(op) => accepted'[op] = 1 /\ mailbox'[op].exact > 0
      /\ ~ServerAccepts(op) => accepted'[op] = 0 /\ mailbox' = mailbox
      /\ \A o \in Ops \ {op} : /\ network'[o] = network[o] /\ accepted'[o] = accepted[o]
                               /\ mailbox'[o] = mailbox[o]
  BY <1>0, <1>1 DEF ServerAccepts, ServerRejects, CommandLost, TypeOK, Holds
<1>3. ASSUME NEW o \in Ops, NEW state, TruthfulState(state, o)
      PROVE  TruthfulState(state, o)'
  BY <1>0, <1>1, <1>2, <1>3 DEF TruthfulState
<1>4. ASSUME NEW d \in Calls
      PROVE  /\ TruthfulState(answer[d], OpOf(d))'
             /\ answer'[d] # "none" => pc[d] = "appending"
  <2>1. OpOf(d)' = OpOf(d) /\ CallHistory(d)
    BY <1>0 DEF OpOf
  <2>2. CASE answer'[d] = answer[d]
    BY <1>0, <1>1, <1>2, <2>1, <2>2 DEF CallHistory, TruthfulState
  <2>3. CASE answer'[d] # answer[d]
    <3>1. /\ pc[d] = "appending" /\ OpOf(d) = op
          /\ \/ ServerAccepts(op) /\ answer'[d] = "created"
             \/ ~ServerAccepts(op) /\ answer'[d] = "rejected"
      BY <1>0, <1>1, <1>2, <2>3
      DEF ServerAccepts, ServerRejects, CommandLost, Deliver, TypeOK, localVars, callVars
    <3>. QED BY <1>0, <1>1, <1>2, <2>1, <3>1 DEF TruthfulState
  <2>. QED BY <2>2, <2>3
<1>5. ASSUME NEW d \in Calls
      PROVE  CallHistory(d)'
  <2>1. OpOf(d)' = OpOf(d) /\ CallHistory(d) /\ OpOf(d) \in Ops
    BY <1>0 DEF OpOf
  <2>2. /\ TruthfulState(prior[d].state, OpOf(d))'
        /\ reply'[d] \in {"Created", "Duplicate"} => TruthfulState("created", OpOf(d))'
        /\ reply'[d] = "Rejected" => TruthfulState("rejected", OpOf(d))'
    BY <1>0, <1>1, <1>2, <2>1 DEF CallHistory, TruthfulState
  <2>. QED BY <1>0, <1>4, <2>1, <2>2 DEF CallHistory, ContentOf
<1>6. ASSUME NEW o \in Ops
      PROVE  OperationHistory(o)'
  <2>1. OperationHistory(o)
    OBVIOUS
  <2>2. TruthfulRow(journal, o)' /\ TruthfulRow(snapshot, o)'
    BY <1>0, <1>1, <1>2, <2>1 DEF OperationHistory, TruthfulRow, TruthfulState
  <2>3. accepted'[o] + network'[o] <= sent'[o] /\ (mailbox'[o].exact > 0 => accepted'[o] = 1)
    BY <1>0, <1>1, <1>2, <2>1 DEF OperationHistory
  <2>. QED BY <1>0, <2>1, <2>2, <2>3 DEF OperationHistory, WireMatches
<1>. QED BY <1>5, <1>6

(* Users and the mailbox itself: a message is there only if it was stored. *)
LEMMA HistoryMailbox ==
    ASSUME HistoryInvariant, DispatchInvariant',
           (\E op \in Ops : UserChanges(op)) \/ MailboxRecreated
               \/ (\E a \in Accounts : WorkerEnds(a)) \/ UNCHANGED vars
    PROVE  HistoryInvariant'
<1>. USE DEF HistoryInvariant
<1>1. /\ TypeOK
      /\ UNCHANGED <<journal, pc, req, prior, dispatched, answer, reply, retired, snapshot,
                     restored, sent, bytes, accepted, network>>
  BY DEF DispatchInvariant, UserChanges, MailboxRecreated, WorkerEnds, vars, localVars,
         callVars, serverVars, untouched, remote
<1>2. \A op \in Ops : mailbox'[op].exact > 0 => mailbox[op].exact > 0
  <2>1. ASSUME NEW o \in Ops, UserChanges(o), NEW op \in Ops
        PROVE  mailbox'[op].exact > 0 => mailbox[op].exact > 0
    BY <1>1, <2>1 DEF UserChanges, TypeOK
  <2>2. CASE MailboxRecreated
    BY <2>2 DEF MailboxRecreated, Holds
  <2>3. CASE (\E a \in Accounts : WorkerEnds(a)) \/ UNCHANGED vars
    BY <2>3 DEF WorkerEnds, remote, serverVars, vars
  <2>. QED BY <2>1, <2>2, <2>3
<1>3. ASSUME NEW d \in Calls
      PROVE  CallHistory(d)'
  <2>1. OpOf(d)' = OpOf(d) /\ CallHistory(d)
    BY <1>1 DEF OpOf
  <2>. QED BY <1>1, <2>1 DEF CallHistory, TruthfulState
<1>4. ASSUME NEW op \in Ops
      PROVE  OperationHistory(op)'
  <2>1. OperationHistory(op)
    OBVIOUS
  <2>. QED
    BY <1>1, <1>2, <2>1 DEF OperationHistory, TruthfulRow, TruthfulState, WireMatches
<1>. QED BY <1>3, <1>4

-----------------------------------------------------------------------------
LEMMA HistoryInit == Init => HistoryInvariant
<1>. SUFFICES ASSUME Init PROVE HistoryInvariant
  OBVIOUS
<1>1. DispatchInvariant
  BY DispatchInit
<1>2. ASSUME NEW c \in Calls PROVE CallHistory(c)
  BY DEF Init, CallHistory, TruthfulState, Dispatching, AbsentRow
<1>3. ASSUME NEW op \in Ops PROVE OperationHistory(op)
  BY DEF Init, OperationHistory, TruthfulRow, TruthfulState, WireMatches, AbsentRow, Holds
<1>. QED BY <1>1, <1>2, <1>3 DEF HistoryInvariant

LEMMA HistoryStep == HistoryInvariant /\ [Next]_vars => HistoryInvariant'
<1>. SUFFICES ASSUME HistoryInvariant, [Next]_vars PROVE HistoryInvariant'
  OBVIOUS
<1>1. DispatchInvariant'
  BY DispatchStep DEF HistoryInvariant
<1>2. ASSUME NEW c \in Calls, Start(c) \/ CallStep(c) \/ Crash(c)
      PROVE  HistoryInvariant'
  BY <1>1, <1>2, HistoryLookingSteps, HistoryFreezingSteps, HistoryOutcomeSteps,
     HistoryWriteAppend, HistoryBoundarySteps
  DEF CallStep
<1>3. ASSUME Environment PROVE HistoryInvariant'
  BY <1>1, <1>3, HistoryServer, HistoryMailbox DEF Environment
<1>4. ASSUME NEW a \in Accounts, WorkerEnds(a) PROVE HistoryInvariant'
  BY <1>1, <1>4, HistoryMailbox
<1>5. CASE UNCHANGED vars
  BY <1>1, <1>5, HistoryMailbox
<1>. QED BY <1>1, <1>2, <1>3, <1>4, <1>5, HistoryMaintain DEF Next

(* Recorded history is true and complete enough to answer from, whatever calls,
   builds, accounts, crashes, backups and restores an installation sees. *)
THEOREM HistoryInvariantHolds == Spec => []HistoryInvariant
BY HistoryInit, HistoryStep, PTL DEF Spec

(* A recorded outcome is true, in the journal and in every backup: what is
   recorded as created was stored, what is recorded as rejected was not and
   cannot arrive late. *)
THEOREM RecordedIsTrue == Spec => []TruthfulHistory
<1>1. HistoryInvariant => TruthfulHistory
  BY DEF HistoryInvariant, OperationHistory, TruthfulHistory
<1>. QED BY <1>1, HistoryInvariantHolds, PTL

(* A caller is answered the truth about its draft, and nothing that invites a
   retry once an APPEND may have been written. *)
THEOREM AnswersAreHonest == Spec => []HonestReply
<1>1. HistoryInvariant => HonestReply
  BY DEF HistoryInvariant, CallHistory, HonestReply, TruthfulState
<1>. QED BY <1>1, HistoryInvariantHolds, PTL

(* The bytes of the APPEND are those whose hash the journal recorded, also when
   builds with different encoders take turns. *)
THEOREM WireCarriesRow == Spec => []WireMatchesJournal
<1>1. HistoryInvariant => WireMatchesJournal
  BY DEF HistoryInvariant, OperationHistory, WireMatchesJournal
<1>. QED BY <1>1, HistoryInvariantHolds, PTL

-----------------------------------------------------------------------------
(* The four ways a call changes its row, each one transaction. *)
Prepares(c) ==
    /\ pc[c] = "examined"
    /\ CanPrepare(journal, OpOf(c), Proposed(c))
    /\ journal' = Prepare(journal, OpOf(c), Proposed(c))

Reencodes(c) ==
    /\ CanReencode(journal, OpOf(c), prior[c], req[c].encoder)
    /\ journal' = Reencode(journal, OpOf(c), req[c].encoder)

Dispatches(c) ==
    /\ pc[c] = "frozen"
    /\ CanBeginDispatch(journal, OpOf(c), prior[c])
    /\ journal' = BeginDispatch(journal, OpOf(c))

Resolves(c) ==
    \E outcome \in {"created", "rejected", "duplicate", "outcome_unknown"} :
        /\ CanRecord(journal, OpOf(c), outcome)
        /\ TruthfulState(outcome, OpOf(c))
        /\ journal' = Record(journal, OpOf(c), outcome)

(* Every step keeps the journal, is a transaction of one call, or restores. *)
LEMMA JournalSteps ==
    ASSUME HistoryInvariant, Next
    PROVE  \/ journal' = journal
           \/ /\ \E c \in Calls : Prepares(c) \/ Reencodes(c) \/ Dispatches(c) \/ Resolves(c)
              /\ UNCHANGED <<retired, maintainer, snapshot, restored, sent, accepted>>
           \/ RestoreJournal
<1>. USE DEF untouched, remote, serverVars
<1>1. ASSUME NEW c \in Calls, Start(c) \/ CallStep(c) \/ Crash(c), journal' # journal
      PROVE  /\ Prepares(c) \/ Reencodes(c) \/ Dispatches(c) \/ Resolves(c)
             /\ UNCHANGED <<retired, maintainer, snapshot, restored, sent, accepted>>
  <2>0. TypeOK /\ CallHistory(c) /\ OpOf(c) \in Ops /\ OperationHistory(OpOf(c))
    BY RequestTypes DEF HistoryInvariant, DispatchInvariant
  <2>1. TruthfulState("outcome_unknown", OpOf(c))
    BY DEF TruthfulState
  <2>2. CASE FreezeOperation(c)
    BY <1>1, <2>2 DEF FreezeOperation, Prepares, Reencodes
  <2>3. CASE StartDispatch(c)
    BY <2>3 DEF StartDispatch, Dispatches
  <2>4. CASE RecoverInFlight(c)
    BY <1>1, <2>1, <2>4 DEF RecoverInFlight, Resolves
  <2>5. CASE CompleteDispatch(c)
    <3>1. \A outcome \in Outcomes(c) :
            /\ outcome \in {"created", "rejected", "outcome_unknown"}
            /\ TruthfulState(outcome, OpOf(c))
      BY <2>0, <2>1 DEF Outcomes, TypeOK, CallHistory
    <3>. QED BY <1>1, <2>1, <2>5, <3>1 DEF CompleteDispatch, Resolves
  <2>6. CASE ReconcileDraft(c)
    <3>1. EvidenceVerified(c) => TruthfulState("duplicate", OpOf(c))
      BY <2>0 DEF EvidenceVerified, OperationHistory, TruthfulState, TypeOK
    <3>. QED BY <1>1, <2>6, <3>1 DEF ReconcileDraft, Resolves
  <2>7. CASE Cancel(c)
    BY <1>1, <2>1, <2>7 DEF Cancel, Resolves
  <2>. QED
    BY <1>1, <2>2, <2>3, <2>4, <2>5, <2>6, <2>7
    DEF CallStep, Start, Crash, AcquireWriter, WriterContended, PeekContended, OpenJournal,
        JournalFault, RefuseLocally, AnswerStatus, DecideSave, VerifyHistory, ExamineTarget,
        WriteAppend, BeginReconcile, Return
<1>2. (\E a \in Accounts : WorkerEnds(a)) \/ Environment => journal' = journal
  BY DEF WorkerEnds, Environment, ServerAccepts, ServerRejects, CommandLost, UserChanges,
         MailboxRecreated, localVars
<1>3. Maintain => journal' = journal \/ RestoreJournal
  BY DEF Maintain, Retire, Backup, MaintenanceFault, RestoreFence, RestoreRegistry,
         RestoreFinish, RestoreInterrupted
<1>. QED BY <1>1, <1>2, <1>3 DEF Next

(* What each transaction does to the row it is about; it leaves the others. *)
OtherRows(c) == \A op \in Ops \ {OpOf(c)} : journal'[op] = journal[op]

SameTarget(c) ==
    /\ journal'[OpOf(c)].input = journal[OpOf(c)].input
    /\ journal'[OpOf(c)].validity = journal[OpOf(c)].validity

LEMMA CallRow ==
    ASSUME HistoryInvariant, NEW c \in Calls
    PROVE  journal \in [Ops -> Row] /\ OpOf(c) \in Ops /\ CallHistory(c)
BY RequestTypes DEF HistoryInvariant, DispatchInvariant, TypeOK

LEMMA PreparesRow ==
    ASSUME HistoryInvariant, NEW c \in Calls, Prepares(c)
    PROVE  /\ OtherRows(c)
           /\ \/ journal' = journal
              \/ /\ journal[OpOf(c)].state = "absent"
                 /\ journal'[OpOf(c)].state = "prepared"
                 /\ ~Full(journal)
                 /\ OpOf(c) \notin retired
<1>. DEFINE op == OpOf(c)
<1>0. journal \in [Ops -> Row] /\ op \in Ops /\ CallHistory(c)
  BY CallRow
<1>1. CASE journal[op].state # "absent"
  BY <1>1 DEF Prepares, Prepare, OtherRows
<1>2. CASE journal[op].state = "absent"
  <2>1. journal' = [journal EXCEPT ![op] = Proposed(c)] /\ ~Full(journal)
    BY <1>2 DEF Prepares, Prepare, CanPrepare
  <2>2. op \notin retired
    <3>1. writer[LockOf(c)] = c /\ req[c].kind # "status"
      BY DEF Prepares, HistoryInvariant, DispatchInvariant, LocksHeld, Owning
    <3>. QED BY <1>0, <1>2, <3>1 DEF Prepares, CallHistory
  <2>. QED BY <1>0, <1>2, <2>1, <2>2 DEF OtherRows, Proposed, PreparedRow
<1>. QED BY <1>1, <1>2

LEMMA ReencodesRow ==
    ASSUME HistoryInvariant, NEW c \in Calls, Reencodes(c)
    PROVE  /\ OtherRows(c) /\ SameTarget(c)
           /\ journal[OpOf(c)].state = "prepared"
           /\ journal'[OpOf(c)].state = "prepared"
BY CallRow DEF Reencodes, CanReencode, Reencode, OtherRows, SameTarget, Row

LEMMA DispatchesRow ==
    ASSUME HistoryInvariant, NEW c \in Calls, Dispatches(c)
    PROVE  /\ OtherRows(c) /\ SameTarget(c)
           /\ journal[OpOf(c)].state = "prepared"
           /\ journal'[OpOf(c)].state = "in_flight"
           /\ journal'[OpOf(c)].encoder = journal[OpOf(c)].encoder
BY CallRow DEF Dispatches, CanBeginDispatch, BeginDispatch, OtherRows, SameTarget, Row

LEMMA ResolvesRow ==
    ASSUME HistoryInvariant, NEW c \in Calls, Resolves(c)
    PROVE  /\ OtherRows(c) /\ SameTarget(c)
           /\ journal[OpOf(c)].state \in {"in_flight", "outcome_unknown"}
           /\ journal'[OpOf(c)].state \in
                  {"created", "rejected", "duplicate", "outcome_unknown"}
           /\ TruthfulState(journal'[OpOf(c)].state, OpOf(c))
           /\ journal'[OpOf(c)].encoder = journal[OpOf(c)].encoder
<1>1. PICK outcome \in {"created", "rejected", "duplicate", "outcome_unknown"} :
        /\ CanRecord(journal, OpOf(c), outcome)
        /\ TruthfulState(outcome, OpOf(c))
        /\ journal' = Record(journal, OpOf(c), outcome)
  BY DEF Resolves
<1>2. journal'[OpOf(c)].state = outcome
  BY <1>1, CallRow DEF Record, Row
<1>. QED BY <1>1, <1>2, CallRow DEF CanRecord, Record, OtherRows, SameTarget, Row

(* Recorded history is only extended: outside a restore no row goes away, none
   is redirected, none is encoded anew after dispatch, and no outcome changes. *)
THEOREM HistoryOnlyGrows == Spec => HistoryExtended
<1>1. HistoryInvariant /\ [Next]_vars =>
        [maintainer = "idle" => \A op \in Ops : ExtendsRow(journal[op], journal'[op])]_vars
  <2>. SUFFICES ASSUME HistoryInvariant, Next, maintainer = "idle", NEW op \in Ops
                PROVE  ExtendsRow(journal[op], journal'[op])
    BY DEF vars
  <2>1. CASE journal' = journal
    BY <2>1 DEF ExtendsRow
  <2>2. ASSUME NEW c \in Calls, Prepares(c) \/ Reencodes(c) \/ Dispatches(c) \/ Resolves(c)
        PROVE  ExtendsRow(journal[op], journal'[op])
    <3>1. CASE op # OpOf(c)
      BY <2>2, <3>1, PreparesRow, ReencodesRow, DispatchesRow, ResolvesRow
      DEF OtherRows, ExtendsRow
    <3>2. CASE op = OpOf(c)
      <4>1. CASE Prepares(c)
        BY <3>2, <4>1, PreparesRow DEF ExtendsRow
      <4>2. CASE Reencodes(c)
        BY <3>2, <4>2, ReencodesRow DEF ExtendsRow, SameTarget, Terminal
      <4>3. CASE Dispatches(c)
        BY <3>2, <4>3, DispatchesRow DEF ExtendsRow, SameTarget, Terminal
      <4>4. CASE Resolves(c)
        BY <3>2, <4>4, ResolvesRow DEF ExtendsRow, SameTarget, Terminal
      <4>. QED BY <2>2, <4>1, <4>2, <4>3, <4>4
    <3>. QED BY <3>1, <3>2
  <2>3. ~RestoreJournal
    BY DEF RestoreJournal
  <2>. QED BY <2>1, <2>2, <2>3, JournalSteps
<1>. QED BY <1>1, HistoryInvariantHolds, PTL DEF Spec, HistoryExtended

(* An operation of a replaced account generation is never created anew. *)
THEOREM RetiredStaysAbsent == Spec => RetiredNotCreated
<1>1. HistoryInvariant /\ [Next]_vars =>
        [\A op \in retired : maintainer = "idle" /\ journal[op].state = "absent" =>
             journal'[op].state = "absent"]_vars
  <2>. SUFFICES ASSUME HistoryInvariant, Next, NEW op \in retired, maintainer = "idle",
                       journal[op].state = "absent"
                PROVE  journal'[op].state = "absent"
    BY DEF vars
  <2>0. op \in Ops
    BY DEF HistoryInvariant, DispatchInvariant, TypeOK
  <2>1. ASSUME NEW c \in Calls, Prepares(c) \/ Reencodes(c) \/ Dispatches(c) \/ Resolves(c)
        PROVE  journal'[op].state = "absent"
    BY <2>0, <2>1, PreparesRow, ReencodesRow, DispatchesRow, ResolvesRow DEF OtherRows
  <2>2. ~RestoreJournal
    BY DEF RestoreJournal
  <2>. QED BY <2>1, <2>2, JournalSteps
<1>. QED BY <1>1, HistoryInvariantHolds, PTL DEF Spec, RetiredNotCreated

-----------------------------------------------------------------------------
(* The records of a journal are finitely many and within the limit; those of a
   backup, which a restore puts back, too. *)
Bounded(j) == IsFiniteSet(Records(j)) /\ WithinLimit(j)

LEMMA BoundedInit == Init => Bounded(journal) /\ Bounded(snapshot)
<1>. SUFFICES ASSUME Init PROVE Bounded(journal) /\ Bounded(snapshot)
  OBVIOUS
<1>1. Records(journal) = {} /\ Records(snapshot) = {}
  BY DEF Init, Records, AbsentRow
<1>. QED BY <1>1, FS_EmptySet, JournalAssumption DEF Bounded, WithinLimit

LEMMA BoundedStep ==
    ASSUME HistoryInvariant, [Next]_vars, Bounded(journal), Bounded(snapshot)
    PROVE  Bounded(journal)' /\ Bounded(snapshot)'
<1>1. CASE journal' = journal
  <2>1. snapshot' \in {snapshot, journal}
    BY DEF Next, vars, localVars, Start, CallStep, Crash, AcquireWriter, WriterContended,
           PeekContended, OpenJournal, JournalFault, RecoverInFlight, RefuseLocally,
           AnswerStatus, DecideSave, VerifyHistory, ExamineTarget, FreezeOperation,
           StartDispatch, WriteAppend, CompleteDispatch, BeginReconcile, ReconcileDraft,
           Cancel, Return, WorkerEnds, Maintain, Retire, Backup, MaintenanceFault,
           RestoreFence, RestoreJournal, RestoreRegistry, RestoreFinish,
           RestoreInterrupted, Environment, ServerAccepts, ServerRejects, CommandLost,
           UserChanges, MailboxRecreated, untouched
  <2>. QED BY <1>1, <2>1 DEF Bounded, WithinLimit, Records
<1>2. ASSUME NEW c \in Calls, Prepares(c) \/ Reencodes(c) \/ Dispatches(c) \/ Resolves(c),
             snapshot' = snapshot, journal' # journal
      PROVE  Bounded(journal)' /\ Bounded(snapshot)'
  <2>0. OpOf(c) \in Ops /\ OtherRows(c)
    BY <1>2, CallRow, PreparesRow, ReencodesRow, DispatchesRow, ResolvesRow
  <2>1. CASE Records(journal') = Records(journal)
    BY <1>2, <2>1 DEF Bounded, WithinLimit, Records
  <2>2. CASE /\ OpOf(c) \notin Records(journal) /\ ~Full(journal)
             /\ Records(journal') = Records(journal) \cup {OpOf(c)}
    <3>1. /\ IsFiniteSet(Records(journal'))
          /\ Cardinality(Records(journal')) = Cardinality(Records(journal)) + 1
          /\ Cardinality(Records(journal)) \in Nat
      BY <2>2, FS_AddElement, FS_CardinalityType DEF Bounded
    <3>2. Cardinality(Records(journal)) < MaxRecords
      BY <2>2, <3>1, JournalAssumption DEF Full
    <3>3. Cardinality(Records(journal')) <= MaxRecords
      BY <3>1, <3>2, JournalAssumption
    <3>. QED BY <1>2, <3>1, <3>3 DEF Bounded, WithinLimit, Records
  <2>3. CASE Prepares(c)
    <3>1. /\ journal[OpOf(c)].state = "absent" /\ journal'[OpOf(c)].state = "prepared"
          /\ ~Full(journal)
      BY <1>2, <2>3, PreparesRow
    <3>. QED BY <2>0, <2>2, <3>1 DEF OtherRows, Records
  <2>4. CASE Reencodes(c) \/ Dispatches(c) \/ Resolves(c)
    <3>1. journal[OpOf(c)].state # "absent" /\ journal'[OpOf(c)].state # "absent"
      BY <2>4, ReencodesRow, DispatchesRow, ResolvesRow
    <3>. QED BY <2>0, <2>1, <3>1 DEF OtherRows, Records
  <2>. QED BY <1>2, <2>3, <2>4
<1>3. CASE RestoreJournal
  BY <1>3 DEF RestoreJournal, Bounded, WithinLimit, Records
<1>4. CASE UNCHANGED vars
  BY <1>4 DEF vars, localVars, Bounded, WithinLimit, Records
<1>. QED BY <1>1, <1>2, <1>3, <1>4, JournalSteps

(* Any number of accounts over one journal: each draft goes out at most once, by
   the owner of its row, and there are never more records than the limit, of
   however many operations. *)
THEOREM SharedJournalHolds == Spec => []AccountsShareJournal
<1>. DEFINE Inv == HistoryInvariant /\ Bounded(journal) /\ Bounded(snapshot)
<1>1. Init => Inv
  BY HistoryInit, BoundedInit
<1>2. Inv /\ [Next]_vars => Inv'
  BY HistoryStep, BoundedStep
<1>3. Inv => AccountsShareJournal
  BY DEF AccountsShareJournal, HistoryInvariant, DispatchInvariant, Bounded, JournalWithinLimit
<1>. QED BY <1>1, <1>2, <1>3, PTL DEF Spec

-----------------------------------------------------------------------------
(* DraftService implements DraftOnce: every step is one of the abstract draft's,
   or invisible to it. *)
Verdicts == [op \in Ops |-> Verdict(journal[op].state)]

LEMMA OnceInitially == Init => Once!OnceInit
<1>. SUFFICES ASSUME Init PROVE Once!OnceInit
  OBVIOUS
<1>1. Verdicts = [op \in Ops |-> "open"]
  BY DEF Init, Verdicts, Verdict, AbsentRow
<1>. QED BY <1>1 DEF Init, Once!OnceInit, Verdicts

LEMMA OnceStep ==
    ASSUME HistoryInvariant, [Next]_vars
    PROVE  [Once!OnceNext]_(Once!onceVars)
<1>. USE DEF Once!onceVars, Verdicts
<1>0. /\ journal \in [Ops -> Row] /\ snapshot \in [Ops -> Row]
      /\ sent \in [Ops -> Nat] /\ accepted \in [Ops -> Nat] /\ network \in [Ops -> Nat]
      /\ \A op \in Ops : sent[op] <= 1 /\ OperationHistory(op)
  BY DEF HistoryInvariant, DispatchInvariant, TypeOK, AtMostOneAppend
<1>1. ASSUME NEW c \in Calls, Prepares(c) \/ Reencodes(c) \/ Dispatches(c) \/ Resolves(c),
             UNCHANGED <<restored, sent, accepted>>
      PROVE  [Once!OnceNext]_(Once!onceVars)
  <2>. DEFINE op == OpOf(c)
  <2>0. op \in Ops /\ OtherRows(c)
    BY <1>1, CallRow, PreparesRow, ReencodesRow, DispatchesRow, ResolvesRow
  <2>1. ASSUME Verdict(journal'[op].state) = Verdict(journal[op].state)
        PROVE  UNCHANGED Once!onceVars
    BY <1>1, <2>0, <2>1 DEF OtherRows
  <2>2. ASSUME NEW v, Verdict(journal'[op].state) = v
        PROVE  Verdicts' = [Verdicts EXCEPT ![op] = v]
    BY <2>0, <2>2 DEF OtherRows
  <2>3. CASE Prepares(c)
    <3>1. CASE journal' = journal
      BY <1>1, <2>1, <3>1
    <3>2. CASE journal' # journal
      <4>1. Verdict(journal'[op].state) = "open" /\ Verdict(journal[op].state) = "open"
        BY <2>3, <3>2, PreparesRow DEF Verdict
      <4>. QED BY <2>1, <4>1
    <3>. QED BY <3>1, <3>2
  <2>4. CASE Reencodes(c)
    <3>1. Verdict(journal'[op].state) = "open" /\ Verdict(journal[op].state) = "open"
      BY <2>4, ReencodesRow DEF Verdict
    <3>. QED BY <2>1, <3>1
  <2>5. CASE Dispatches(c)
    <3>1. Verdict(journal'[op].state) = "uncertain" /\ Verdict(journal[op].state) = "open"
      BY <2>5, DispatchesRow DEF Verdict
    <3>2. ~restored
      BY <2>5 DEF Dispatches, HistoryInvariant, DispatchInvariant, RestoreFenced, Creating
    <3>3. Once!Commit(op)
      BY <1>1, <2>0, <2>2, <3>1, <3>2 DEF Once!Commit
    <3>. QED BY <2>0, <3>3 DEF Once!OnceNext
  <2>6. CASE Resolves(c)
    <3>1. /\ journal[op].state \in {"in_flight", "outcome_unknown"}
          /\ journal'[op].state \in {"created", "rejected", "duplicate", "outcome_unknown"}
          /\ TruthfulState(journal'[op].state, op)
      BY <2>6, ResolvesRow
    <3>2. Verdict(journal[op].state) = "uncertain"
      BY <3>1 DEF Verdict
    <3>3. CASE journal'[op].state = "outcome_unknown"
      <4>1. Verdict(journal'[op].state) = "uncertain"
        BY <3>3 DEF Verdict
      <4>. QED BY <2>1, <3>2, <4>1
    <3>4. CASE journal'[op].state \in {"created", "duplicate"}
      <4>1. accepted[op] = 1 /\ Verdict(journal'[op].state) = "created"
        BY <3>1, <3>4 DEF TruthfulState, Verdict
      <4>2. sent[op] = 1
        <5>1. accepted[op] + network[op] <= sent[op] /\ sent[op] <= 1
          BY <1>0, <2>0 DEF OperationHistory
        <5>2. network[op] \in Nat /\ sent[op] \in Nat
          BY <1>0, <2>0
        <5>. QED BY <4>1, <5>1, <5>2
      <4>3. Once!Conclude(op)
        BY <1>1, <2>0, <2>2, <3>2, <4>1, <4>2 DEF Once!Conclude
      <4>. QED BY <2>0, <4>3 DEF Once!OnceNext
    <3>5. CASE journal'[op].state = "rejected"
      <4>1. accepted[op] = 0 /\ sent[op] = 1 /\ Verdict(journal'[op].state) = "rejected"
        BY <3>1, <3>5 DEF TruthfulState, Verdict
      <4>2. Once!Conclude(op)
        BY <1>1, <2>0, <2>2, <3>2, <4>1 DEF Once!Conclude
      <4>. QED BY <2>0, <4>2 DEF Once!OnceNext
    <3>. QED BY <3>1, <3>3, <3>4, <3>5
  <2>. QED BY <1>1, <2>3, <2>4, <2>5, <2>6
<1>2. CASE RestoreJournal
  <2>1. /\ journal' = snapshot /\ restored
        /\ UNCHANGED <<sent, accepted, restored>>
    BY <1>2 DEF RestoreJournal, HistoryInvariant, DispatchInvariant, RestoreFenced, remote,
                serverVars
  <2>2. \A op \in Ops : snapshot[op].state \in States
    BY <1>0 DEF Row
  <2>3. ASSUME NEW op \in Ops
        PROVE  /\ Verdict(snapshot[op].state) \in {"open", "uncertain", "created", "rejected"}
               /\ Verdict(snapshot[op].state) = "created" => accepted[op] = 1
               /\ Verdict(snapshot[op].state) = "rejected" => sent[op] = 1 /\ accepted[op] = 0
    BY <1>0, <2>2 DEF Verdict, States, OperationHistory, TruthfulRow, TruthfulState
  <2>4. Once!Rollback
    BY <2>1, <2>3 DEF Once!Rollback
  <2>. QED BY <2>4 DEF Once!OnceNext
<1>3. ASSUME NEW c \in Calls, WriteAppend(c)
      PROVE  Once!OnceNext
  <2>. DEFINE op == OpOf(c)
  <2>1. /\ op \in Ops /\ sent[op] = 0 /\ ~restored /\ journal[op].state = "in_flight"
        /\ sent' = [sent EXCEPT ![op] = sent[op] + 1]
        /\ UNCHANGED <<journal, accepted, restored>>
    BY <1>3, CallRow
    DEF WriteAppend, HistoryInvariant, DispatchInvariant, WireFollowsRow, Dispatching,
        RestoreFenced, Creating, untouched
  <2>2. Verdict(journal[op].state) = "uncertain"
    BY <2>1 DEF Verdict
  <2>3. Once!Attempt(op)
    BY <2>1, <2>2 DEF Once!Attempt
  <2>. QED BY <2>1, <2>3 DEF Once!OnceNext
<1>4. ASSUME NEW op \in Ops, ServerAccepts(op)
      PROVE  Once!OnceNext
  <2>1. /\ accepted[op] + network[op] <= sent[op] /\ sent[op] <= 1 /\ network[op] > 0
        /\ sent[op] \in Nat /\ accepted[op] \in Nat /\ network[op] \in Nat
    BY <1>0, <1>4 DEF OperationHistory, ServerAccepts
  <2>2. sent[op] = 1 /\ accepted[op] = 0 /\ network[op] # 0
    BY <2>1
  <2>3. journal[op].state # "rejected" /\ journal[op].state \in States
    BY <1>0, <2>2 DEF OperationHistory, TruthfulRow, TruthfulState, Row
  <2>4. Verdict(journal[op].state) # "rejected"
    BY <2>3 DEF Verdict, States
  <2>5. Once!Store(op)
    BY <1>0, <1>4, <2>2, <2>4 DEF ServerAccepts, untouched, Once!Store
  <2>. QED BY <2>5 DEF Once!OnceNext
<1>5. CASE RestoreFence
  BY <1>5 DEF RestoreFence, remote, serverVars, Once!OnceNext, Once!Seal
<1>6. CASE /\ Next /\ journal' = journal /\ ~RestoreFence
           /\ \A c \in Calls : ~WriteAppend(c)
           /\ \A op \in Ops : ~ServerAccepts(op)
  <2>1. UNCHANGED <<sent, accepted, restored>>
    BY <1>6
    DEF Next, localVars, Start, CallStep, Crash, AcquireWriter, WriterContended,
        PeekContended, OpenJournal, JournalFault, RecoverInFlight, RefuseLocally,
        AnswerStatus, DecideSave, VerifyHistory, ExamineTarget, FreezeOperation,
        StartDispatch, CompleteDispatch, BeginReconcile, ReconcileDraft,
        Cancel, Return, WorkerEnds, Maintain, Retire, Backup, MaintenanceFault,
        RestoreJournal, RestoreRegistry, RestoreFinish, RestoreInterrupted, Environment,
        ServerRejects, CommandLost, UserChanges, MailboxRecreated, untouched, remote,
        serverVars
  <2>. QED BY <1>6, <2>1
<1>7. CASE UNCHANGED vars
  BY <1>7 DEF vars, localVars, serverVars
<1>. QED BY <1>1, <1>2, <1>3, <1>4, <1>5, <1>6, <1>7, JournalSteps

(* The draft service implements the abstract at-most-once draft: every behaviour
   of calls, locks, rows and wires is one of DraftOnce. *)
THEOREM RefinesOnce == Spec => ImplementsOnce
<1>1. HistoryInvariant /\ [Next]_vars => [Once!OnceNext]_(Once!onceVars)
  BY OnceStep
<1>. QED BY <1>1, OnceInitially, HistoryInvariantHolds, PTL DEF Spec, ImplementsOnce, Once!OnceSpec
=============================================================================
