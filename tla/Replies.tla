------------------------------- MODULE Replies -------------------------------
(***************************************************************************)
(* What the caller of one operation is told, layer by layer: the service   *)
(* (execute_inner in src/service.rs), in the same process or behind an     *)
(* isolated session (src/isolation.rs), the MCP tool call                  *)
(* (src/frontends/mcp.rs) or the command (src/frontends.rs), and the       *)
(* output of either, which may fail.  Every layer can be interrupted, and  *)
(* every layer may find the answer too large for its bound.                *)
(*                                                                         *)
(* The size of an answer is abstracted to whether it fits a bound; what    *)
(* an error says is its code and whether it names the draft operation.     *)
(***************************************************************************)
EXTENDS Naturals

VARIABLES
    kind,       \* "save", "reconcile", "status" or "read"
    adapter,    \* "embedded" or "isolated"
    frontend,   \* "mcp" or "cli"
    service,    \* "idle", "executing", "answered", "written", "over"
    client,     \* the isolated exchange: "waiting", "exchanging", "over", or "lost" when
                \* its frame may still reach the server
    front,      \* "waiting", "answered", "output", "done"
    outcome,    \* of this request's APPEND: "none", "unknown", "created", "rejected"
    inner,      \* the service's answer
    answer,     \* the front end's answer
    delivered,  \* what was delivered
    first,      \* the OnceLock of an MCP server as mcp::run reads it: whose failure is
                \* the first one, and what it says
    exit,       \* the exit code of the process, 99 before it is known
    ending      \* what ended the process: "running", or "report" (a command), "signal",
                \* "lifetime" or "session" (an MCP server)

repliesVars == <<kind, adapter, frontend, service, client, front, outcome, inner, answer,
        delivered, first, exit, ending>>

Silence == [type |-> "none"]
Receipts == [type : {"receipt"}, state : {"prepared", "created", "unreferenced", "duplicate",
                                          "rejected"}, reference : BOOLEAN]
Errors == [type : {"error"}, code : {"outcome_unknown", "operation_in_progress",
              "response_too_large", "timeout", "cancelled", "broker_unavailable", "other"},
              named : BOOLEAN]
Data == [type |-> "data"]

Failure(code) == [type |-> "error", code |-> code, named |-> FALSE]
DraftOutcome(code) == [type |-> "error", code |-> code, named |-> TRUE]
Receipt(state, reference) == [type |-> "receipt", state |-> state, reference |-> reference]

Uncertain == {"outcome_unknown", "operation_in_progress"}
Dispatched(a) == a.type = "receipt" /\ a.state # "prepared"

RepliesTyped ==
    /\ service \in {"idle", "executing", "answered", "written", "over"}
    /\ client \in {"waiting", "exchanging", "over", "lost"}
    /\ front \in {"waiting", "answered", "output", "done"}
    /\ outcome \in {"none", "unknown", "created", "rejected"}
    /\ \A a \in {inner, answer, delivered} : a \in Receipts \cup Errors \cup {Data, Silence}
    /\ first.of \in {"nobody", "request", "session"} /\ first.error \in Errors \cup {Silence}
    /\ exit \in {0, 5, 7, 8, 130} \cup {99}
    /\ ending \in {"running", "report", "signal", "lifetime", "session"}

RepliesInit ==
    /\ kind \in {"save", "reconcile", "status", "read"}
    /\ adapter \in {"embedded", "isolated"}
    /\ frontend \in {"mcp", "cli"}
    /\ service = "idle"
    /\ client = "waiting"
    /\ front = "waiting"
    /\ outcome = "none"
    /\ inner = Silence
    /\ answer = Silence
    /\ delivered = Silence
    /\ first = [of |-> "nobody", error |-> Silence]
    /\ exit = 99
    /\ ending = "running"

Request == <<kind, adapter, frontend>>
Process == <<first, exit, ending>>

-----------------------------------------------------------------------------
(* The service.  Its own answers are DraftService's: honest about the journal. *)
Execute ==
    /\ service = "idle"
    /\ IF adapter = "isolated" THEN client \in {"exchanging", "lost"} ELSE front = "waiting"
    /\ service' = "executing"
    /\ UNCHANGED <<Request, client, front, outcome, inner, answer, delivered, Process>>

AppendDraft ==
    /\ service = "executing" /\ kind = "save" /\ outcome = "none"
    /\ outcome' = "unknown"
    /\ UNCHANGED <<Request, service, client, front, inner, answer, delivered, Process>>

Record ==
    /\ service = "executing" /\ outcome = "unknown"
    /\ outcome' \in {"created", "rejected"}
    /\ UNCHANGED <<Request, service, client, front, inner, answer, delivered, Process>>

(* What an earlier request left in the journal, and ordinary failures *)
PriorAnswers ==
    {Receipt("created", TRUE), Receipt("unreferenced", FALSE), Receipt("duplicate", TRUE),
     Receipt("rejected", FALSE), DraftOutcome("outcome_unknown"),
     DraftOutcome("operation_in_progress")}
Failures == {Failure("timeout"), Failure("other")}

Answers ==
    CASE kind = "read" -> {Data} \cup Failures
      [] kind \in {"status", "reconcile"} -> PriorAnswers \cup Failures \cup {Receipt("prepared", FALSE)}
      [] OTHER -> CASE outcome = "none" -> PriorAnswers \cup Failures
                    [] outcome = "created" -> {Receipt("created", TRUE), Receipt("unreferenced", FALSE),
                                               DraftOutcome("outcome_unknown")}
                    [] outcome = "rejected" -> {Receipt("rejected", FALSE),
                                                DraftOutcome("outcome_unknown")}
                    [] OTHER -> {DraftOutcome("outcome_unknown")}

(* execute_inner's last part: a receipt that is too large loses its reference, and
   then becomes an uncertain outcome rather than an ordinary failure. *)
Fitted(a, full, short) ==
    CASE full \/ a.type = "error" -> a
      [] ~full /\ a.type = "data" -> Failure("response_too_large")
      [] OTHER ->
           LET state == IF a.reference /\ a.state = "created" THEN "unreferenced" ELSE a.state
           IN  CASE short -> Receipt(state, FALSE)
                 [] ~short /\ state \in {"created", "unreferenced", "duplicate"} ->
                        DraftOutcome("outcome_unknown")
                 [] OTHER -> Failure("response_too_large")

ServiceAnswers ==
    /\ service = "executing"
    /\ \E a \in Answers, full, short \in BOOLEAN : inner' = Fitted(a, full, short)
    /\ service' = "answered"
    /\ UNCHANGED <<Request, client, front, outcome, answer, delivered, Process>>

(* Mutant: every answer that does not fit is a response that is too large. *)
CompactPlain(a) == Failure("response_too_large")

(* An error whose details do not fit keeps a code that says "do not repeat". *)
Compact(a) ==
    IF a.type = "error" /\ a.code \in Uncertain THEN Failure(a.code)
    ELSE Failure("response_too_large")

(* A result that passed the service's check fits its frame and its envelope: the
   service kept 512 bytes for them.  Errors are measured here only. *)
Sized(a) == IF a.type = "error" THEN {a, Compact(a)} ELSE {a}

(* write_result of the isolated server *)
WriteAnswer ==
    /\ service = "answered" /\ adapter = "isolated"
    /\ inner' \in Sized(inner)
    /\ service' = "written"
    /\ UNCHANGED <<Request, client, front, outcome, answer, delivered, Process>>

(* The session or its server dies under the request, or its client is gone. *)
ServiceEnds ==
    /\ adapter = "isolated" /\ service \in {"executing", "answered", "written"}
    /\ service' = "over"
    /\ UNCHANGED <<Request, client, front, outcome, inner, answer, delivered, Process>>

-----------------------------------------------------------------------------
(* The isolated client. *)
(* Operation::draft_outcome_identity *)
DraftIdentity == kind \in {"save", "reconcile"}

Returned(a) == answer' = a /\ front' = "answered"

TakesStream ==
    /\ adapter = "isolated" /\ client = "waiting" /\ front = "waiting"
    /\ client' = "exchanging"
    /\ UNCHANGED <<Request, service, front, outcome, inner, answer, delivered, Process>>

ClientWaitFails ==
    /\ adapter = "isolated" /\ client = "waiting" /\ front = "waiting"
    /\ client' = "over"
    /\ \E code \in {"timeout", "broker_unavailable"} : Returned(Failure(code))
    /\ UNCHANGED <<Request, service, outcome, inner, delivered, Process>>

ExchangeFails ==
    /\ client = "exchanging" /\ front = "waiting"
    /\ client' = "lost"
    /\ Returned(IF DraftIdentity THEN DraftOutcome("outcome_unknown") ELSE Failure("timeout"))
    /\ UNCHANGED <<Request, service, outcome, inner, delivered, Process>>

(* A compact error gets back the identity the caller sent. *)
Named(a) ==
    IF a.type = "error" /\ a.code \in Uncertain /\ kind # "read"
    THEN [a EXCEPT !.named = TRUE] ELSE a

ExchangeDone ==
    /\ client = "exchanging" /\ service = "written" /\ front = "waiting"
    /\ client' = "over" /\ service' = "over"
    /\ Returned(Named(inner))
    /\ UNCHANGED <<Request, outcome, inner, delivered, Process>>

EmbeddedDone ==
    /\ adapter = "embedded" /\ service = "answered" /\ front = "waiting"
    /\ service' = "over"
    /\ Returned(inner)
    /\ UNCHANGED <<Request, client, outcome, inner, delivered, Process>>

InterruptedReply(code) ==
    IF DraftIdentity THEN DraftOutcome("outcome_unknown") ELSE Failure(code)

(* The front end stops waiting: the embedded service is dropped with the call, the
   isolated one goes on. *)
Abandoned ==
    /\ client' = IF client = "exchanging" THEN "lost" ELSE "over"
    /\ service' = IF adapter = "embedded" THEN "over" ELSE service

(* call_tool: the client cancels the call, or the session shuts down. *)
CancelCall ==
    /\ frontend = "mcp" /\ front = "waiting"
    /\ Returned(InterruptedReply("cancelled"))
    /\ Abandoned
    /\ UNCHANGED <<Request, outcome, inner, delivered, Process>>

(* execute_application of a command: a signal or the deadline.  The identity of the
   draft is known once the operation was begun. *)
Interrupt ==
    /\ frontend = "cli" /\ front = "waiting"
    /\ \E code \in {"cancelled", "timeout"} :
          \/ Returned(InterruptedReply(code))
          \/ service = "idle" /\ client = "waiting" /\ Returned(Failure(code))
    /\ Abandoned
    /\ UNCHANGED <<Request, outcome, inner, delivered, Process>>

-----------------------------------------------------------------------------
(* output_failure, and OutputContext for MCP, which keeps errors and dispatched
   receipts only *)
OutputFailure(a, code) ==
    CASE a.type = "error" -> a
      [] Dispatched(a) -> DraftOutcome("outcome_unknown")
      [] OTHER -> Failure(code)

(* Error::exit_code; 8 stands for the codes of all other failures too. *)
ExitCode(a) ==
    IF a.type # "error" THEN 0
    ELSE CASE a.code \in Uncertain -> 7
           [] a.code \in {"timeout", "broker_unavailable"} -> 5
           [] a.code = "cancelled" -> 130
           [] OTHER -> 8

(* report: the answer of a command, or that it could not be rendered, is printed. *)
Report ==
    /\ frontend = "cli" /\ front = "answered"
    /\ delivered' \in {answer, OutputFailure(answer, "other")}
    /\ exit' = ExitCode(delivered')
    /\ front' = "done" /\ ending' = "report"
    /\ UNCHANGED <<Request, service, client, outcome, inner, answer, first>>

(* It could not be printed, or not in time: the exit code is what is left. *)
ReportFails ==
    /\ frontend = "cli" /\ front = "answered"
    /\ \E code \in {"timeout", "other"} : exit' = ExitCode(OutputFailure(answer, code))
    /\ front' = "done" /\ ending' = "report"
    /\ UNCHANGED <<Request, service, client, outcome, inner, answer, delivered, first>>

-----------------------------------------------------------------------------
(* call_tool measures the envelope. *)
Measure ==
    /\ frontend = "mcp" /\ front = "answered"
    /\ answer' \in Sized(answer)
    /\ front' = "output"
    /\ UNCHANGED <<Request, service, client, outcome, inner, delivered, Process>>

(* The transport's send(): the answer is written, or withheld without a word
   because its client has cancelled the call. *)
Deliver ==
    /\ front = "output"
    /\ delivered' \in {answer, Silence}
    /\ front' = "done"
    /\ UNCHANGED <<Request, service, client, outcome, inner, answer, Process>>

(* OnceLock::set: the first failure stays.  One set after mcp::run has read the
   cell is read by nobody. *)
RecordFailure(of, error) ==
    first' = IF first.of = "nobody" /\ exit = 99 THEN [of |-> of, error |-> error] ELSE first

(* The answer is too large for the transport, or its output fails or takes too long. *)
SendFails ==
    /\ front = "output"
    /\ \E code \in {"response_too_large", "timeout", "other"} :
          RecordFailure("request", OutputFailure(answer, code))
    /\ front' = "done"
    /\ UNCHANGED <<Request, service, client, outcome, inner, answer, delivered, exit, ending>>

(* The same of another call's answer or of a rejection, or a frame that is no JSON,
   too long or late. *)
SessionFailures == {Failure("cancelled"), Failure("timeout"), Failure("other"),
                    DraftOutcome("outcome_unknown"), DraftOutcome("operation_in_progress")}
SessionFails ==
    /\ frontend = "mcp"
    /\ \E error \in SessionFailures : RecordFailure("session", error)
    /\ UNCHANGED <<Request, service, client, front, outcome, inner, answer, delivered, exit, ending>>

(* Mutant: the recorded failure is forgotten. *)
ReportedExitPlain(plain) == plain

(* The end of mcp::run: a recorded failure is preferred to the result. *)
ReportedExit(plain) == IF first.of = "nobody" THEN plain ELSE ExitCode(first.error)

(* The ways an MCP server ends, whether this call was answered or not.  Its tasks
   may run on for a moment, and the isolated service for longer. *)
ProcessEnds(how, code) ==
    /\ frontend = "mcp" /\ exit = 99
    /\ exit' = code /\ ending' = how
    /\ UNCHANGED <<Request, service, client, front, outcome, inner, answer, delivered, first>>

(* execute_application drops mcp::run, whatever has failed. *)
SignalEnds == ProcessEnds("signal", ExitCode(Failure("cancelled")))
LifetimeEnds == ProcessEnds("lifetime", ReportedExit(ExitCode(Failure("timeout"))))
SessionOver == \E plain \in {0, ExitCode(Failure("other"))} : ProcessEnds("session", ReportedExit(plain))

RepliesNext ==
    \/ Execute \/ AppendDraft \/ Record \/ ServiceAnswers \/ WriteAnswer \/ ServiceEnds
    \/ TakesStream \/ ClientWaitFails \/ ExchangeFails \/ ExchangeDone \/ EmbeddedDone
    \/ CancelCall \/ Interrupt \/ Report \/ ReportFails
    \/ Measure \/ Deliver \/ SendFails \/ SessionFails
    \/ SignalEnds \/ LifetimeEnds \/ SessionOver

RepliesSpec == RepliesInit /\ [][RepliesNext]_repliesVars

-----------------------------------------------------------------------------
MayExist == outcome \in {"unknown", "created"}

(* "Losing a dispatched draft receipt must never invite another creation": when
   this request may have created a draft, now or later, what its caller was told
   is a receipt of it or that the outcome is unknown or in progress. *)
NeverInvitesAnother ==
    (delivered # Silence /\ MayExist) =>
        \/ Dispatched(delivered) /\ delivered.state # "rejected"
        \/ delivered.type = "error" /\ delivered.code \in Uncertain

(* The same of the exit code, where it is all that a failed output leaves: a
   command whose output failed, and an MCP server whose first failure was the
   output of this answer and which was not ended by a signal. *)
ExitTells ==
    /\ (frontend = "cli" /\ front = "done" /\ delivered = Silence /\ MayExist) => exit = 7
    /\ (first.of = "request" /\ ending \in {"lifetime", "session"} /\ MayExist) => exit = 7

(* A command that reports an uncertain draft names the operation, although the
   isolated session may have had to leave it out. *)
CommandNamesDraft ==
    (delivered.type = "error" /\ delivered.code \in Uncertain /\ frontend = "cli") => delivered.named

(* No false alarm: a read is never reported as an uncertain draft, neither by its
   answer, nor by the exit code of a command, nor as the failure of its output. *)
ReadsAreCertain ==
    kind = "read" =>
        /\ \A a \in {delivered} \cup (IF first.of = "request" THEN {first.error} ELSE {}) :
              a.type = "error" => a.code \notin Uncertain
        /\ frontend = "cli" => exit # 7

(* Front ends: whatever is lost on the way, nobody who may have a draft is told
   to make another (NeverInvitesAnother), the exit code tells what the output
   could not, as far as it can (ExitTells), a retry command names the draft
   (CommandNamesDraft), and reads are never uncertain (ReadsAreCertain). *)
RepliesTruthful ==
    RepliesTyped /\ NeverInvitesAnother /\ ExitTells /\ CommandNamesDraft /\ ReadsAreCertain
=============================================================================
