----------------------------- MODULE ImapClient -----------------------------
(* One IMAP connection, from TCP connect to the end of the one operation it  *)
(* carries (imap.rs, imap/wire.rs, imap/append.rs, imap/fetch.rs).  The      *)
(* client half is a script of commands: connect_authenticated runs the       *)
(* authentication script, then a lease runs one operation's script.  Every   *)
(* command is written, then read() takes responses one at a time and         *)
(* collect() or append() judges them, until a tagged completion.             *)
(*                                                                           *)
(* The peer half is external.  Before the TLS handshake it is anybody and    *)
(* says anything.  Behind TLS it is the provider: it may chatter and answer  *)
(* in any order, but a NO to APPEND means nothing was stored, an OK after    *)
(* the literal means it was, and it announces a selection it turns writable, *)
(* or a mailbox it recreated, before it sends data of the new selection.     *)
EXTENDS Naturals, Sequences, FiniteSets

CONSTANTS
    Modes,          \* subset of {"Implicit", "StartTls"}
    Ops,            \* the operations whose scripts are explored
    CapSets,        \* the capability lists a server may announce
    Noise,          \* unsolicited responses: pairs of constructor and code;
                    \* a continuation is always asked for
    MaxMailboxes,   \* limits.max_mailboxes
    MaxResponses,   \* limits.max_responses
    MaxQueue,       \* bound: responses in flight
    MaxInc          \* bound: mailbox incarnations (UIDVALIDITY values)

ASSUME ClientAssumption ==
    /\ Modes \subseteq {"Implicit", "StartTls"}
    /\ Ops \subseteq {"list", "search", "body", "attachments", "inspect", "draft", "disconnect"}
    /\ \A n \in Noise : n[1] # "cont"
    /\ MaxMailboxes \in Nat \ {0} /\ MaxResponses \in Nat \ {0}
    /\ MaxQueue \in Nat \ {0} /\ MaxInc \in Nat \ {0}

VARIABLES
    mode,       \* ImapEndpoint.mode
    op,         \* the operation running on the lease, "connect" before it
    todo,       \* the rest of the script; its head is the current command
    sent,       \* the head has been written and read() is collecting
    secure,     \* the transport is TLS
    caps,       \* the capability list read last, with the channel it came by
    tag,        \* Session.next_tag
    pinned,     \* Session.uid_validity, 0 for None
    got,        \* collect()'s and append()'s locals
    responses,  \* Metrics.responses of the operation
    taken,      \* responses really read since the operation began
    buffer,     \* responses in the BufReader under Admission
    wire,       \* responses in flight
    outcome,    \* Metrics.append_outcome
    result,     \* "running", "ready" (authenticated), "ok", or an Error
    peer        \* the provider: its command, selection and stored messages

vars == <<mode, op, todo, sent, secure, caps, tag, pinned, got, responses,
          taken, buffer, wire, outcome, result, peer>>
--------------------------------------------------------------------------
(* ImapEndpoint::authenticate: the order of the commands per TlsMode. *)
AuthScript(m) ==
    IF m = "StartTls"
    THEN <<"Greeting", "Capability", "StartTls", "Tls", "Capability", "Login",
           "Capability">>
    ELSE <<"Greeting", "Capability", "Login", "Capability">>

(* The scripts of the operations. Each backend of service/imap.rs takes a   *)
(* lease and runs one: discovery lists; a search examines, searches with    *)
(* literal text and projects rows; a body or attachment read examines and   *)
(* fetches metadata, then bytes; a draft is appended to the target that was *)
(* examined on the same connection.                                         *)
ListScript == <<"List", "Logout">>
SearchScript == <<"Examine", "SearchText", "Projection", "Logout">>
ReadScript == <<"Examine", "Body", "Body", "Logout">>
AttachmentsScript == <<"Examine", "Body", "Logout">>
InspectScript == <<"Examine", "Logout">>
DraftScript == <<"Examine", "Append">>
Script ==
    [list |-> ListScript, search |-> SearchScript, body |-> ReadScript,
     attachments |-> AttachmentsScript,
     inspect |-> InspectScript, draft |-> DraftScript, disconnect |-> <<"Logout">>]

NothingGot == [rows |-> <<>>, uids |-> {}, validity |-> 0,
               bye |-> FALSE, streamed |-> FALSE]

(* A response as async-imap parses it: t its constructor, x its tag, UID or *)
(* value, c its response code or status; and where it came from.            *)
Msg(t, x, c) ==
    [t |-> t, x |-> x, c |-> c, tls |-> secure, inc |-> peer.inc, ro |-> peer.ro]

(* Connection::connect: implicit TLS is established before any response. *)
Init ==
    /\ mode \in Modes
    /\ op = "connect" /\ todo = AuthScript(mode) /\ sent = TRUE
    /\ secure = (mode = "Implicit")
    /\ caps = [names |-> {}, tls |-> FALSE]
    /\ tag = 0 /\ pinned = 0 /\ got = NothingGot
    /\ responses = 0 /\ taken = 0 /\ buffer = <<>> /\ wire = <<>>
    /\ outcome = "None" /\ result = "running"
    /\ peer = [cmd |-> "Greeting", tag |-> 0, inc |-> 1, ro |-> FALSE,
               lit |-> "none", stored |-> 0]

Kind == Head(todo)
Fail(error) == result' = error /\ UNCHANGED <<todo, sent, caps, pinned, got, outcome>>
--------------------------------------------------------------------------
(* request / tag: allocate the tag, write the whole command. *)
WriteCommand ==
    /\ result = "running" /\ ~sent
    /\ Kind \notin {"Tls", "Append"}
    /\ tag' = tag + 1 /\ sent' = TRUE /\ got' = NothingGot
    /\ peer' = [peer EXCEPT !.cmd = IF Kind = "SearchText" THEN "Search" ELSE Kind,
                            !.tag = tag + 1]
    /\ UNCHANGED <<mode, op, todo, secure, caps, pinned, responses, taken,
                   buffer, wire, outcome, result>>

(* append before its loop: the outcome is Unknown before the header leaves, *)
(* and append_write may refuse it for the operation budget.                 *)
AppendOutcomeBefore == "Unknown"
WriteAppend ==
    /\ result = "running" /\ ~sent /\ Kind = "Append"
    /\ tag' = tag + 1 /\ got' = NothingGot
    /\ outcome' = AppendOutcomeBefore
    /\ \/ sent' = TRUE /\ UNCHANGED result
          /\ peer' = [peer EXCEPT !.cmd = "Append", !.tag = tag + 1, !.lit = "none"]
       \/ sent' = FALSE /\ result' = "Limit" /\ UNCHANGED peer
    /\ UNCHANGED <<mode, op, todo, secure, caps, pinned, responses, taken,
                   buffer, wire>>

(* BufReader::poll_fill_buf: an empty buffer takes what has arrived. *)
Fill ==
    /\ result = "running" /\ sent /\ buffer = <<>>
    /\ \E n \in 1..Len(wire) :
          /\ buffer' = SubSeq(wire, 1, n)
          /\ wire' = SubSeq(wire, n + 1, Len(wire))
    /\ UNCHANGED <<mode, op, todo, sent, secure, caps, tag, pinned, got,
                   responses, taken, outcome, result, peer>>
--------------------------------------------------------------------------
(* check_outcome, on every response that carries one. *)
CheckOutcome(r) ==
    IF r.t \notin {"ok", "done", "cont"} THEN "fine"
    ELSE IF r.c = "READ-WRITE" THEN "UnsafeSelection"
    ELSE IF r.c = "REFERRAL" THEN "Unsupported"
    ELSE IF r.t = "ok" /\ r.c = "UIDVALIDITY"
            /\ (r.x = 0 \/ (pinned # 0 /\ r.x # pinned))
         THEN "UnsafeSelection"
    ELSE "fine"

(* The completion arm of collect(): what each kind demands of the rows. *)
Completion(k, r) ==
    IF r.x # tag THEN "Protocol"
    ELSE IF r.c = "NO" THEN IF k = "Login" THEN "Authentication" ELSE "Protocol"
    ELSE IF k = "Examine" /\ (r.c # "READ-ONLY" \/ got.validity = 0)
         THEN "UnsafeSelection"
    ELSE IF k = "Body" /\ got.rows = <<>> THEN "MessageNotFound"
    ELSE IF k = "Search" /\ Len(got.rows) # 1 THEN "Protocol"
    ELSE IF k = "Logout" /\ ~got.bye THEN "Protocol"
    ELSE "done"

(* The data arms of collect(): "keep" pushes the row, "skip" ignores it. A  *)
(* FETCH carries a fresh nonzero UID, and for Body matches Fetch::validate. *)
Row(k, r) ==
    CASE r.t = "bye" -> IF k # "Logout" THEN "Eof"
                        ELSE IF got.bye THEN "Protocol" ELSE "bye"
      [] r.t = "ok" -> IF k # "Examine" THEN "skip"
                       ELSE IF r.c = "UIDVALIDITY" /\ got.validity # 0 THEN "Protocol"
                       ELSE "keep"
      [] r.t = "caps" -> IF k \in {"Capability", "Login"} THEN "keep" ELSE "Unsupported"
      [] r.t = "list" -> IF k # "List" THEN "Unsupported"
                         ELSE IF Len(got.rows) = MaxMailboxes THEN "Limit" ELSE "keep"
      [] r.t = "search" -> IF k # "Search" THEN "Unsupported"
                           ELSE IF got.rows # <<>> \/ r.x = 0 THEN "Protocol" ELSE "keep"
      [] r.t = "fetch" -> IF \/ r.x = 0 \/ r.x \in got.uids
                             \/ k \notin {"Projection", "Body"}
                             \/ k = "Body" /\ (got.rows # <<>> \/ r.c # "requested")
                          THEN "Protocol" ELSE "keep"
      [] r.t = "note" -> "skip"
      [] OTHER -> "Unsupported"

Kept(r) ==
    [got EXCEPT !.rows = Append(@, r),
                !.uids = IF r.t = "fetch" THEN @ \cup {r.x} ELSE @,
                !.validity = IF r.t = "ok" /\ r.c = "UIDVALIDITY" THEN r.x ELSE @]

(* capabilities(): exactly one list. What authenticate does with it depends *)
(* on the command that follows; STARTTLS also needs Admission to be empty.  *)
RequireCaps(names, next) ==
    CASE next = "StartTls" -> "STARTTLS" \in names
      [] next = "Login" -> "IMAP4rev1" \in names /\ "LOGINDISABLED" \notin names
      [] OTHER -> "IMAP4rev1" \in names

UpgradeAnyway == TRUE
AdmissionEmpty == Len(buffer) = 1    \* the completion is the last one read

NextStep == IF Len(todo) > 1 THEN todo[2] ELSE "end"
DuplicateNext ==
    Cardinality({i \in 1..Len(got.rows) : got.rows[i].c = "UIDNEXT"}) > 1

(* One command completed: advance the script. *)
Advance ==
    /\ todo' = Tail(todo) /\ sent' = FALSE /\ got' = NothingGot
    /\ result' = IF Len(todo) > 1 THEN "running"
                 ELSE IF op = "connect" THEN "ready" ELSE "ok"
    /\ UNCHANGED outcome

Finished(r) ==
    CASE Kind = "Capability" ->
            IF Len(got.rows) # 1 THEN Fail("Protocol")
            ELSE IF ~RequireCaps(got.rows[1].c, NextStep) THEN Fail("Unsupported")
            ELSE /\ Advance /\ UNCHANGED pinned
                 /\ caps' = [names |-> got.rows[1].c, tls |-> got.rows[1].tls]
      [] Kind = "StartTls" ->
            IF AdmissionEmpty THEN Advance /\ UNCHANGED <<caps, pinned>>
            ELSE Fail("Protocol")
      [] Kind = "Examine" ->
            IF DuplicateNext THEN Fail("Protocol")
            ELSE Advance /\ pinned' = got.validity /\ UNCHANGED caps
      [] OTHER -> Advance /\ UNCHANGED <<caps, pinned>>

(* collect(), one response. *)
Collect(r) ==
    LET verdict == IF r.t = "done" THEN Completion(Kind, r) ELSE Row(Kind, r)
    IN  CASE verdict = "done" -> Finished(r)
          [] verdict = "keep" -> /\ got' = Kept(r)
                                 /\ UNCHANGED <<todo, sent, caps, pinned, outcome, result>>
          [] verdict = "bye"  -> /\ got' = [got EXCEPT !.bye = TRUE]
                                 /\ UNCHANGED <<todo, sent, caps, pinned, outcome, result>>
          [] verdict = "skip" -> UNCHANGED <<todo, sent, caps, pinned, got, outcome, result>>
          [] OTHER -> Fail(verdict)

(* append()'s loop, one response: the literal is streamed on the first       *)
(* continuation, and only a completion with our own tag decides the outcome. *)
AppendCompletes(r) == r.t = "done" /\ r.x = tag
AppendVerdict(r) ==
    IF r.c = "NO" THEN "Rejected"
    ELSE IF got.streamed /\ r.c # "APPENDUID-BAD" THEN "Created"
    ELSE "Protocol"
AppendRead(r) ==
    IF r.t = "cont" /\ ~got.streamed
    THEN got' = [got EXCEPT !.streamed = TRUE]
         /\ UNCHANGED <<todo, sent, caps, pinned, outcome, result>>
    ELSE IF AppendCompletes(r)
    THEN IF AppendVerdict(r) = "Protocol" THEN Fail("Protocol")
         ELSE /\ outcome' = AppendVerdict(r) /\ result' = "ok"
              /\ UNCHANGED <<todo, sent, caps, pinned, got>>
    ELSE IF r.t \in {"note", "ok"}
    THEN UNCHANGED <<todo, sent, caps, pinned, got, outcome, result>>
    ELSE Fail("Protocol")

(* greeting(), search()'s literal continuation, append() and collect(): who *)
(* takes the response read() returned.                                      *)
Dispatch(r) ==
    CASE Kind = "Greeting" ->
            IF r.t = "ok" THEN Advance /\ UNCHANGED <<caps, pinned>> ELSE Fail("Protocol")
      [] Kind = "SearchText" ->
            IF r.t = "cont"
            THEN /\ todo' = [todo EXCEPT ![1] = "Search"]
                 /\ UNCHANGED <<sent, caps, pinned, got, outcome, result>>
            ELSE Fail("Protocol")
      [] Kind = "Append" -> AppendRead(r)
      [] OTHER -> Collect(r)

OverBudget == responses = MaxResponses

(* read(): Admission counts the response against the operation's metrics,   *)
(* check_outcome judges its code, then the caller takes it.                 *)
Read ==
    /\ result = "running" /\ sent /\ buffer # <<>>
    /\ ~(Kind = "Append" /\ got.streamed /\ peer.cmd = "Append" /\ peer.lit = "invited")
    /\ LET r == Head(buffer)
       IN  IF OverBudget
           THEN Fail("Limit") /\ UNCHANGED <<responses, taken, buffer>>
           ELSE /\ responses' = responses + 1 /\ taken' = taken + 1
                /\ buffer' = Tail(buffer)
                /\ IF CheckOutcome(r) # "fine" THEN Fail(CheckOutcome(r)) ELSE Dispatch(r)
    /\ UNCHANGED <<mode, op, secure, tag, wire, peer>>

(* append_write of the frozen MIME: it arrives whole, or the budget or the  *)
(* transport cuts it short.                                                 *)
Stream ==
    /\ result = "running" /\ Kind = "Append" /\ sent /\ got.streamed
    /\ peer.cmd = "Append" /\ peer.lit = "invited"
    /\ \/ peer' = [peer EXCEPT !.lit = "whole"] /\ UNCHANGED result
       \/ peer' = [peer EXCEPT !.lit = "part"] /\ result' = "Limit"
    /\ UNCHANGED <<mode, op, todo, sent, secure, caps, tag, pinned, got,
                   responses, taken, buffer, wire, outcome>>

(* upgrade() after the empty check: plaintext still in the socket breaks    *)
(* the handshake; a new Admission continues with the same metrics.          *)
CarriedMetrics == responses
Handshake ==
    /\ result = "running" /\ ~sent /\ Kind = "Tls"
    /\ \/ /\ wire = <<>>
          /\ secure' = TRUE /\ todo' = Tail(todo) /\ responses' = CarriedMetrics
          /\ peer' = [peer EXCEPT !.cmd = "none"]
          /\ UNCHANGED <<result, buffer>>
       \/ /\ result' = "Tls"
          /\ UNCHANGED <<secure, todo, responses, peer, buffer>>
    /\ UNCHANGED <<mode, op, sent, caps, tag, pinned, got, taken, wire, outcome>>

(* with_connection / resume: a lease gives the session to one operation,    *)
(* which starts from fresh metrics.                                         *)
Begin ==
    /\ result = "ready"
    /\ \E o \in Ops : op' = o /\ todo' = Script[o]
    /\ result' = "running" /\ sent' = FALSE /\ got' = NothingGot
    /\ responses' = 0 /\ taken' = 0 /\ outcome' = "None"
    /\ UNCHANGED <<mode, secure, caps, tag, pinned, buffer, wire, peer>>

(* The connection is lost, the operation deadline passes or its future is   *)
(* dropped, or the parser panics and the client is discarded: the operation *)
(* ends; Progress::drop leaves the outcome recorded so far.                 *)
Cut ==
    /\ result = "running"
    /\ result' = "Cut"
    /\ UNCHANGED <<mode, op, todo, sent, secure, caps, tag, pinned, got,
                   responses, taken, buffer, wire, outcome, peer>>
--------------------------------------------------------------------------
Room == Len(wire) + Len(buffer) < MaxQueue
Send(m) == wire' = Append(wire, m)
Client == <<mode, op, todo, sent, secure, caps, tag, pinned, got, responses,
            taken, buffer, outcome, result>>

(* Before TLS, anything may arrive at any time. *)
Anybody ==
    /\ ~secure /\ Room /\ result = "running"
    /\ \/ Send(Msg("ok", 0, "none"))
       \/ \E c \in CapSets : Send(Msg("caps", 0, c))
       \/ \E s \in {"OK", "NO"} : Send(Msg("done", tag, s))
    /\ UNCHANGED Client /\ UNCHANGED peer

(* The provider's data for the command it is working on. *)
ProviderRow ==
    /\ secure /\ Room /\ result = "running" /\ peer.cmd # "none"
    /\ \/ peer.cmd = "Greeting" /\ Send(Msg("ok", 0, "none"))
       \/ peer.cmd = "Capability" /\ \E c \in CapSets : Send(Msg("caps", 0, c))
       \/ peer.cmd = "List" /\ Send(Msg("list", 0, "none"))
       \/ peer.cmd = "Examine" /\ \/ Send(Msg("ok", peer.inc, "UIDVALIDITY"))
                                  \/ Send(Msg("ok", 1, "UIDNEXT"))
       \/ peer.cmd = "Search" /\ (Send(Msg("cont", 0, "none")) \/ Send(Msg("search", 1, "none")))
       \/ /\ peer.cmd \in {"Projection", "Body"}
          /\ \E u \in 1..2, c \in {"requested", "other"} : Send(Msg("fetch", u, c))
       \/ peer.cmd = "Append" /\ Send(Msg("cont", 0, "none"))
       \/ peer.cmd = "Logout" /\ Send(Msg("bye", 0, "none"))
    /\ peer' = IF peer.cmd = "Append" /\ peer.lit = "none"
               THEN [peer EXCEPT !.lit = "invited"] ELSE peer
    /\ UNCHANGED Client

(* The provider completes its command. EXAMINE answers read-only or, with a *)
(* broken provider, opens the mailbox writable and says so or says nothing. *)
Done(c, p) ==
    /\ Send(Msg("done", peer.tag, c))
    /\ peer' = [p EXCEPT !.cmd = "none"]
ProviderDone ==
    /\ secure /\ Room /\ result = "running" /\ peer.cmd \notin {"none", "Greeting"}
    /\ \/ peer.lit # "stored" /\ Done("NO", peer)
       \/ peer.cmd = "Examine" /\ Done("READ-ONLY", [peer EXCEPT !.ro = TRUE])
       \/ peer.cmd = "Examine" /\ \E c \in {"OK", "READ-WRITE"} :
                                     Done(c, [peer EXCEPT !.ro = FALSE])
       \/ peer.cmd = "Append" /\ peer.lit = "stored"
          /\ \E c \in {"OK", "APPENDUID", "APPENDUID-BAD"} : Done(c, peer)
       \/ peer.cmd = "Append" /\ peer.lit = "none" /\ Done("OK", peer)
       \/ peer.cmd \notin {"Examine", "Append"} /\ Done("OK", peer)
    /\ UNCHANGED Client

(* Unsolicited data, and a completion for a tag nobody used. *)
Chatter ==
    /\ secure /\ Room /\ result = "running"
    /\ \E n \in Noise : Send(Msg(n[1], 0, n[2]))
    /\ UNCHANGED Client /\ UNCHANGED peer

(* The provider stores the message it received whole, at any later time,    *)
(* the client's operation over or not.                                      *)
Store ==
    /\ peer.cmd = "Append" /\ peer.lit = "whole"
    /\ peer' = [peer EXCEPT !.lit = "stored", !.stored = @ + 1]
    /\ UNCHANGED Client /\ UNCHANGED wire

(* The selection turns writable, or the mailbox is recreated: announced.    *)
Reselect ==
    /\ secure /\ Room /\ result = "running" /\ pinned # 0
    /\ \/ /\ peer.ro
          /\ peer' = [peer EXCEPT !.ro = FALSE]
          /\ wire' = Append(wire, Msg("ok", 0, "READ-WRITE"))
       \/ /\ peer.inc < MaxInc
          /\ peer' = [peer EXCEPT !.inc = @ + 1]
          /\ wire' = Append(wire, Msg("ok", peer.inc + 1, "UIDVALIDITY"))
    /\ UNCHANGED Client

Rest == result \notin {"running", "ready"} /\ UNCHANGED vars

Step ==
    \/ WriteCommand \/ WriteAppend \/ Fill \/ Read \/ Stream \/ Handshake
    \/ Begin \/ Cut
    \/ Anybody \/ ProviderRow \/ ProviderDone \/ Chatter \/ Store \/ Reselect
    \/ Rest

Spec == Init /\ [][Step]_vars
--------------------------------------------------------------------------
TypeOK ==
    /\ mode \in Modes /\ op \in Ops \cup {"connect"}
    /\ sent \in BOOLEAN /\ secure \in BOOLEAN
    /\ caps.tls \in BOOLEAN /\ tag \in Nat /\ pinned \in 0..MaxInc
    /\ responses \in 0..MaxResponses
    /\ outcome \in {"None", "Unknown", "Created", "Rejected"}
    /\ peer.stored \in 0..1 /\ Len(wire) + Len(buffer) <= MaxQueue

(* upgrade(): nothing that arrived in plaintext is read after the handshake *)
(* and no decision of an authenticated session rests on it.                 *)
PlaintextForgotten ==
    secure =>
      /\ \A i \in 1..Len(buffer) : buffer[i].tls
      /\ \A i \in 1..Len(got.rows) : got.rows[i].tls

(* authenticate(): the LOGIN command, and so the password, leaves only over *)
(* TLS and after a list read over TLS that does not disable it.             *)
LoginPermitted ==
    (op = "connect" /\ result = "running" /\ Kind = "Login" /\ sent) =>
      /\ secure /\ caps.tls /\ "LOGINDISABLED" \notin caps.names

SelectedRows == {i \in 1..Len(got.rows) : got.rows[i].t \in {"search", "fetch"}}

(* check_outcome and the Examine completion: mailbox data is accepted only  *)
(* from a selection the provider holds read-only.                           *)
ReadOnlyRows == \A i \in SelectedRows : got.rows[i].ro

(* UIDs and bytes are accepted only from the mailbox incarnation that       *)
(* EXAMINE pinned.                                                          *)
OneIncarnation == \A i \in SelectedRows : got.rows[i].inc = pinned

(* append(), append_draft(): whatever cuts the operation short, the outcome *)
(* left in the metrics never denies a message the provider stored or will   *)
(* store, and never claims one it did not.                                  *)
AppendTruthful ==
    /\ outcome = "None" => peer.stored = 0 /\ ~(peer.cmd = "Append" /\ peer.lit = "whole")
    /\ outcome = "Rejected" => peer.stored = 0 /\ peer.cmd # "Append"
    /\ outcome = "Created" => peer.stored = 1

(* upgrade() and resume(): the response budget is one budget for the whole  *)
(* authentication, the TLS upgrade included.                                *)
BudgetCarried == taken <= MaxResponses

(* The client: nothing received before TLS is believed after it
   (PlaintextForgotten), the password goes only where the server's latest word
   permits it (LoginPermitted), the response budget survives the upgrade
   (BudgetCarried), rows come from the mailbox in the mode that was asked for
   (ReadOnlyRows) and of one UIDVALIDITY (OneIncarnation), and an APPEND is
   reported as what the server may have done (AppendTruthful). *)
ConversationSafe ==
    /\ TypeOK /\ PlaintextForgotten /\ LoginPermitted /\ BudgetCarried
    /\ ReadOnlyRows /\ OneIncarnation /\ AppendTruthful
=============================================================================
