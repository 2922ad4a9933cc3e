-------------------------- MODULE IsolationSession --------------------------
(***************************************************************************)
(* One isolated session (src/isolation.rs): the calls of a client share    *)
(* one stream (Client::exchange), and serve_session answers the frames of  *)
(* that stream one after the other.  A call takes the stream out of the    *)
(* client while it waits for its answer; only an answer puts it back.      *)
(*                                                                         *)
(* Calls are futures: they may be dropped at every await.  Deadlines may   *)
(* expire whenever a party waits.                                          *)
(***************************************************************************)
EXTENDS Sequences

CONSTANTS
    Calls,
    Kind,       \* "save" (uncertain when interrupted), "status" or "read"
    Nothing

IsolationSessionAssumption ==
    /\ Kind \in [Calls -> {"save", "status", "read"}]
    /\ Nothing \notin Calls

VARIABLES
    pc,         \* each call: "outside", "waiting", "writing", "reading", "done"
    owner,      \* the call that has locked the client's stream, or Nothing
    retained,   \* the stream is in the client
    open,       \* the client's end of the stream is not dropped
    requests,   \* frames on their way to the server
    answers,    \* frames on their way to the client
    session,    \* serve_session: "hello", "reading", "serving", "writing", "ended"
    current,    \* the request it serves
    executed,   \* calls the service has begun to execute
    told        \* what each call returned

sessionVars == <<pc, owner, retained, open, requests, answers, session, current, executed, told>>

Told == [of : Calls] \cup [code : {"outcome_unknown", "interrupted", "timeout",
                                                    "broker_unavailable", "dropped"}]

SessionTypeOK ==
    /\ pc \in [Calls -> {"outside", "waiting", "writing", "reading", "done"}]
    /\ owner \in Calls \cup {Nothing}
    /\ retained \in BOOLEAN /\ open \in BOOLEAN
    /\ requests \in Seq(Calls)
    /\ answers \in Seq(Calls)
    /\ session \in {"hello", "reading", "serving", "writing", "ended"}
    /\ current \in Calls \cup {Nothing}
    /\ executed \subseteq Calls
    /\ told \in [Calls -> Told \cup {Nothing}]

(* Client::connect has written its hello and waits for the server's. *)
SessionInit ==
    /\ pc = [c \in Calls |-> "outside"]
    /\ owner = Nothing
    /\ retained = FALSE
    /\ open = TRUE
    /\ requests = <<>>
    /\ answers = <<>>
    /\ session = "hello"
    /\ current = Nothing
    /\ executed = {}
    /\ told = [c \in Calls |-> Nothing]

-----------------------------------------------------------------------------
(* The handshake: both sides know the limits, or the connection is given up. *)
Hello ==
    /\ session = "hello" /\ open
    /\ session' = "reading"
    /\ retained' = TRUE
    /\ UNCHANGED <<pc, owner, open, requests, answers, current, executed, told>>

(* exchange: the frame is encoded within its bound before anything is touched. *)
Call(c) ==
    /\ session # "hello"
    /\ pc[c] = "outside"
    /\ pc' = [pc EXCEPT ![c] = "waiting"]
    /\ UNCHANGED <<owner, retained, open, requests, answers, session, current, executed, told>>

Done(c, answer) ==
    /\ pc' = [pc EXCEPT ![c] = "done"]
    /\ told' = [told EXCEPT ![c] = answer]

(* stream.lock() and take(): a client without its stream can do nothing more. *)
TakeStream(c) ==
    /\ pc[c] = "waiting" /\ owner = Nothing
    /\ IF retained
       THEN /\ owner' = c
            /\ retained' = FALSE
            /\ pc' = [pc EXCEPT ![c] = "writing"]
            /\ UNCHANGED told
       ELSE Done(c, [code |-> "broker_unavailable"]) /\ UNCHANGED <<owner, retained>>
    /\ UNCHANGED <<open, requests, answers, session, current, executed>>

WaitTimeout(c) ==
    /\ pc[c] = "waiting"
    /\ Done(c, [code |-> "timeout"])
    /\ UNCHANGED <<owner, retained, open, requests, answers, session, current, executed>>

WriteRequest(c) ==
    /\ pc[c] = "writing" /\ open /\ session # "ended"
    /\ requests' = Append(requests, c)
    /\ pc' = [pc EXCEPT ![c] = "reading"]
    /\ UNCHANGED <<owner, retained, open, answers, session, current, executed, told>>

(* Mutant: the stream is kept although its answer is still to come. *)
DroppedKept == owner' = Nothing /\ retained' = TRUE /\ UNCHANGED open

(* The call that took the stream ends without an answer: the stream is dropped. *)
Dropped == owner' = Nothing /\ open' = FALSE /\ UNCHANGED retained

InterruptedAnswer(c) ==
    IF Kind[c] = "save" THEN [code |-> "outcome_unknown"] ELSE [code |-> "interrupted"]

(* Mutant: only a failing connection ends the exchange. *)
InterruptedByServer(c) ==
    /\ pc[c] \in {"writing", "reading"} /\ session = "ended"
    /\ Done(c, InterruptedAnswer(c))
    /\ Dropped
    /\ UNCHANGED <<requests, answers, session, current, executed>>

(* The exchange fails: its deadline, the connection, or a frame that is none. *)
Interrupted(c) ==
    /\ pc[c] \in {"writing", "reading"}
    /\ Done(c, InterruptedAnswer(c))
    /\ Dropped
    /\ UNCHANGED <<requests, answers, session, current, executed>>

(* The caller drops the future. *)
DropCall(c) ==
    /\ \/ pc[c] = "waiting" /\ UNCHANGED <<owner, retained, open>>
       \/ pc[c] \in {"writing", "reading"} /\ Dropped
    /\ Done(c, [code |-> "dropped"])
    /\ UNCHANGED <<requests, answers, session, current, executed>>

ReadAnswer(c) ==
    /\ pc[c] = "reading" /\ answers # <<>> /\ open
    /\ answers' = Tail(answers)
    /\ Done(c, [of |-> Head(answers)])
    /\ owner' = Nothing
    /\ retained' = TRUE
    /\ UNCHANGED <<open, requests, session, current, executed>>

-----------------------------------------------------------------------------
(* serve_session: one request at a time. *)
ReadRequest ==
    /\ session = "reading" /\ requests # <<>>
    /\ current' = Head(requests)
    /\ requests' = Tail(requests)
    /\ session' = "serving"
    /\ executed' = executed \cup {Head(requests)}
    /\ UNCHANGED <<pc, owner, retained, open, answers, told>>

Served ==
    /\ session = "serving"
    /\ session' = "writing"
    /\ UNCHANGED <<pc, owner, retained, open, requests, answers, current, executed, told>>

(* write_result: an answer that does not fit is replaced by a smaller one. *)
WriteResult ==
    /\ session = "writing" /\ open
    /\ answers' = Append(answers, current)
    /\ current' = Nothing
    /\ session' = "reading"
    /\ UNCHANGED <<pc, owner, retained, open, requests, executed, told>>

(* The session ends: its lifetime, a deadline, a frame out of bounds, a client
   that is gone, or the server shuts down. *)
EndSession ==
    /\ session # "ended"
    /\ session' = "ended"
    /\ current' = Nothing
    /\ requests' = <<>>
    /\ UNCHANGED <<pc, owner, retained, open, answers, executed, told>>

Step(c) ==
    \/ Call(c) \/ TakeStream(c) \/ WaitTimeout(c) \/ WriteRequest(c)
    \/ Interrupted(c) \/ DropCall(c) \/ ReadAnswer(c)

Serve == ReadRequest \/ Served \/ WriteResult

SessionNext == Hello \/ Serve \/ EndSession \/ (\E c \in Calls : Step(c))

(* Deadlines are kept: a call that waits or exchanges ends. *)
SessionFairness ==
    \A c \in Calls : WF_sessionVars(WaitTimeout(c)) /\ WF_sessionVars(Interrupted(c))

SessionSpec == SessionInit /\ [][SessionNext]_sessionVars
SessionFairSpec == SessionSpec /\ SessionFairness

-----------------------------------------------------------------------------
Finished(c) == pc[c] = "done"

(* "no subsequent operation can receive a response that belonged to the cancelled
   request": an answer is the answer to the call that gets it. *)
OwnAnswer == \A c \in Calls : (told[c] # Nothing /\ "of" \in DOMAIN told[c]) => told[c].of = c

(* A draft the service has begun to save is never reported as an ordinary
   failure, and one that is reported as such is never begun later: its caller has
   the answer, dropped the call, or is told that the outcome is unknown. *)
UncertainIsTold ==
    \A c \in executed :
        (Kind[c] = "save" /\ told[c] # Nothing /\ "code" \in DOMAIN told[c])
            => told[c].code \in {"outcome_unknown", "dropped"}

(* The stream is in one place: in the client, with the call that took it, or gone. *)
OneStream ==
    /\ retained => owner = Nothing /\ open
    /\ owner # Nothing => open /\ pc[owner] \in {"writing", "reading"}

(* Client::exchange: answers reach the calls they belong to, through drops,
   deadlines and a server that ends the session at any time. *)
AnswersMatch == SessionTypeOK /\ OneStream /\ OwnAnswer /\ UncertainIsTold

(* Every call ends, whatever the server does. *)
CallsEnd == \A c \in Calls : (pc[c] # "outside") ~> Finished(c)
=============================================================================
