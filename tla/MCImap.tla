------------------------------- MODULE MCImap -------------------------------
(* The IMAP side: the client's conversation with a server, and the admission
   of what the server sends before a parser sees it. They are independent of
   each other here: component says whose behaviour it is. The client has both
   TLS modes and every operation, and rests in an initial state otherwise. *)
EXTENDS ImapClient, Admission

VARIABLE component  \* whose behaviour this is

suiteVars == <<component, vars, admissionVars>>

MCCapSets == {{"IMAP4rev1", "STARTTLS"}, {"IMAP4rev1", "LOGINDISABLED"}}
MCNoise == {<<"note", "none">>, <<"done", "NO">>, <<"bye", "none">>, <<"ok", "REFERRAL">>}

(* Streams of one or two responses, built from pieces: quotes, escapes,
   literals, and announcements that are none. *)
Pieces == {<<"a">>, <<"s">>, <<"(">>, <<")">>, <<"q">>, <<"r">>, <<"q", "b", "q", "q">>,
           <<"q", "n1", "q">>, <<"n1">>, <<"n1", "r", "l", "l">>, <<"n2", "r", "l", "q", "l">>,
           <<"n0", "r", "l">>, <<"n3", "r", "l", "a">>}
FetchPieces == {<<"B", "s">>, <<"B">>, <<"W", "s">>, <<"E", "s">>, <<"D", "s">>, <<"u">>,
                <<"q", "a", "q">>}
Starts == {<<"F">>, <<"O">>, <<"X">>, <<"L", "(", ")", "N">>, <<"L", "(", ")", "q", "a", "q">>}
Ends == {<<")", "r", "l">>, <<"r", "l">>, <<"l">>}
Second == <<"O", "a", "r", "l">>
MixedStreams ==
    {h \o p1 \o p2 \o t \o Second : h \in Starts, p1 \in Pieces \cup {<<>>},
                                    p2 \in Pieces, t \in Ends}
    \cup {<<"F">> \o p1 \o p2 \o <<")", "r", "l">> \o Second :
              p1 \in FetchPieces, p2 \in Pieces \cup FetchPieces}

(* Responses full of strings, within the limits, and responses whose last
   literal fits beside what came before it, or does not. *)
RestingStream == <<"F", "a", "s", "n0", "r", "l", "s", "a", "s", "n0", "r", "l", ")", "r", "l">>
Strings == {<<"q", "b", "q", "q">>, <<"q", "b", "b", "a", "q">>, <<"q", "a", "q">>,
            <<"n1", "r", "l", "l">>, <<"n2", "r", "l", "q", "l">>, <<"n0", "r", "l">>}
Attributes == {<<"B", "s">>, <<"B">>, <<"E", "s">>, <<"D", "s">>, <<"a", "s">>, <<"E", "(">>}
TextStreams ==
    {<<"F">> \o a1 \o s1 \o <<"s">> \o a2 \o s2 \o t \o <<"r", "l">> :
        a1 \in Attributes, s1 \in Strings, a2 \in Attributes, s2 \in Strings,
        t \in {<<")">>, <<")", ")">>}}
    \cup {<<"L", "(", ")">> \o d \o <<"s">> \o s1 \o <<"r", "l">> :
              d \in {<<"N">>, <<"q", "a", "q">>}, s1 \in Strings}
    \cup {<<"F">> \o [i \in 1..19 |-> "a"] \o <<n, "r", "l", "a", "a", "a", ")", "r", "l">> :
              n \in {"n0", "n1", "n2"}}

F == INSTANCE Admission WITH Streams <- MixedStreams, BodyCount <- 1,
        MaxResponseBytes <- 11, MaxLiteralBytes <- 2, MaxOperationBytes <- 15,
        MaxFrames <- 2, MaxParserSteps <- 55, MaxNesting <- 2

-----------------------------------------------------------------------------
(* A component that is not the one at work rests in an initial state. *)
ClientRests == Init /\ mode = "StartTls"
AdmissionRests == AdmissionInit /\ stream = RestingStream

SuiteInit ==
    \/ component = "client" /\ Init /\ AdmissionRests
    \/ component = "frames" /\ F!AdmissionInit /\ ClientRests
    \/ component = "text" /\ AdmissionInit /\ ClientRests

ClientStep ==
    /\ component = "client" /\ Step
    /\ UNCHANGED <<component, admissionVars>>
FramesStep ==
    /\ component = "frames" /\ F!AdmissionNext
    /\ UNCHANGED <<component, vars>>
TextStep ==
    /\ component = "text" /\ AdmissionNext
    /\ UNCHANGED <<component, vars>>

SuiteNext == ClientStep \/ FramesStep \/ TextStep
SuiteSpec == SuiteInit /\ [][SuiteNext]_suiteVars

-----------------------------------------------------------------------------
(* The reference: the whole stream at once, one line or literal at a time. *)
RECURSIVE Whole(_, _, _, _)
NoLine == [literal |-> 0, start |-> 0, kind |-> "None", nesting |-> 0]
WholeFrame(rest, acc, m, done) ==
    IF done.error # "none" THEN [acc EXCEPT !.failure = done.error]
    ELSE Whole(rest, <<>>, NoLine, [m |-> [m EXCEPT !.steps = done.steps],
                                    out |-> acc.out \o done.out, failure |-> "none"])
WholeLine(rest, g, acc, m, v) ==
    CASE v.verdict = "literal" ->
             Whole(rest, g, [literal |-> v.literal, start |-> Len(g), kind |-> v.kind,
                             nesting |-> v.nesting], [acc EXCEPT !.m = m])
      [] v.verdict = "frame" -> WholeFrame(rest, acc, m, F!FinishFrame(g, v.kind, m))
      [] OTHER -> [acc EXCEPT !.failure = v.verdict]
WholeUnit(s, f, l, acc, unit, m) ==
    LET g == f \o SubSeq(s, 1, unit)
        rest == SubSeq(s, unit + 1, Len(s))
    IN  IF l.literal > 0
        THEN Whole(rest, g, [l EXCEPT !.literal = 0, !.start = Len(g)], [acc EXCEPT !.m = m])
        ELSE WholeLine(rest, g, acc, m, F!Line(g, l.start, l.nesting, l.kind, m))
Whole(s, f, l, acc) ==
    LET room == F!Allowance(Len(f), acc.m)
        unit == IF l.literal > 0 THEN l.literal ELSE SelectInSeq(s, LAMBDA byte : byte = "l")
    IN  IF s = <<>> THEN [acc EXCEPT !.failure = "Eof"]
        ELSE IF \/ f = <<>> /\ F!AllCounted(acc.m)
                \/ room < Least(Len(s), IF unit = 0 THEN Len(s) ELSE unit)
        THEN [acc EXCEPT !.failure = "Limit"]
        ELSE IF unit = 0 \/ unit > Len(s) THEN [acc EXCEPT !.failure = "Eof"]
        ELSE WholeUnit(s, f, l, acc, unit,
                       [wire |-> acc.m.wire + unit, steps |-> acc.m.steps + unit,
                        responses |-> acc.m.responses + (IF f = <<>> THEN 1 ELSE 0)])
Reference(s) ==
    Whole(s, <<>>, NoLine,
          [m |-> [wire |-> 0, responses |-> 0, steps |-> 0], out |-> <<>>, failure |-> "none"])

(* poll_read: however the bytes are cut into chunks, and in whatever pieces *)
(* the parser takes them, it is given the same bytes and the same failure.  *)
ChunkIndependent ==
    failure # "none" => LET whole == Reference(stream)
                        IN  given = whole.out /\ failure = whole.failure

(* How the parser above frames one response: a literal outside quotes skips *)
(* its payload, any other line feed ends the response. 0 if it never ends.  *)
RECURSIVE ParserEnd(_, _, _)
ParserEnd(f, i, quoted) ==
    IF i > Len(f) THEN 0
    ELSE IF f[i] = "l" THEN i
    ELSE IF quoted /\ f[i] = "b" THEN ParserEnd(f, i + 2, quoted)
    ELSE IF f[i] = "q" THEN ParserEnd(f, i + 1, ~quoted)
    ELSE IF ~quoted /\ Announcement(f[i]) /\ i + 2 <= Len(f) /\ f[i + 1] = "r"
    THEN ParserEnd(f, i + 3 + LiteralLength[f[i]], FALSE)
    ELSE ParserEnd(f, i + 1, quoted)

(* normalize, line: every frame handed up is exactly one LIST, FETCH or     *)
(* status response to the parser as well, so payload is never protocol.     *)
OneResponse ==
    (output # <<>> /\ output[1] \in {"L", "F"}) => ParserEnd(output, 1, FALSE) = Len(output)

(* What a LIST or FETCH response says, whichever way its strings are sent.  *)
Meaning(f) ==
    [i \in 1..Len(Tokens(f)) |->
        LET t == Tokens(f)[i]
        IN  <<IF Text(t) THEN "text" ELSE t.k,
              IF t.k = "escaped" THEN Unescape(t.data) ELSE t.data>>]

(* normalize: adding the missing space and turning an escaped quoted string *)
(* into a literal never changes what the response says.                     *)
MeaningKept ==
    (output' # output /\ output'[1] \in {"L", "F"}) =>
      Meaning(output') = Meaning(frame \o SubSeq(stream, pos + 1, pos'))

(* normalize, admit_other: however the bytes are cut, the parser gets the same ones
   (ChunkIndependent); each frame is one response to it too (OneResponse), of a
   supported kind (OnlyAdmitted); rewriting a frame never changes what the response
   says (MeaningKept). The first three hold where the limits are met at every place,
   and the limits with them. *)
FramesKeepMeaning ==
    /\ [](component = "frames" =>
            ChunkIndependent /\ OneResponse /\ OnlyAdmitted /\ F!FramesAdmitted)
    /\ [][component = "text" => MeaningKept]_suiteVars

ASSUME InstanceAssumption == AdmissionAssumption /\ F!AdmissionAssumption
=============================================================================
