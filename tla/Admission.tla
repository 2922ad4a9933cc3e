----------------------------- MODULE Admission -----------------------------
(* Complete-frame admission under the IMAP client's recursive parser         *)
(* (imap/admission.rs).  Bytes arrive in arbitrary chunks; poll_read gathers *)
(* them into one frame, line() decides at each line feed whether the frame   *)
(* is complete or announces a literal, finish() normalizes the frame into    *)
(* output, and the parser above takes the output in pieces of any size.      *)
(*                                                                           *)
(* A byte is a symbol.  "L", "F", "O" and "X" stand for the prefix of a LIST *)
(* response, of a FETCH response with its opening parenthesis, of a response *)
(* admit_other accepts and of one it refuses; "n0".."n3" for {0}..{3}; "B"   *)
(* for BODY[section]<offset> as the contract asked for it and "W" for any    *)
(* other BODY[..]; "E" for ENVELOPE, "D" for INTERNALDATE, "N" for NIL; "q"  *)
(* for the double quote, "b" backslash, "s" space, "r" CR, "l" LF, "u" a     *)
(* byte that no UTF-8 text has, "a" any other.  Each counts as one byte.     *)
EXTENDS Naturals, Sequences, SequencesExt

CONSTANTS
    Streams,            \* the byte sequences a server may send
    Contract,           \* FrameContract: "Other", "List", "Metadata" or "Body"
    BodyCount,          \* FrameContract::Body.count
    MaxResponseBytes, MaxLiteralBytes, MaxOperationBytes, MaxParserSteps,  \* Limits
    MaxFrames,          \* limits.max_responses
    MaxNesting          \* MAX_PROTOCOL_NESTING

AdmissionAssumption ==
    /\ Streams \subseteq Seq(STRING)
    /\ MaxResponseBytes \in Nat /\ MaxLiteralBytes \in Nat /\ MaxOperationBytes \in Nat
    /\ MaxParserSteps \in Nat /\ MaxFrames \in Nat

VARIABLES
    stream,     \* all the bytes the server sends
    pos,        \* how many of them were consumed
    frame,      \* Admission.frame
    line_start, \* 0-based, as in the code
    literal_remaining, nesting, kind,
    output, offset,
    metrics,    \* wire_bytes, responses, parser_steps
    failure,    \* State.failure, "none" for None
    given       \* what the parser above has been given, all together

admissionVars == <<stream, pos, frame, line_start, literal_remaining, nesting, kind,
          output, offset, metrics, failure, given>>

Least(a, b) == IF a < b THEN a ELSE b
Saturating(a, b) == IF a > b THEN a - b ELSE 0
LiteralLength == [n0 |-> 0, n1 |-> 1, n2 |-> 2, n3 |-> 3]
Announcement(n) == n \in DOMAIN LiteralLength
Announce(n) == CHOOSE a \in DOMAIN LiteralLength : LiteralLength[a] = n
Unlimited == MaxResponseBytes + MaxOperationBytes
--------------------------------------------------------------------------
(* classify and admit_other. *)
Classify(syntax) ==
    IF syntax # <<>> /\ syntax[1] = "L" THEN "List"
    ELSE IF syntax # <<>> /\ syntax[1] = "F" THEN "Fetch"
    ELSE "Other"

AdmitOther(syntax) ==
    /\ syntax # <<>> /\ syntax[1] = "O"
    /\ \A i \in 1..Len(syntax) : syntax[i] # "u"

(* line()'s loop over the bytes of one line, the first error kept. *)
ScanByte(st, byte, data) ==
    IF st.error # "none" THEN st
    ELSE IF byte \in {"r", "l"} THEN [st EXCEPT !.error = "Protocol"]
    ELSE IF st.escaped
    THEN IF byte \in {"b", "q"} THEN [st EXCEPT !.escaped = FALSE]
         ELSE [st EXCEPT !.error = "Protocol"]
    ELSE IF st.quoted /\ byte = "b" THEN [st EXCEPT !.escaped = TRUE]
    ELSE IF byte = "q" /\ data THEN [st EXCEPT !.quoted = ~@]
    ELSE IF st.quoted \/ ~data THEN st
    ELSE IF byte \in {"(", "F"}
    THEN IF st.nesting = MaxNesting THEN [st EXCEPT !.error = "Limit"]
         ELSE [st EXCEPT !.nesting = @ + 1]
    ELSE IF byte = ")"
    THEN IF st.nesting = 0 THEN [st EXCEPT !.error = "Protocol"]
         ELSE [st EXCEPT !.nesting = @ - 1]
    ELSE st

LineScan(syntax, nest, data) ==
    FoldLeft(LAMBDA st, byte : ScanByte(st, byte, data),
             [error |-> "none", quoted |-> FALSE, escaped |-> FALSE, nesting |-> nest],
             syntax)

(* The `{n}` arm: an unquoted announcement at the very end of the line. *)
Announced(syntax, st, data) == data /\ ~st.quoted /\ Announcement(Last(syntax))

(* What an announced literal may measure, within the contract and what the  *)
(* frame and the operation leave.                                           *)
LiteralAdmittedAlone(n, size, m) ==
    /\ n <= MaxLiteralBytes /\ n <= MaxResponseBytes
    /\ n <= IF Contract = "Body" THEN BodyCount ELSE Unlimited
    /\ n <= Saturating(MaxOperationBytes, m.wire)
LiteralAdmitted(n, size, m) ==
    /\ n <= MaxLiteralBytes
    /\ n <= IF Contract = "Body" THEN BodyCount ELSE Unlimited
    /\ n <= Saturating(MaxResponseBytes, size)
    /\ n <= Saturating(MaxOperationBytes, m.wire)

(* line(): verdict "frame", "literal" with its length, or an Error. *)
LineVerdict(syntax, what, st, size, m) ==
    LET data == what # "Other"
        Verdict(v, len) == [verdict |-> v, literal |-> len, kind |-> what, nesting |-> st.nesting]
    IN  IF st.error # "none" THEN Verdict(st.error, 0)
        ELSE IF st.quoted \/ st.escaped THEN Verdict("Protocol", 0)
        ELSE IF ~data /\ ~AdmitOther(syntax) THEN Verdict("Unsupported", 0)
        ELSE IF syntax = <<>> \/ ~Announced(syntax, st, data) THEN Verdict("frame", 0)
        ELSE IF LiteralAdmitted(LiteralLength[Last(syntax)], size, m)
        THEN Verdict("literal", LiteralLength[Last(syntax)])
        ELSE Verdict("Limit", 0)
ScannedLine(syntax, what, nest, size, m) ==
    LineVerdict(syntax, what, LineScan(syntax, nest, what # "Other"), size, m)
Line(f, start, nest, k, m) ==
    LET line == SubSeq(f, start + 1, Len(f))
        syntax == SubSeq(line, 1, Len(line) - 2)
    IN  IF Len(line) < 2 \/ line[Len(line) - 1] # "r"
        THEN [verdict |-> "Protocol", literal |-> 0, kind |-> k, nesting |-> nest]
        ELSE ScannedLine(syntax, IF k = "None" THEN Classify(syntax) ELSE k, nest, Len(f), m)
--------------------------------------------------------------------------
(* Scanner::next over a whole frame: the tokens from position i, ending in  *)
(* an "error" token if the frame cannot be scanned. data is the token's     *)
(* bytes, from and upto its place in the frame.                             *)
Token(k, data, i, j) == [k |-> k, data |-> data, from |-> i, upto |-> j]
Special == {"(", ")", "q", "s", "r", "l", "F"} \cup DOMAIN LiteralLength
Quoted(f, i) ==      \* the place of the closing quote, 0 if none
    LET from[j \in 1..Len(f) + 1] ==
          IF j > Len(f) \/ f[j] \in {"r", "l"} THEN 0
          ELSE IF f[j] = "q" THEN j
          ELSE IF f[j] = "b"
          THEN IF j < Len(f) /\ f[j + 1] \in {"b", "q"} THEN from[j + 2] ELSE 0
          ELSE from[j + 1]
    IN  from[i]
AtomEnd(f, i) ==
    LET from[j \in 1..Len(f)] ==
          IF j < Len(f) /\ f[j + 1] \notin Special THEN from[j + 1] ELSE j
    IN  from[i]
Tokens(f) ==
    LET from[i \in 1..Len(f) + 1] ==
          IF i > Len(f) THEN <<>>
          ELSE IF f[i] \in {"s", "r", "l"} THEN from[i + 1]
          ELSE IF f[i] \in {"(", ")"} THEN <<Token(f[i], <<>>, i, i)>> \o from[i + 1]
          ELSE IF f[i] = "F" THEN <<Token("(", <<>>, i, i)>> \o from[i + 1]
          ELSE IF f[i] = "q"
          THEN LET j == Quoted(f, i + 1)
                   data == SubSeq(f, i + 1, j - 1)
               IN  IF j = 0 THEN <<Token("error", <<>>, i, i)>>
                   ELSE <<Token(IF Contains(data, "b") THEN "escaped" ELSE "quoted", data, i, j)>>
                        \o from[j + 1]
          ELSE IF Announcement(f[i])
          THEN LET j == i + 2 + LiteralLength[f[i]]
               IN  IF j > Len(f) \/ f[i + 1] # "r" \/ f[i + 2] # "l"
                   THEN <<Token("error", <<>>, i, i)>>
                   ELSE <<Token("literal", SubSeq(f, i + 3, j), i, j)>> \o from[j + 1]
          ELSE LET j == IF f[i] \in {"B", "W"} THEN i ELSE AtomEnd(f, i)
               IN  <<Token("atom", SubSeq(f, i, j), i, j)>> \o from[j + 1]
    IN  from[1]

Unescape(data) ==
    LET from[i \in 1..Len(data) + 1] ==
          IF i > Len(data) THEN <<>>
          ELSE IF data[i] = "b" THEN <<data[i + 1]>> \o from[i + 2]
          ELSE <<data[i]>> \o from[i + 1]
    IN  from[1]
UnescapedLength(data) == Len(Unescape(data))

(* reserve, extend: the output has the same ceiling as the frame. *)
Fits(out) == Len(out) \in 0..MaxResponseBytes

(* normalize(), one token: st carries the locals of the loop and the output *)
(* built so far; copied is how much of the frame it already covers.         *)
Bad(st, e) == [st EXCEPT !.error = e]
Text(t) == t.k \in {"quoted", "escaped", "literal"}

ListToken(st, t) ==
    IF t.k = "(" THEN [st EXCEPT !.stage = IF @ = 0 THEN 1 ELSE @, !.depth = @ + 1]
    ELSE IF t.k = ")"
    THEN IF st.depth = 0 THEN Bad(st, "Protocol")
         ELSE [st EXCEPT !.depth = @ - 1,
                         !.stage = IF st.depth = 1 /\ @ = 1 THEN 2 ELSE @]
    ELSE IF st.stage = 2
    THEN IF t.k = "quoted" \/ (t.k = "atom" /\ t.data = <<"N">>) THEN [st EXCEPT !.stage = 3]
         ELSE Bad(st, IF t.k = "escaped" THEN "Unsupported" ELSE "Protocol")
    ELSE IF st.stage = 3 THEN [st EXCEPT !.stage = 4, !.convert = TRUE]
    ELSE IF st.stage = 4 THEN Bad(st, "Protocol")
    ELSE st

(* BODY[section]<offset>: only under a Body contract, once, followed by a   *)
(* space or directly by a literal, before which the missing space is added. *)
BodyToken(st, t, f) ==
    LET next == IF t.upto < Len(f) THEN f[t.upto + 1] ELSE "r"
    IN  IF st.body_seen \/ Contract # "Body" \/ t.data = <<"W">> THEN Bad(st, "Protocol")
        ELSE IF Announcement(next)
        THEN [st EXCEPT !.body_seen = TRUE, !.payload = TRUE, !.attr = "B",
                        !.out = @ \o SubSeq(f, st.copied + 1, t.upto) \o <<"s">>,
                        !.copied = t.upto]
        ELSE IF next = "s" THEN [st EXCEPT !.body_seen = TRUE, !.payload = TRUE, !.attr = "B"]
        ELSE Bad(st, "Protocol")

FetchToken(st, t, f) ==
    IF t.k = "(" THEN [st EXCEPT !.depth = @ + 1]
    ELSE IF t.k = ")"
    THEN IF st.depth = 0 THEN Bad(st, "Protocol") ELSE [st EXCEPT !.depth = @ - 1]
    ELSE IF t.k = "atom" /\ st.depth = 1
    THEN IF t.data = <<"D">> THEN [st EXCEPT !.date = TRUE]
         ELSE IF t.data \in {<<"B">>, <<"W">>} THEN BodyToken(st, t, f)
         ELSE [st EXCEPT !.attr = t.data[1]]
    ELSE IF Text(t) /\ st.payload
    THEN IF (IF t.k = "escaped" THEN UnescapedLength(t.data) ELSE Len(t.data)) > BodyCount
         THEN Bad(st, "Limit")
         ELSE [st EXCEPT !.payload = FALSE, !.convert = TRUE, !.metadata = FALSE]
    ELSE IF Text(t) THEN [st EXCEPT !.convert = (st.attr = "E")]
    ELSE st

(* An escaped quoted string that is converted becomes a literal. *)
ConvertedRaw(st, t, f) ==
    [st EXCEPT !.out = @ \o SubSeq(f, st.copied + 1, t.from - 1)
                       \o <<Announce(Len(t.data)), "r", "l">> \o t.data,
               !.copied = t.upto]
Converted(st, t, f) ==
    LET n == UnescapedLength(t.data)
        out == st.out \o SubSeq(f, st.copied + 1, t.from - 1)
               \o <<Announce(n), "r", "l">> \o Unescape(t.data)
    IN  IF n > MaxLiteralBytes \/ ~Fits(out) THEN Bad(st, "Limit")
        ELSE [st EXCEPT !.out = out, !.copied = t.upto]

ConvertToken(one, t, f) ==
    IF one.error # "none" THEN one
    ELSE IF one.metadata /\ Contains(t.data, "u") THEN Bad(one, "Unsupported")
    ELSE IF one.convert /\ t.k = "escaped" THEN Converted(one, t, f)
    ELSE one

NormalizeToken(st, t, k, f) ==
    IF st.error # "none" THEN st
    ELSE IF t.k = "error" THEN Bad(st, "Protocol")
    ELSE IF st.date    \* INTERNALDATE takes the next token itself
    THEN IF t.k = "quoted" /\ ~Contains(t.data, "u")
         THEN [st EXCEPT !.date = FALSE, !.attr = "D"] ELSE Bad(st, "Protocol")
    ELSE LET base == [st EXCEPT !.convert = FALSE, !.metadata = TRUE]
         IN  ConvertToken(IF k = "List" THEN ListToken(base, t) ELSE FetchToken(base, t, f), t, f)

(* normalize(): the output for a frame, or the error. *)
NormalizeStart ==
    [out |-> <<>>, copied |-> 0, depth |-> 0, attr |-> "", stage |-> 0, payload |-> FALSE,
     body_seen |-> FALSE, date |-> FALSE, convert |-> FALSE, metadata |-> TRUE, error |-> "none"]
NormalizeEnd(f, end) ==
    LET out == end.out \o SubSeq(f, end.copied + 1, Len(f))
    IN  IF end.error # "none" THEN [out |-> <<>>, error |-> end.error]
        ELSE IF end.date THEN [out |-> <<>>, error |-> "Protocol"]
        ELSE IF ~Fits(out) THEN [out |-> <<>>, error |-> "Limit"]
        ELSE [out |-> out, error |-> "none"]
Normalize(f, k) ==
    IF k = "Other" THEN [out |-> f, error |-> "none"]
    ELSE NormalizeEnd(f, FoldLeft(LAMBDA st, t : NormalizeToken(st, t, k, f), NormalizeStart,
                                  Tokens(f)))

(* finish(): charge three passes over the frame and the growth, normalize.  *)
Charged(f, norm, before, steps) ==
    LET total == steps + Saturating(Len(norm.out), Len(f))
    IN  IF steps > MaxParserSteps THEN [out |-> <<>>, error |-> "Limit", steps |-> before]
        ELSE IF norm.error # "none" THEN [out |-> <<>>, error |-> norm.error, steps |-> steps]
        ELSE IF total > MaxParserSteps
        THEN [out |-> norm.out, error |-> "Limit", steps |-> steps]
        ELSE [out |-> norm.out, error |-> "none", steps |-> total]
FinishFrame(f, k, m) == Charged(f, Normalize(f, k), m.steps, m.steps + 3 * Len(f))
--------------------------------------------------------------------------
AdmissionInit ==
    /\ stream \in Streams /\ pos = 0
    /\ frame = <<>> /\ line_start = 0 /\ literal_remaining = 0 /\ nesting = 0
    /\ kind = "None" /\ output = <<>> /\ offset = 0
    /\ metrics = [wire |-> 0, responses |-> 0, steps |-> 0]
    /\ failure = "none" /\ given = <<>>

FailWith(error) ==
    /\ failure' = IF failure = "none" THEN error ELSE failure
    /\ UNCHANGED <<line_start, literal_remaining, nesting, kind, output, offset>>

(* How much of the available bytes one iteration takes: the literal's rest, *)
(* or up to the next line feed, within what the limits leave.               *)
Upto(available) ==
    LET ends == {i \in 1..Len(available) : available[i] = "l"}
    IN  IF ends = {} THEN Len(available)
        ELSE CHOOSE i \in ends : \A j \in ends : i <= j
Desired(available) ==
    IF literal_remaining # 0 THEN Least(Len(available), literal_remaining)
    ELSE Upto(available)
Allowance(size, m) ==
    Least(Saturating(MaxResponseBytes, size),
          Least(Saturating(MaxOperationBytes, m.wire),
                Saturating(MaxParserSteps, m.steps)))

(* A line feed ended a line: line(), and finish() when the frame is whole.  *)
FrameEnd(f, m, done) ==
    IF done.error = "none"
    THEN /\ output' = done.out /\ offset' = 0
         /\ frame' = <<>> /\ line_start' = 0 /\ nesting' = 0
         /\ literal_remaining' = 0 /\ kind' = "None"
         /\ metrics' = [m EXCEPT !.steps = done.steps]
         /\ UNCHANGED failure
    ELSE FailWith(done.error) /\ frame' = f /\ metrics' = [m EXCEPT !.steps = done.steps]
Ended(f, m, l) ==
    CASE l.verdict = "literal" ->
             /\ literal_remaining' = l.literal /\ line_start' = Len(f)
             /\ kind' = l.kind /\ nesting' = l.nesting
             /\ frame' = f /\ metrics' = m
             /\ UNCHANGED <<output, offset, failure>>
      [] l.verdict = "frame" -> FrameEnd(f, m, FinishFrame(f, l.kind, m))
      [] OTHER -> FailWith(l.verdict) /\ frame' = f /\ metrics' = m
LineEnd(f, m) == Ended(f, m, Line(f, line_start, nesting, kind, m))

AllCounted(m) == m.responses >= MaxFrames

(* One iteration of poll_read's loop over the bytes that have arrived.      *)
GatherWhen == offset = Len(output)
Gather ==
    /\ failure = "none" /\ GatherWhen
    /\ \E n \in 1..Len(stream) - pos :
         LET available == SubSeq(stream, pos + 1, pos + n)
             fresh == frame = <<>> /\ kind = "None"
             m == IF fresh THEN [metrics EXCEPT !.responses = @ + 1] ELSE metrics
             count == Least(Desired(available), Allowance(Len(frame), m))
             f == frame \o SubSeq(available, 1, count)
             charged == [wire |-> m.wire + count, responses |-> m.responses,
                        steps |-> m.steps + count]
         IN  IF fresh /\ AllCounted(metrics)
             THEN FailWith("Limit") /\ UNCHANGED <<frame, metrics, pos>>
             ELSE IF count = 0
             THEN FailWith("Limit") /\ metrics' = m /\ UNCHANGED <<frame, pos>>
             ELSE /\ pos' = pos + count
                  /\ IF literal_remaining # 0
                     THEN /\ literal_remaining' = literal_remaining - count
                          /\ line_start' = IF literal_remaining = count THEN Len(f) ELSE line_start
                          /\ frame' = f /\ metrics' = charged
                          /\ UNCHANGED <<nesting, kind, output, offset, failure>>
                     ELSE IF Last(f) = "l" THEN LineEnd(f, charged)
                     ELSE /\ frame' = f /\ metrics' = charged
                          /\ UNCHANGED <<line_start, literal_remaining, nesting, kind,
                                         output, offset, failure>>
    /\ UNCHANGED <<stream, given>>

(* The transport ends: an Eof failure whatever the frame holds.             *)
StreamEnds ==
    /\ failure = "none" /\ offset = Len(output) /\ pos = Len(stream)
    /\ FailWith("Eof") /\ UNCHANGED <<stream, pos, frame, metrics, given>>

(* poll_read's tail: the parser's buffer takes part of the output.          *)
Give ==
    /\ failure = "none" /\ offset < Len(output)
    /\ \E n \in {1, Len(output) - offset} :
          /\ given' = given \o SubSeq(output, offset + 1, offset + n)
          /\ offset' = offset + n
    /\ UNCHANGED <<stream, pos, frame, line_start, literal_remaining, nesting, kind,
                   output, metrics, failure>>

Stopped == failure # "none" /\ UNCHANGED admissionVars

AdmissionNext == Gather \/ StreamEnds \/ Give \/ Stopped
AdmissionSpec == AdmissionInit /\ [][AdmissionNext]_admissionVars
--------------------------------------------------------------------------
(* admit_other: no response of an unsupported kind reaches the parser.      *)
OnlyAdmitted == output # <<>> => output[1] \in {"L", "F", "O"}

(* poll_read's loop condition: no byte of the next response is taken before *)
(* the last one was handed up whole, which is what upgrade()'s is_empty     *)
(* check relies on.                                                         *)
OneAtATime == frame # <<>> => offset = Len(output)

(* Memory and work stay within the limits of the operation, and every byte  *)
(* that was taken is accounted for.                                         *)
Bounded ==
    /\ metrics.wire = pos
    /\ Len(frame) <= MaxResponseBytes /\ Len(output) <= MaxResponseBytes
    /\ metrics.wire <= MaxOperationBytes /\ metrics.responses <= MaxFrames
    /\ metrics.steps <= MaxParserSteps
    /\ Len(frame) + literal_remaining <= MaxResponseBytes
    /\ literal_remaining <= MaxLiteralBytes

(* poll_read, line, finish: responses are taken one at a time (OneAtATime), *)
(* within the limits (Bounded), wherever the bytes are cut into chunks and  *)
(* whatever they announce.                                                  *)
FramesAdmitted == OneAtATime /\ Bounded
=============================================================================
