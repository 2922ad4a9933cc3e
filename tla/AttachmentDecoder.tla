-------------------------- MODULE AttachmentDecoder --------------------------
(* One attachment transfer: read_attachment calls on leased connections,     *)
(* each fetching wire bytes in bounded slices, decoding them incrementally   *)
(* and returning one page (imap/attachment.rs, imap/attachment/decoder.rs).  *)
(*                                                                           *)
(* A wire byte is a symbol: "x" and "y" are base64 digits, hexadecimal and   *)
(* ordinary text at once, "g" is text that is neither, "=" itself, "s" a     *)
(* space or tab, "r" CR, "l" LF.  A decoded byte is the tuple of the wire    *)
(* bytes that determine it: <<c>> for a byte that stands for itself,         *)
(* <<"=", h, h>> for an escape, the two adjacent digits for a base64 byte.   *)
(* (Digits before a pad are taken to be canonical ones.)                     *)
EXTENDS Integers, Sequences, SequencesExt

CONSTANTS
    Parts,              \* the part's bytes, per endpoint identity
    Encodings,          \* TransferEncoding
    Identities,         \* endpoints a connection may belong to
    FetchBytes,         \* limits.fetch_chunk_bytes(); also MAX_CHUNK_BYTES
    PageBytes,          \* limits.max_attachment_chunk_bytes
    MaxWireBytes,       \* limits.max_attachment_wire_bytes
    MaxDecodedBytes,    \* limits.max_attachment_decoded_bytes
    MaxDecodeSteps,     \* limits.max_decode_steps
    MaxBeyond           \* bound: reads after the transfer is gone

VARIABLES
    part,       \* the bytes at each endpoint: part[identity]
    encoding,   \* the encoding BODYSTRUCTURE declares
    live,       \* AttachmentDecoder.0 is Some
    identity,   \* TransferState.identity, "none" before the first read
    wire_bytes, eof, dec,
    reading,    \* the read_attachment call in progress: its connection's
                \* identity, or "none"
    fetched,    \* the local of read_selected
    given,      \* the pages handed out, as one sequence
    integrity,  \* <<>>, or <<the byte sequence the final digest covers>>
    beyond      \* reads refused with TransferExpired

vars == <<part, encoding, live, identity, wire_bytes, eof, dec, reading, fetched,
          given, integrity, beyond>>

Least(a, b) == IF a < b THEN a ELSE b
Saturating(a, b) == IF a > b THEN a - b ELSE 0
Digits == {"x", "y"}
White == {"s", "r", "l"}
--------------------------------------------------------------------------
(* Decoder::new, retained_bytes, pending_len, state_limit. *)
NewDecoder ==
    [pending |-> <<>>, offset |-> 0, base64 |-> <<>>, padded |-> FALSE, qp |-> <<>>,
     white |-> <<>>, cr |-> FALSE, decoded |-> 0, steps |-> 0, error |-> "none"]
PendingLen(d) == Len(d.pending) - d.offset
Retained(d) ==
    Len(d.pending) + Len(d.base64) + Len(d.qp) + Len(d.white) + (IF d.cr THEN 1 ELSE 0)
StateLimit == FetchBytes + PageBytes
Broken(d, e) == [d EXCEPT !.error = e]

(* append: both ceilings, then the bytes. *)
AppendBytes(d, bytes) ==
    IF \/ Len(bytes) > Saturating(MaxDecodedBytes, d.decoded + PendingLen(d))
       \/ Len(bytes) > Saturating(StateLimit, Retained(d))
    THEN Broken(d, "Limit")
    ELSE [d EXCEPT !.pending = @ \o bytes]

Compact(d) ==
    [d EXCEPT !.pending = SubSeq(@, d.offset + 1, Len(@)), !.offset = 0]

(* A base64 quartet: three bytes, two before one pad, one before two.       *)
Quartet(q) ==
    IF ToSet(SubSeq(q, 1, 2)) \subseteq Digits
    THEN IF q[3] = "=" /\ q[4] = "=" THEN <<<<q[1], q[2]>>>>
         ELSE IF q[3] \in Digits /\ q[4] = "=" THEN <<<<q[1], q[2]>>, <<q[2], q[3]>>>>
         ELSE IF q[3] \in Digits /\ q[4] \in Digits
         THEN <<<<q[1], q[2]>>, <<q[2], q[3]>>, <<q[3], q[4]>>>>
         ELSE <<>>
    ELSE <<>>

(* The scalar path of the Base64 arm of push, one byte. *)
Base64Byte(d, byte) ==
    LET carried == Append(d.base64, byte)
        full == [d EXCEPT !.base64 = carried]
        out == Quartet(carried)
        appended == AppendBytes(full, out)
    IN  IF byte \in White THEN d
        ELSE IF d.padded \/ byte \notin Digits \cup {"="} THEN Broken(d, "Protocol")
        ELSE IF Retained(d) >= StateLimit THEN Broken(d, "Limit")
        ELSE IF Len(carried) < 4 THEN full
        ELSE IF out = <<>> THEN Broken(full, "Protocol")
        ELSE IF appended.error # "none" THEN appended
        ELSE [appended EXCEPT !.base64 = <<>>, !.padded = Len(out) < 3]

(* base64_run: whole unpadded quartets at once, four carry bytes kept free. *)
DigitRun(wire) ==
    LET stop == SelectInSeq(wire, LAMBDA byte : byte \notin Digits)
    IN  IF stop = 0 THEN Len(wire) ELSE stop - 1
RunGroupsNoCarry(d, wire) ==
    Least(DigitRun(wire) \div 4,
          Least(Saturating(MaxDecodedBytes, d.decoded + PendingLen(d)),
                Saturating(StateLimit, Retained(d))) \div 3)
RunGroups(d, wire) ==
    Least(DigitRun(wire) \div 4,
          Least(Saturating(MaxDecodedBytes, d.decoded + PendingLen(d)),
                Saturating(Saturating(StateLimit, Retained(d)), 4)) \div 3)
Base64Run(d, wire) ==
    LET groups == RunGroups(d, wire)
    IN  IF groups < 2 THEN 0 ELSE groups * 4

(* quoted_printable_octet, flush_raw_prefix, raw_quoted_printable.          *)
QpOctet(d, byte) ==
    LET carried == Append(d.qp, byte)
        clear == [d EXCEPT !.qp = <<>>]
    IN  IF d.error # "none" THEN d
        ELSE IF d.qp = <<>> /\ byte # "=" THEN AppendBytes(d, <<<<byte>>>>)
        ELSE IF Retained(d) >= StateLimit THEN Broken(d, "Limit")
        ELSE IF Len(carried) < 3 THEN [d EXCEPT !.qp = carried]
        ELSE IF carried[2] = "r" /\ carried[3] = "l" THEN clear
        ELSE IF carried[2] \in Digits /\ carried[3] \in Digits
        THEN AppendBytes(clear, <<carried>>)
        ELSE Broken(clear, "Protocol")

FlushRawPrefix(d) ==
    LET spaces == FoldLeft(QpOctet, [d EXCEPT !.white = <<>>], d.white)
    IN  IF spaces.error = "none" /\ d.cr
        THEN QpOctet([spaces EXCEPT !.cr = FALSE], "r") ELSE spaces

KeepSpace(d) ==
    IF Retained(d) >= StateLimit THEN Broken(d, "Limit")
    ELSE [d EXCEPT !.white = Append(@, "s")]
RawQp(d, byte) ==
    IF d.cr /\ byte = "l"
    THEN QpOctet(QpOctet([d EXCEPT !.white = <<>>, !.cr = FALSE], "r"), "l")
    ELSE LET e == IF d.cr THEN FlushRawPrefix(d) ELSE d
         IN  IF e.error # "none" THEN e
             ELSE CASE byte = "s" -> KeepSpace(e)
                    [] byte = "r" -> IF Retained(e) >= StateLimit THEN Broken(e, "Limit")
                                     ELSE [e EXCEPT !.cr = TRUE]
                    [] byte = "l" -> QpOctet([e EXCEPT !.white = <<>>], "l")
                    [] OTHER -> LET f == FlushRawPrefix(e)
                                IN  IF f.error # "none" THEN f ELSE QpOctet(f, byte)

(* The fast path of the QuotedPrintable arm: a run of ordinary bytes, of    *)
(* which what still fits is appended before the limit is reported.          *)
QpPlain(byte) == byte \notin {"=", "s", "r", "l"}
QpRun(d, wire) ==
    IF d.qp # <<>> \/ d.white # <<>> \/ d.cr \/ ~QpPlain(wire[1]) THEN 0
    ELSE LET stop == SelectInSeq(wire, LAMBDA byte : ~QpPlain(byte))
         IN  IF stop = 0 THEN Len(wire) ELSE stop - 1
QpTake(d, wire, run) ==
    LET count == Least(run, Least(Saturating(MaxDecodedBytes, d.decoded + PendingLen(d)),
                                  Saturating(StateLimit, Retained(d))))
        e == AppendBytes(d, [i \in 1..count |-> <<wire[i]>>])
    IN  IF count # run THEN Broken(e, "Limit") ELSE e

(* push, the scalar arms and the arms with their fast paths.                *)
PushScalar(d, wire, enc) ==
    FoldLeft(LAMBDA e, byte : IF e.error # "none" THEN e
                              ELSE IF enc = "Base64" THEN Base64Byte(e, byte) ELSE RawQp(e, byte),
             d, wire)
RECURSIVE PushFast(_, _, _)
PushFast(d, wire, enc) ==
    IF d.error # "none" \/ wire = <<>> THEN d
    ELSE LET run == IF enc = "Base64"
                    THEN IF d.base64 = <<>> /\ ~d.padded THEN Base64Run(d, wire) ELSE 0
                    ELSE QpRun(d, wire)
             rest == SubSeq(wire, (IF run = 0 THEN 1 ELSE run) + 1, Len(wire))
         IN  IF run = 0
             THEN PushFast(IF enc = "Base64" THEN Base64Byte(d, wire[1]) ELSE RawQp(d, wire[1]),
                           rest, enc)
             ELSE IF enc = "Base64"
             THEN PushFast([d EXCEPT !.pending = @ \o FlattenSeq(
                               [i \in 1..run \div 4 |-> Quartet(SubSeq(wire, 4 * i - 3, 4 * i))])],
                           rest, enc)
             ELSE PushFast(QpTake(d, wire, run), rest, enc)

Charged(d, wire) == Compact([d EXCEPT !.steps = @ + Len(wire)])
Push(d, wire, enc) ==
    IF d.steps + Len(wire) > MaxDecodeSteps THEN Broken(d, "Limit")
    ELSE IF enc = "Identity"
    THEN AppendBytes(Charged(d, wire), [i \in 1..Len(wire) |-> <<wire[i]>>])
    ELSE PushFast(Charged(d, wire), wire, enc)

(* finish, at the end of the wire bytes.                                    *)
FinishDecoder(d, enc) ==
    LET flushed == IF d.cr THEN FlushRawPrefix(d) ELSE [d EXCEPT !.white = <<>>]
    IN  CASE enc = "Identity" -> d
          [] enc = "Base64" -> IF d.base64 = <<>> THEN d ELSE Broken(d, "Protocol")
          [] OTHER -> IF flushed.error # "none" THEN flushed
                      ELSE IF flushed.qp = <<>> THEN flushed ELSE Broken(flushed, "Protocol")

(* take_chunk: the page, and the decoder after it.                          *)
TakeLen(d) == Least(PendingLen(d), PageBytes)
TakePage(d) == SubSeq(d.pending, d.offset + 1, d.offset + TakeLen(d))
Taken(d) ==
    IF PendingLen(d) <= PageBytes
    THEN [d EXCEPT !.pending = <<>>, !.offset = 0, !.decoded = @ + TakeLen(d)]
    ELSE [d EXCEPT !.offset = @ + PageBytes, !.decoded = @ + TakeLen(d)]
--------------------------------------------------------------------------
Init ==
    /\ part \in [Identities -> Parts] /\ encoding \in Encodings
    /\ live = TRUE /\ identity = "none" /\ wire_bytes = 0 /\ eof = FALSE
    /\ dec = NewDecoder /\ reading = "none" /\ fetched = FALSE
    /\ given = <<>> /\ integrity = <<>> /\ beyond = 0

(* read_attachment up to the selection: the state is taken, so it is gone   *)
(* unless this call puts it back; it is bound to the first endpoint.        *)
SameEndpoint(i) == identity \in {"none", i}
ReadAttachment(i) ==
    /\ reading = "none"
    /\ IF ~live
       THEN /\ beyond < MaxBeyond /\ beyond' = beyond + 1
            /\ UNCHANGED <<live, identity, reading, fetched>>
       ELSE /\ live' = FALSE /\ fetched' = FALSE
            /\ IF SameEndpoint(i)
               THEN identity' = i /\ reading' = i
               ELSE UNCHANGED <<identity, reading>>
            /\ UNCHANGED beyond
    /\ UNCHANGED <<part, encoding, wire_bytes, eof, dec, given, integrity>>

(* One turn of read_selected's loop: fetch at most count bytes at the wire  *)
(* offset (a short answer is the end of the part), decode, finish at EOF.   *)
(* The page is full, or the operation budget is nearly spent: no turn.      *)
WantsMore == PendingLen(dec) < PageBytes /\ ~eof
FetchTurn ==
    /\ reading # "none" /\ WantsMore
    /\ LET remaining == MaxWireBytes - wire_bytes
           count == Least(FetchBytes, remaining + 1)
           wire == SubSeq(part[reading], wire_bytes + 1,
                          Least(wire_bytes + count, Len(part[reading])))
           pushed == Push(dec, wire, encoding)
           done == IF pushed.error = "none" /\ Len(wire) < count
                   THEN FinishDecoder(pushed, encoding) ELSE pushed
       IN  /\ wire_bytes' = wire_bytes + Len(wire)
           /\ IF Len(wire) > remaining \/ done.error # "none"
              THEN reading' = "none" /\ UNCHANGED <<dec, eof, fetched>>
              ELSE dec' = done /\ eof' = (Len(wire) < count) /\ fetched' = TRUE
                   /\ UNCHANGED reading
    /\ UNCHANGED <<part, encoding, live, identity, given, integrity, beyond>>

(* The page: taken from the decoder, then LOGOUT, and only then handed out; *)
(* the state is put back unless this was the last page, which alone carries *)
(* the digest.                                                              *)
Complete(d) == eof /\ PendingLen(d) = 0
Page ==
    /\ reading # "none"
    /\ ~WantsMore \/ (fetched /\ PendingLen(dec) # 0)
    /\ reading' = "none" /\ dec' = Taken(dec)
    /\ given' = given \o TakePage(dec)
    /\ live' = ~Complete(Taken(dec))
    /\ integrity' = IF Complete(Taken(dec)) THEN <<given'>> ELSE integrity
    /\ UNCHANGED <<part, encoding, identity, wire_bytes, eof, fetched, beyond>>

(* Any failure or cancellation during retrieval, the one between take_chunk *)
(* and the end of LOGOUT included: the state taken is dropped.              *)
Cut ==
    /\ reading # "none"
    /\ reading' = "none" /\ live' = FALSE
    /\ \/ UNCHANGED dec
       \/ ~WantsMore /\ dec' = Taken(dec)
    /\ UNCHANGED <<part, encoding, identity, wire_bytes, eof, fetched, given, integrity,
                   beyond>>

Next == (\E i \in Identities : ReadAttachment(i)) \/ FetchTurn \/ Page \/ Cut
Spec == Init /\ [][Next]_vars
--------------------------------------------------------------------------
(* The reference: decoding a whole part at once. *)
RECURSIVE WholeBase64(_), StripSpaces(_), WholeQp(_)
Solid(s) == SelectSeq(s, LAMBDA byte : byte \notin White)
WholeBase64(s) ==
    IF s = <<>> THEN [ok |-> TRUE, out |-> <<>>]
    ELSE IF Len(s) < 4 \/ Quartet(SubSeq(s, 1, 4)) = <<>> THEN [ok |-> FALSE, out |-> <<>>]
    ELSE LET q == Quartet(SubSeq(s, 1, 4))
             rest == WholeBase64(SubSeq(s, 5, Len(s)))
         IN  [ok |-> rest.ok /\ (Len(q) < 3 => Len(s) = 4), out |-> q \o rest.out]

(* Spaces that end a line, or the part, are padding of the transport.       *)
StripSpaces(s) ==
    IF s = <<>> THEN <<>>
    ELSE LET n == SelectInSeq(s, LAMBDA byte : byte # "s")
         IN  IF n = 0 THEN <<>>
             ELSE IF n = 1 THEN <<s[1]>> \o StripSpaces(Tail(s))
             ELSE IF s[n] = "l" \/ (s[n] = "r" /\ n < Len(s) /\ s[n + 1] = "l")
             THEN StripSpaces(SubSeq(s, n, Len(s)))
             ELSE SubSeq(s, 1, n - 1) \o StripSpaces(SubSeq(s, n, Len(s)))
WholeQp(s) ==
    IF s = <<>> THEN [ok |-> TRUE, out |-> <<>>]
    ELSE IF s[1] # "="
    THEN LET rest == WholeQp(Tail(s)) IN [rest EXCEPT !.out = <<<<s[1]>>>> \o @]
    ELSE IF Len(s) < 3 THEN [ok |-> FALSE, out |-> <<>>]
    ELSE LET rest == WholeQp(SubSeq(s, 4, Len(s)))
         IN  IF s[2] = "r" /\ s[3] = "l" THEN rest
             ELSE IF s[2] \in Digits /\ s[3] \in Digits
             THEN [rest EXCEPT !.out = <<SubSeq(s, 1, 3)>> \o @]
             ELSE [ok |-> FALSE, out |-> <<>>]

WholePart(s, enc) ==
    CASE enc = "Identity" -> [ok |-> TRUE, out |-> [i \in 1..Len(s) |-> <<s[i]>>]]
      [] enc = "Base64" -> WholeBase64(Solid(s))
      [] OTHER -> WholeQp(StripSpaces(s))

Reference == WholePart(part[identity], encoding)

(* read_selected, Decoder: the pages are in order and without gap or        *)
(* repetition the decoded part of the one endpoint the transfer is bound    *)
(* to, wherever the slices cut it and whichever reads were cut short.       *)
PagesArePrefix ==
    (identity # "none" /\ Reference.ok) => IsPrefix(given, Reference.out)

(* read_attachment: the digest and the total come with the last page of a   *)
(* well-formed part that was handed out whole, never of a malformed one.    *)
IntegrityIsWhole ==
    integrity # <<>> => Reference.ok /\ integrity = <<Reference.out>>

(* append, base64_run, raw_quoted_printable: carry and undelivered output   *)
(* together stay within the state limit, the output within its own.         *)
Bounded ==
    Retained(dec) <= StateLimit /\ dec.decoded + PendingLen(dec) <= MaxDecodedBytes

(* base64_run and the ordinary-byte run: the fast paths decode what the     *)
(* byte-at-a-time path decodes, its failures and what it leaves behind too. *)
FastIsScalar ==
    (encoding # "Identity" /\ identity # "none") =>
       LET wire == SubSeq(part[identity], wire_bytes + 1,
                          Least(wire_bytes + FetchBytes, Len(part[identity])))
       IN  PushFast(Compact(dec), wire, encoding) = PushScalar(Compact(dec), wire, encoding)
=============================================================================
