----------------------------- MODULE BodyPages -----------------------------
(* Reading the text of a message page by page: get_message, the body read    *)
(* behind it and the cursor that joins two pages (service/message.rs,        *)
(* imap/body.rs, imap/fetch.rs).                                             *)
(*                                                                           *)
(* A body is [single, size, header, wire, actual, text]: whether the message *)
(* is one part, the RFC822.SIZE and the part size the provider declares, the *)
(* bytes the header and the body really have, and what the body renders to.  *)
(* A text is its characters in order, each with the byte offset behind it in *)
(* UTF-8.  Fingerprints are taken to be injective: one is what it is         *)
(* computed from.                                                            *)
EXTENDS Integers, Sequences

CONSTANTS
    Callers, TextPageBytes,  \* limits.text_page_bytes of each caller's grant
    MessageUids, Bodies, Contents,  \* body names, and what each of them is
    Characters,              \* what they are made of
    ChunkBytes,              \* limits.fetch_chunk_bytes()
    MaxBodyBytes,            \* limits.max_body_wire_bytes
    MaxBytesAsked,           \* the values of max_bytes tried
    Backends,                \* "imap", "memory"
    MaxValidity, MaxGets, MaxBoxChanges   \* bounds

VARIABLES
    backend,
    boxValidity,  \* UIDVALIDITY of the mailbox
    box,          \* uid to body, "none" when there is no such message
    get,          \* the get_message in progress of each caller
    bodyCursors,  \* the continuation tokens handed out
    reply,        \* the last answer each caller got
    gets, boxChanges

bodyVars == <<backend, boxValidity, box, get, bodyCursors, reply, gets, boxChanges>>

(* str::is_char_boundary: where the k-th character of a text ends.          *)
Boundary(text, k) == IF k = 0 THEN 0 ELSE text[k][2]
Bytes(text) == Boundary(text, Len(text))

(* A character of UTF-8 has one to four bytes.                               *)
IsText(text) ==
    /\ text \in Seq(Characters \X Nat)
    /\ \A i, j \in 0..Len(text) : i < j => Boundary(text, i) < Boundary(text, j)
    /\ \A k \in 1..Len(text) : Boundary(text, k) <= Boundary(text, k - 1) + 4
BodyAssumption ==
    /\ TextPageBytes \in [Callers -> Nat] /\ MaxBytesAsked \subseteq Nat
    /\ ChunkBytes \in Nat \ {0} /\ MaxBodyBytes \in Nat
    /\ "none" \notin Bodies
    /\ \A b \in Bodies :
          /\ Contents[b].single \in BOOLEAN /\ Contents[b].size \in Nat
          /\ Contents[b].header \in Nat /\ Contents[b].wire \in Nat
          /\ Contents[b].actual \in Nat /\ IsText(Contents[b].text)

Least(a, b) == IF a < b THEN a ELSE b
NoCursor == [resource |-> <<0, 0>>, limits |-> <<0, 0>>, fingerprint |-> <<>>, offset |-> 0,
             given |-> <<>>]
NoGet == [stage |-> "idle", ref |-> <<0, 0>>, cursor |-> NoCursor, limits |-> <<0, 0>>,
         body |-> "none", whole |-> FALSE, ceiling |-> 0, got |-> 0]
Unanswered == [code |-> "none", cursored |-> FALSE, ref |-> <<0, 0>>, body |-> "none",
               given |-> <<>>, page |-> <<>>, more |-> FALSE, got |-> 0]
--------------------------------------------------------------------------
(* BodyCursor::page: where the page starts and ends, in characters.         *)
FloorCharBoundary(text, offset) ==
    CHOOSE k \in 0..Len(text) :
        /\ Boundary(text, k) <= offset
        /\ \A j \in 0..Len(text) : Boundary(text, j) <= offset => j <= k
UsableAnyBody(cursor, text, fingerprint) ==
    cursor.offset < Bytes(text) /\ \E k \in 0..Len(text) : Boundary(text, k) = cursor.offset
Usable(cursor, text, fingerprint) ==
    /\ cursor.fingerprint = fingerprint
    /\ \E k \in 0..Len(text) : Boundary(text, k) = cursor.offset
    /\ cursor.offset < Bytes(text)
PageStart(cursor, text) == FloorCharBoundary(text, cursor.offset)
PageEnd(cursor, text, maximum) == FloorCharBoundary(text, cursor.offset + maximum)

(* read_body and MemoryBodies::set: what each backend's fingerprint covers. *)
BodyFingerprint(k, body) ==
    IF backend = "memory" THEN <<body>> ELSE <<k.ref, k.limits, body>>

(* get_message: a stale reference under a cursor is reported as the cursor. *)
Mapped(code, cursored) ==
    IF cursored /\ code \in {"StaleReference", "MessageNotFound"} THEN "StaleCursor" ELSE code
Cursored(k) == k.cursor # NoCursor
AnswerGet(c, code) ==
    /\ reply' = [reply EXCEPT ![c] = [Unanswered EXCEPT
                    !.code = Mapped(code, Cursored(get[c])), !.cursored = Cursored(get[c]),
                    !.ref = get[c].ref, !.body = get[c].body, !.got = get[c].got]]
    /\ get' = [get EXCEPT ![c] = NoGet]
    /\ UNCHANGED bodyCursors
--------------------------------------------------------------------------
BodyInit ==
    /\ backend \in Backends
    /\ boxValidity = 1 /\ box \in [MessageUids -> Bodies]
    /\ get = [c \in Callers |-> NoGet] /\ bodyCursors = {}
    /\ reply = [c \in Callers |-> Unanswered] /\ gets = 0 /\ boxChanges = 0

(* get_message up to its admission: the page size is checked against the    *)
(* caller's grant, the cursor against the message and the limits.           *)
Admits(c, maximum) == 4 <= maximum /\ maximum <= TextPageBytes[c]
GetMessage(c, uid, v, cursor, maximum) ==
    LET limits == <<TextPageBytes[c], maximum>>
        asked == [NoGet EXCEPT !.stage = "read", !.ref = <<uid, v>>, !.cursor = cursor,
                              !.limits = limits]
        refused == IF ~Admits(c, maximum) THEN "InvalidRequest"
                   ELSE IF /\ cursor # NoCursor
                           /\ cursor.resource # asked.ref \/ cursor.limits # limits
                   THEN "StaleCursor" ELSE "none"
    IN  /\ get[c].stage = "idle" /\ gets < MaxGets /\ gets' = gets + 1
        /\ IF refused = "none"
           THEN get' = [get EXCEPT ![c] = asked] /\ reply' = [reply EXCEPT ![c] = Unanswered]
           ELSE /\ reply' = [reply EXCEPT ![c] = [Unanswered EXCEPT !.code = refused,
                                !.cursored = cursor # NoCursor, !.ref = asked.ref]]
                /\ UNCHANGED get
        /\ UNCHANGED <<backend, boxValidity, box, bodyCursors, boxChanges>>

(* The page of a rendered body, and the token for the next one.             *)
DeliverPage(c, k) ==
    LET text == Contents[k.body].text
        fingerprint == BodyFingerprint(k, k.body)
        start == PageStart(k.cursor, text)
        end == PageEnd(k.cursor, text, k.limits[2])
        page == SubSeq(text, start + 1, end)
        more == Boundary(text, end) < Bytes(text)
        next == [resource |-> k.ref, limits |-> k.limits, fingerprint |-> fingerprint,
                 offset |-> Boundary(text, end), given |-> k.cursor.given \o page]
    IN  IF Cursored(k) /\ ~Usable(k.cursor, text, fingerprint)
        THEN AnswerGet(c, "StaleCursor")
        ELSE /\ get' = [get EXCEPT ![c] = NoGet]
             /\ bodyCursors' = IF more THEN bodyCursors \cup {next} ELSE bodyCursors
             /\ reply' = [reply EXCEPT ![c] =
                   [code |-> "ok", cursored |-> Cursored(k), ref |-> k.ref, body |-> k.body,
                    given |-> k.cursor.given, page |-> page, more |-> more, got |-> k.got]]

(* MemoryBodies::read, under its lock.                                      *)
MemoryRead(c) ==
    LET k == get[c]
        found == box[k.ref[1]]
    IN  /\ backend = "memory" /\ k.stage = "read"
        /\ IF boxValidity # k.ref[2] THEN AnswerGet(c, "StaleReference")
           ELSE IF found = "none" THEN AnswerGet(c, "MessageNotFound")
           ELSE DeliverPage(c, [k EXCEPT !.body = found, !.got = Contents[found].actual])
        /\ UNCHANGED <<backend, boxValidity, box, gets, boxChanges>>

(* read_selected: EXAMINE compares the incarnation, the metadata decides    *)
(* which section is read and how large it may be.                           *)
ExamineMailbox(c) ==
    LET k == get[c]
    IN  /\ backend = "imap" /\ k.stage = "read"
        /\ IF boxValidity # k.ref[2] THEN AnswerGet(c, "StaleReference")
           ELSE /\ get' = [get EXCEPT ![c].stage = "metadata"]
                /\ UNCHANGED <<bodyCursors, reply>>
        /\ UNCHANGED <<backend, boxValidity, box, gets, boxChanges>>

(* A row for the uid asked for, in the incarnation examined; no row is a    *)
(* message that is gone, a change of incarnation ends the session.          *)
Missing(k) == IF boxValidity # k.ref[2] THEN "UnsafeSelection"
              ELSE IF box[k.ref[1]] = "none" THEN "MessageNotFound" ELSE "none"
Metadata(c) ==
    LET k == get[c]
        found == box[k.ref[1]]
        body == Contents[found]
        whole == body.single /\ body.size <= MaxBodyBytes
    IN  /\ k.stage = "metadata"
        /\ IF Missing(k) # "none" THEN AnswerGet(c, Missing(k))
           ELSE IF body.wire > MaxBodyBytes THEN AnswerGet(c, "Limit")
           ELSE /\ get' = [get EXCEPT ![c] = [k EXCEPT !.stage = "bytes", !.body = found,
                                !.whole = whole,
                                !.ceiling = IF whole THEN body.size ELSE body.wire]]
                /\ UNCHANGED <<bodyCursors, reply>>
        /\ UNCHANGED <<backend, boxValidity, box, gets, boxChanges>>

(* bytes: one FETCH of the section at the offset reached, one byte more     *)
(* than the ceiling allows at most, so that a longer section shows itself.  *)
Section(k) ==
    LET body == Contents[k.body]
    IN  IF k.whole THEN body.header + body.actual ELSE body.actual
Requested(k) == Least(ChunkBytes, k.ceiling + 1 - k.got)
EndOfSection(k, value) == value < Requested(k)
FetchSection(c) ==
    LET k == get[c]
        value == Least(Requested(k), Section(k) - k.got)
        required == k.got + value
    IN  /\ k.stage = "bytes"
        /\ IF Requested(k) = 0 THEN AnswerGet(c, "Limit")
           ELSE IF Missing(k) # "none" THEN AnswerGet(c, Missing(k))
           ELSE IF value > MaxBodyBytes - k.got THEN AnswerGet(c, "Limit")
           ELSE IF required > k.ceiling THEN AnswerGet(c, "Protocol")
           ELSE /\ get' = [get EXCEPT ![c].got = required,
                                        ![c].stage = IF EndOfSection(k, value) THEN "render" ELSE @]
                /\ UNCHANGED <<bodyCursors, reply>>
        /\ UNCHANGED <<backend, boxValidity, box, gets, boxChanges>>

(* The rest: a whole message must hold no more body than was declared; the  *)
(* body is rendered, the session closed, the page cut.                      *)
Render(c) ==
    LET k == get[c]
        body == Contents[k.body]
    IN  /\ k.stage = "render"
        /\ IF k.whole /\ k.got - body.header > body.wire
           THEN AnswerGet(c, "Protocol")
           ELSE DeliverPage(c, k)
        /\ UNCHANGED <<backend, boxValidity, box, gets, boxChanges>>

(* The deadline, the connection or the rendering limits end the read.       *)
Cut(c) ==
    /\ get[c].stage # "idle"
    /\ AnswerGet(c, "Unavailable")
    /\ UNCHANGED <<backend, boxValidity, box, gets, boxChanges>>

(* The provider, between the reads of a message.                            *)
Quiet(uid) == \A c \in Callers : get[c].stage \in {"bytes", "render"} => get[c].ref[1] # uid
RemoveMessage(uid) ==
    /\ box[uid] # "none" /\ boxChanges < MaxBoxChanges /\ boxChanges' = boxChanges + 1
    /\ box' = [box EXCEPT ![uid] = "none"]
    /\ UNCHANGED <<backend, boxValidity, get, bodyCursors, reply, gets>>
Rewrite(uid, body) ==
    /\ box[uid] \notin {"none", body} /\ Quiet(uid)
    /\ boxChanges < MaxBoxChanges /\ boxChanges' = boxChanges + 1
    /\ box' = [box EXCEPT ![uid] = body]
    /\ UNCHANGED <<backend, boxValidity, get, bodyCursors, reply, gets>>
RecreateMailbox(uid, body) ==
    /\ boxValidity < MaxValidity /\ boxChanges < MaxBoxChanges /\ boxChanges' = boxChanges + 1
    /\ boxValidity' = boxValidity + 1
    /\ box' = [u \in MessageUids |-> IF u = uid THEN body ELSE "none"]
    /\ UNCHANGED <<backend, get, bodyCursors, reply, gets>>

BodyNext ==
    \/ \E c \in Callers :
          \/ \E uid \in MessageUids, v \in 1..boxValidity, cursor \in bodyCursors \cup {NoCursor},
                maximum \in MaxBytesAsked : GetMessage(c, uid, v, cursor, maximum)
          \/ MemoryRead(c) \/ ExamineMailbox(c) \/ Metadata(c) \/ FetchSection(c) \/ Render(c) \/ Cut(c)
    \/ \E uid \in MessageUids : RemoveMessage(uid)
    \/ \E uid \in MessageUids, body \in Bodies : Rewrite(uid, body) \/ RecreateMailbox(uid, body)

BodySpec == BodyInit /\ [][BodyNext]_bodyVars
--------------------------------------------------------------------------
(* BodyCursor::page, get_message: the pages of a chain of cursors are the   *)
(* text of one body from its beginning, without a gap, a repetition or a    *)
(* piece of another, and the last of them completes it.                     *)
ChainsExact ==
    \A c \in DOMAIN reply : reply[c].code = "ok" =>
       LET text == Contents[reply[c].body].text
           read == reply[c].given \o reply[c].page
       IN  /\ Len(read) <= Len(text) /\ read = SubSeq(text, 1, Len(read))
           /\ reply[c].more <=> read # text

(* get_message, floor_char_boundary: every page that is not the last one    *)
(* makes progress, whatever the width of the next character.                *)
PagesAdvance == \A c \in DOMAIN reply : reply[c].more => reply[c].page # <<>>

(* bytes: no page is cut from a body that was not read to its end, however  *)
(* the declared sizes relate to the real ones.                              *)
ReadToTheEnd ==
    \A c \in DOMAIN reply : (reply[c].code = "ok" /\ backend = "imap") =>
       LET body == Contents[reply[c].body]
       IN  reply[c].got \in {body.actual, body.header + body.actual}

(* bytes, read_selected: a body whose declared sizes are upper bounds and   *)
(* fit the limit is never refused for its size.                             *)
HonestSizesServed ==
    \A c \in DOMAIN reply : (reply[c].code \in {"Limit", "Protocol"} /\ reply[c].body # "none") =>
       LET body == Contents[reply[c].body]
       IN  \/ body.size < body.header + body.actual
           \/ body.wire < body.actual

(* get_message: the caller is told of the thing it used, the cursor if      *)
(* there is one, when the message or its mailbox changed under it.          *)
StaleNamesInput ==
    \A c \in DOMAIN reply :
       /\ reply[c].code \in {"StaleReference", "MessageNotFound"} => ~reply[c].cursored
       /\ reply[c].code = "StaleCursor" => reply[c].cursored

(* get_message: the pages of a chain of cursors are one body from its        *)
(* beginning (ChainsExact), each makes progress (PagesAdvance), no page is   *)
(* of a body that was not read to its end (ReadToTheEnd), honest sizes are   *)
(* served (HonestSizesServed), and the caller is told of the thing it used   *)
(* (StaleNamesInput).                                                        *)
BodyPagesExact ==
    ChainsExact /\ PagesAdvance /\ ReadToTheEnd /\ HonestSizesServed /\ StaleNamesInput
============================================================================
