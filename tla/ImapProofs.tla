----------------------------- MODULE ImapProofs -----------------------------
(***************************************************************************)
(* A conversation with a server is safe, for any operations, capability    *)
(* lists, noise and limits.  The argument follows what is on its way to    *)
(* the client: nothing of it is plaintext once TLS is up (Channel); a      *)
(* completion with the client's tag means that the provider is done with   *)
(* the command (Tags); before EXAMINE has pinned a selection no row is on  *)
(* its way (Unpinned), and afterwards a row from any other selection has   *)
(* the announcement of the change before it, which ends the operation      *)
(* (Selection).  Where the script stands says which commands can have been *)
(* sent (Position).                                                        *)
(*                                                                         *)
(* A search in pages tells every message once and all that it should, for  *)
(* any windows, limits, answers and changes of the mailbox.  What was told *)
(* before, the page in the making, the UIDs about to be fetched and those  *)
(* not yet looked at lie below each other (Layered), and what is owed is   *)
(* there, matches, and is not among what was told before (Owing).          *)
(*                                                                         *)
(* A list of mailboxes in pages is the inventory, for any names, scopes    *)
(* and spellings.  The inventory can be told in one order only (OneList),  *)
(* so what a cursor stands for is a first piece of it; a name passes a     *)
(* scope when account and grant both mean its mailbox (ScopeIsMeant).      *)
(*                                                                         *)
(* Frames are admitted one at a time and within the limits, for any bytes, *)
(* chunks and limits.  An iteration takes no more than each limit leaves,  *)
(* a literal is announced within what the frame has left (LiteralFits),    *)
(* and what normalization makes of a frame is measured and charged         *)
(* (FinishFits).                                                           *)
(***************************************************************************)
EXTENDS ImapClient, Admission, SearchPaging, MailboxPaging, SequenceTheorems,
        WellFoundedInduction, TLAPS

(* All that is on its way to the client, in order. *)
Coming == buffer \o wire

Constructors ==
    {"ok", "done", "cont", "caps", "list", "search", "fetch", "bye"} \cup {n[1] : n \in Noise}
Codes ==
    {"none", "OK", "NO", "UIDVALIDITY", "UIDNEXT", "READ-ONLY", "READ-WRITE", "APPENDUID",
     "APPENDUID-BAD", "requested", "other"} \cup CapSets \cup {n[2] : n \in Noise}
Messages ==
    [t : Constructors, x : Nat, c : Codes, tls : BOOLEAN, inc : Nat, ro : BOOLEAN]
Commands ==
    {"none", "Greeting", "Capability", "StartTls", "Login", "List", "Examine", "Search",
     "Projection", "Body", "Append", "Logout"}

Locals(g) ==
    /\ g = [rows |-> g.rows, uids |-> g.uids, validity |-> g.validity, bye |-> g.bye,
            streamed |-> g.streamed]
    /\ g.rows \in Seq(Messages) /\ g.streamed \in BOOLEAN

Shapes ==
    /\ mode \in Modes /\ op \in Ops \cup {"connect"}
    /\ sent \in BOOLEAN /\ secure \in BOOLEAN /\ tag \in Nat
    /\ caps = [names |-> caps.names, tls |-> caps.tls] /\ caps.tls \in BOOLEAN
    /\ Locals(got)
    /\ buffer \in Seq(Messages) /\ wire \in Seq(Messages)
    /\ Len(wire) + Len(buffer) <= MaxQueue
    /\ peer \in [cmd : Commands, tag : Nat, inc : 1..MaxInc, ro : BOOLEAN,
                 lit : {"none", "invited", "whole", "part", "stored"}, stored : 0..1]

(* What is left of the authentication before and behind TLS. *)
Plaintext ==
    {<<"Greeting", "Capability", "StartTls", "Tls", "Capability", "Login", "Capability">>,
     <<"Capability", "StartTls", "Tls", "Capability", "Login", "Capability">>,
     <<"StartTls", "Tls", "Capability", "Login", "Capability">>,
     <<"Tls", "Capability", "Login", "Capability">>}
Encrypted ==
    {<<"Greeting", "Capability", "Login", "Capability">>,
     <<"Capability", "Login", "Capability">>, <<"Login", "Capability">>, <<"Capability">>}
(* What is left of an operation, before its selection and after. *)
Unselected == {ListScript, SearchScript, ReadScript, AttachmentsScript, InspectScript, <<"Logout">>}
Selected ==
    {<<"SearchText", "Projection", "Logout">>, <<"Search", "Projection", "Logout">>,
     <<"Projection", "Logout">>, <<"Body", "Body", "Logout">>, <<"Body", "Logout">>,
     <<"Logout">>}

Position ==
    /\ op = "connect" => pinned = 0
    /\ result = "ready" => op = "connect" /\ secure
    /\ result = "running" =>
        \/ op = "connect" /\ ~secure /\ todo \in Plaintext
        \/ op = "connect" /\ secure /\ todo \in Encrypted
        \/ op \notin {"connect", "draft"} /\ secure /\ pinned = 0 /\ todo \in Unselected
        \/ op \notin {"connect", "draft"} /\ secure /\ pinned # 0 /\ todo \in Selected
        \/ op = "draft" /\ secure /\ pinned = 0 /\ todo = DraftScript
        \/ op = "draft" /\ secure /\ pinned # 0 /\ todo = <<"Append">>

Channel ==
    /\ secure => \A i \in DOMAIN Coming : Coming[i].tls
    /\ secure => \A i \in DOMAIN got.rows : got.rows[i].tls
    /\ result = "running" /\ ~sent => got.rows = <<>> /\ got.validity = 0
    /\ result = "running" /\ Kind = "Tls" => buffer = <<>> /\ ~sent

LoginReady ==
    result = "running" /\ op = "connect" /\ Kind = "Login" =>
        secure /\ caps.tls /\ "LOGINDISABLED" \notin caps.names

Tags ==
    /\ result \in {"running", "ready"} => peer.tag = tag
    /\ result = "running" /\ sent /\ Kind # "Greeting" => tag # 0
    /\ \A i \in DOMAIN Coming : Coming[i].t = "done" => Coming[i].x <= tag
    /\ secure /\ tag # 0 => \A i \in DOMAIN Coming :
           Coming[i].t = "done" /\ Coming[i].x = tag => peer.cmd = "none"

IsRow(m) == m.t \in {"search", "fetch"} /\ m.x # 0
Ours(m) == m.ro /\ m.inc = pinned
Alarm(m) ==
    m.t = "ok" /\ (m.c = "READ-WRITE" \/ (m.c = "UIDVALIDITY" /\ m.x # pinned))

Unpinned ==
    /\ pinned \in {0, 1} /\ got.validity \in {0, 1}
    /\ pinned = 0 =>
        /\ peer.inc = 1 /\ peer.cmd \notin {"Search", "Projection", "Body", "Append"}
        /\ \A i \in DOMAIN Coming :
              LET m == Coming[i]
              IN  /\ ~IsRow(m)
                  /\ m.t = "ok" /\ m.c = "UIDVALIDITY" => m.x \in {0, 1}
                  /\ secure /\ tag # 0 /\ m.t = "done" /\ m.x = tag /\ m.c = "READ-ONLY" => peer.ro

Selection ==
    pinned # 0 =>
        /\ peer.cmd # "Examine"
        /\ result = "running" =>
            /\ ~(peer.ro /\ peer.inc = pinned) => \E j \in DOMAIN Coming : Alarm(Coming[j])
            /\ \A i \in DOMAIN Coming :
                  IsRow(Coming[i]) /\ ~Ours(Coming[i]) => \E j \in 1..(i - 1) : Alarm(Coming[j])

RowsOurs ==
    \A i \in DOMAIN got.rows : got.rows[i].t \in {"search", "fetch"} => Ours(got.rows[i])

Literal ==
    /\ outcome = "None" => peer.cmd # "Append" /\ peer.lit = "none"
    /\ peer.lit = "stored" <=> peer.stored = 1
    /\ op \in {"connect", "draft"} => peer.cmd # "Search"
    /\ op \in {"connect", "draft"} /\ outcome = "None" =>
           \A i \in DOMAIN Coming : Coming[i].t # "cont"

Appending ==
    /\ outcome \in {"None", "Unknown", "Created", "Rejected"}
    /\ result = "ready" => outcome = "None"
    /\ result = "running" =>
           \/ outcome = "None" /\ ~(Kind = "Append" /\ sent)
           \/ outcome = "Unknown" /\ Kind = "Append" /\ sent
    /\ outcome = "Unknown" /\ result = "running" =>
           /\ peer.cmd \in {"Append", "none"}
           /\ got.streamed => peer.lit # "none"
           /\ \A i \in DOMAIN Coming :
                 LET m == Coming[i]
                 IN  /\ m.t = "cont" => peer.lit # "none"
                     /\ m.t = "done" /\ m.x = tag /\ m.c = "NO" => peer.stored = 0
                     /\ m.t = "done" /\ m.x = tag /\ m.c \notin {"NO", "APPENDUID-BAD"} =>
                            peer.stored = 1 \/ peer.lit = "none"
    /\ outcome = "Rejected" => peer.stored = 0 /\ peer.cmd # "Append"
    /\ outcome = "Created" => peer.stored = 1

Budget == responses \in 0..MaxResponses /\ taken = responses

ClientInvariant ==
    /\ Shapes /\ Position /\ Channel /\ LoginReady /\ Tags /\ Unpinned /\ Selection
    /\ RowsOurs /\ Literal /\ Appending /\ Budget

-----------------------------------------------------------------------------
(* The commands that are left of a script, from its head on. *)
LEMMA ScriptsBeforeTls ==
    ASSUME NEW s \in Plaintext
    PROVE  /\ Head(s) \in {"Greeting", "Capability", "StartTls", "Tls"} /\ Len(s) > 1
           /\ Head(s) = "Tls" => Tail(s) \in Encrypted /\ Head(Tail(s)) = "Capability"
           /\ Head(s) # "Tls" => Tail(s) \in Plaintext
           /\ Head(Tail(s)) # "Login"
           /\ Head(Tail(s)) = "Tls" <=> Head(s) = "StartTls"
<1>1. CASE s = <<"Greeting", "Capability", "StartTls", "Tls", "Capability", "Login", "Capability">>
  <2>1. Tail(s) = <<"Capability", "StartTls", "Tls", "Capability", "Login", "Capability">>
    BY <1>1
  <2> QED BY <1>1, <2>1 DEF Plaintext
<1>2. CASE s = <<"Capability", "StartTls", "Tls", "Capability", "Login", "Capability">>
  <2>1. Tail(s) = <<"StartTls", "Tls", "Capability", "Login", "Capability">>
    BY <1>2
  <2> QED BY <1>2, <2>1 DEF Plaintext
<1>3. CASE s = <<"StartTls", "Tls", "Capability", "Login", "Capability">>
  <2>1. Tail(s) = <<"Tls", "Capability", "Login", "Capability">>
    BY <1>3
  <2> QED BY <1>3, <2>1 DEF Plaintext
<1>4. CASE s = <<"Tls", "Capability", "Login", "Capability">>
  <2>1. Tail(s) = <<"Capability", "Login", "Capability">>
    BY <1>4
  <2> QED BY <1>4, <2>1 DEF Encrypted
<1> QED BY <1>1, <1>2, <1>3, <1>4 DEF Plaintext

LEMMA ScriptsBehindTls ==
    ASSUME NEW s \in Encrypted
    PROVE  /\ Head(s) \in {"Greeting", "Capability", "Login"}
           /\ Len(s) = 1 \/ (Len(s) > 1 /\ Tail(s) \in Encrypted)
           /\ Len(s) > 1 => Head(Tail(s)) = s[2] /\ (s[2] = "Login" => Head(s) = "Capability")
<1>1. CASE s = <<"Greeting", "Capability", "Login", "Capability">>
  <2>1. Tail(s) = <<"Capability", "Login", "Capability">>
    BY <1>1
  <2> QED BY <1>1, <2>1 DEF Encrypted
<1>2. CASE s = <<"Capability", "Login", "Capability">>
  <2>1. Tail(s) = <<"Login", "Capability">>
    BY <1>2
  <2> QED BY <1>2, <2>1 DEF Encrypted
<1>3. CASE s = <<"Login", "Capability">>
  <2>1. Tail(s) = <<"Capability">>
    BY <1>3
  <2> QED BY <1>3, <2>1 DEF Encrypted
<1>4. CASE s = <<"Capability">>
  BY <1>4
<1> QED BY <1>1, <1>2, <1>3, <1>4 DEF Encrypted

LEMMA ScriptsUnselected ==
    ASSUME NEW s \in Unselected
    PROVE  /\ Head(s) \in {"List", "Examine", "Logout"}
           /\ Head(s) = "Examine" => Len(s) > 1 /\ Tail(s) \in Selected
           /\ Head(s) = "List" => Len(s) > 1 /\ Tail(s) \in Unselected
           /\ Head(s) = "Logout" => Len(s) = 1
<1>1. CASE s = ListScript
  <2>1. Tail(s) = <<"Logout">>
    BY <1>1 DEF ListScript
  <2> QED BY <1>1, <2>1 DEF ListScript, Unselected
<1>2. CASE s = SearchScript
  <2>1. Tail(s) = <<"SearchText", "Projection", "Logout">>
    BY <1>2 DEF SearchScript
  <2> QED BY <1>2, <2>1 DEF SearchScript, Selected
<1>3. CASE s = ReadScript
  <2>1. Tail(s) = <<"Body", "Body", "Logout">>
    BY <1>3 DEF ReadScript
  <2> QED BY <1>3, <2>1 DEF ReadScript, Selected
<1>4. CASE s = AttachmentsScript
  <2>1. Tail(s) = <<"Body", "Logout">>
    BY <1>4 DEF AttachmentsScript
  <2> QED BY <1>4, <2>1 DEF AttachmentsScript, Selected
<1>5. CASE s = InspectScript
  <2>1. Tail(s) = <<"Logout">>
    BY <1>5 DEF InspectScript
  <2> QED BY <1>5, <2>1 DEF InspectScript, Selected
<1>6. CASE s = <<"Logout">>
  BY <1>6
<1> QED BY <1>1, <1>2, <1>3, <1>4, <1>5, <1>6 DEF Unselected

LEMMA ScriptsSelected ==
    ASSUME NEW s \in Selected
    PROVE  /\ Head(s) \in {"SearchText", "Search", "Projection", "Body", "Logout"}
           /\ Head(s) = "SearchText" =>
                  LET t == [s EXCEPT ![1] = "Search"] IN t \in Selected /\ Head(t) = "Search"
           /\ Len(s) = 1 \/ (Len(s) > 1 /\ (Head(s) # "SearchText" => Tail(s) \in Selected))
<1>1. CASE s = <<"SearchText", "Projection", "Logout">>
  <2>1. [s EXCEPT ![1] = "Search"] = <<"Search", "Projection", "Logout">>
    BY <1>1
  <2> QED BY <1>1, <2>1 DEF Selected
<1>2. CASE s = <<"Search", "Projection", "Logout">>
  <2>1. Tail(s) = <<"Projection", "Logout">>
    BY <1>2
  <2> QED BY <1>2, <2>1 DEF Selected
<1>3. CASE s = <<"Projection", "Logout">>
  <2>1. Tail(s) = <<"Logout">>
    BY <1>3
  <2> QED BY <1>3, <2>1 DEF Selected
<1>4. CASE s = <<"Body", "Body", "Logout">>
  <2>1. Tail(s) = <<"Body", "Logout">>
    BY <1>4
  <2> QED BY <1>4, <2>1 DEF Selected
<1>5. CASE s = <<"Body", "Logout">>
  <2>1. Tail(s) = <<"Logout">>
    BY <1>5
  <2> QED BY <1>5, <2>1 DEF Selected
<1>6. CASE s = <<"Logout">>
  BY <1>6
<1> QED BY <1>1, <1>2, <1>3, <1>4, <1>5, <1>6 DEF Selected

LEMMA ScriptOfDraft ==
    /\ Head(DraftScript) = "Examine" /\ Len(DraftScript) > 1 /\ Tail(DraftScript) = <<"Append">>
    /\ Head(<<"Append">>) = "Append"
  BY DEF DraftScript

(* Every operation begins with a script of its own. *)
LEMMA ScriptsOfOperations ==
    ASSUME NEW o \in Ops
    PROVE  /\ o # "connect"
           /\ o = "draft" => Script[o] = DraftScript
           /\ o # "draft" => Script[o] \in Unselected
  BY ClientAssumption DEF Script, Unselected
-----------------------------------------------------------------------------
(* What is coming is what is buffered and, behind it, what is in flight. *)
LEMMA ComingIs ==
    ASSUME Shapes
    PROVE  /\ Coming \in Seq(Messages)
           /\ Len(Coming) = Len(buffer) + Len(wire) /\ Len(Coming) \in Nat
           /\ DOMAIN Coming = 1..Len(Coming)
           /\ \A i \in DOMAIN buffer : i \in DOMAIN Coming /\ Coming[i] = buffer[i]
           /\ \A i \in DOMAIN wire :
                  Len(buffer) + i \in DOMAIN Coming /\ Coming[Len(buffer) + i] = wire[i]
           /\ \A i \in DOMAIN Coming : Coming[i] \in Messages
<1>1. buffer \in Seq(Messages) /\ wire \in Seq(Messages)
  BY DEF Shapes
<1>2. Len(buffer) \in Nat /\ Len(wire) \in Nat
      /\ DOMAIN buffer = 1..Len(buffer) /\ DOMAIN wire = 1..Len(wire)
  BY <1>1, LenProperties
<1>3. /\ Coming \in Seq(Messages) /\ Len(Coming) = Len(buffer) + Len(wire)
      /\ \A i \in 1..Len(buffer) + Len(wire) :
             Coming[i] = IF i <= Len(buffer) THEN buffer[i] ELSE wire[i - Len(buffer)]
  BY <1>1, ConcatProperties DEF Coming
<1>4. DOMAIN Coming = 1..Len(Coming) /\ \A i \in DOMAIN Coming : Coming[i] \in Messages
  BY <1>3, LenProperties, ElementOfSeq
<1>5. \A i \in DOMAIN buffer : i \in DOMAIN Coming /\ Coming[i] = buffer[i]
  BY <1>2, <1>3, <1>4
<1>6. \A i \in DOMAIN wire : Len(buffer) + i \in DOMAIN Coming /\ Coming[Len(buffer) + i] = wire[i]
  BY <1>2, <1>3, <1>4
<1> QED BY <1>2, <1>3, <1>4, <1>5, <1>6

(* A response that is sent comes last. *)
LEMMA ComingGrows ==
    ASSUME Shapes, NEW m \in Messages, Send(m), UNCHANGED buffer
    PROVE  /\ wire' \in Seq(Messages) /\ Len(wire') = Len(wire) + 1
           /\ Len(Coming) \in Nat /\ DOMAIN Coming = 1..Len(Coming)
           /\ DOMAIN Coming' = 1..Len(Coming) + 1
           /\ \A i \in DOMAIN Coming : Coming'[i] = Coming[i]
           /\ Coming'[Len(Coming) + 1] = m
<1>1. buffer \in Seq(Messages) /\ wire \in Seq(Messages)
  BY DEF Shapes
<1>2. Len(buffer) \in Nat /\ Len(wire) \in Nat
      /\ DOMAIN buffer = 1..Len(buffer) /\ DOMAIN wire = 1..Len(wire)
  BY <1>1, LenProperties
<1>3. /\ wire' \in Seq(Messages) /\ Len(wire') = Len(wire) + 1
      /\ \A i \in 1..Len(wire) : wire'[i] = wire[i]
      /\ wire'[Len(wire) + 1] = m
  BY <1>1, <1>2, AppendProperties DEF Send
<1>4. /\ Coming' \in Seq(Messages) /\ Len(Coming') = Len(buffer) + Len(wire')
      /\ \A i \in 1..Len(buffer) + Len(wire') :
             Coming'[i] = IF i <= Len(buffer) THEN buffer[i] ELSE wire'[i - Len(buffer)]
  <2>1. /\ buffer \o wire' \in Seq(Messages) /\ Len(buffer \o wire') = Len(buffer) + Len(wire')
        /\ \A i \in 1..Len(buffer) + Len(wire') :
               (buffer \o wire')[i] = IF i <= Len(buffer) THEN buffer[i] ELSE wire'[i - Len(buffer)]
    BY <1>1, <1>3, ConcatProperties
  <2>2. Coming' = buffer \o wire'
    BY DEF Coming
  <2> QED BY <2>1, <2>2
<1>5. DOMAIN Coming' = 1..Len(Coming')
  BY <1>4, LenProperties
<1>6. /\ Coming \in Seq(Messages) /\ Len(Coming) = Len(buffer) + Len(wire)
      /\ \A i \in 1..Len(buffer) + Len(wire) :
             Coming[i] = IF i <= Len(buffer) THEN buffer[i] ELSE wire[i - Len(buffer)]
  BY <1>1, ConcatProperties DEF Coming
<1>7. DOMAIN Coming = 1..Len(Coming)
  BY <1>6, LenProperties
<1>8. Len(Coming') = Len(Coming) + 1
  BY <1>2, <1>3, <1>4, <1>6
<1>9. \A i \in DOMAIN Coming : Coming'[i] = Coming[i]
  <2> SUFFICES ASSUME NEW i \in 1..Len(buffer) + Len(wire) PROVE Coming'[i] = Coming[i]
    BY <1>6, <1>7
  <2>1. i \in 1..Len(buffer) + Len(wire')
    BY <1>2, <1>3
  <2>2. CASE i <= Len(buffer)
    BY <1>4, <1>6, <2>1, <2>2
  <2>3. CASE ~(i <= Len(buffer))
    <3>1. i - Len(buffer) \in 1..Len(wire)
      BY <1>2, <2>3
    <3>2. Coming'[i] = wire'[i - Len(buffer)] /\ Coming[i] = wire[i - Len(buffer)]
      BY <1>4, <1>6, <2>1, <2>3
    <3> QED BY <1>3, <3>1, <3>2
  <2> QED BY <2>2, <2>3
<1>10. Coming'[Len(Coming) + 1] = m
  BY <1>2, <1>3, <1>4, <1>6
<1> QED BY <1>2, <1>3, <1>5, <1>6, <1>7, <1>8, <1>9, <1>10

(* Filling the buffer changes nothing of what is coming. *)
LEMMA ComingFills ==
    ASSUME Shapes, Fill
    PROVE  /\ Coming' = Coming /\ buffer' \in Seq(Messages) /\ wire' \in Seq(Messages)
           /\ Len(wire') + Len(buffer') = Len(wire) + Len(buffer)
<1>1. buffer = <<>> /\ wire \in Seq(Messages)
  BY DEF Shapes, Fill
<1>2. PICK n \in 1..Len(wire) :
          buffer' = SubSeq(wire, 1, n) /\ wire' = SubSeq(wire, n + 1, Len(wire))
  BY DEF Fill
<1>3. Len(wire) \in Nat /\ n \in Nat /\ n <= Len(wire) /\ 1 <= n
  BY <1>1, LenProperties
<1>4. /\ buffer' \in Seq(Messages) /\ Len(buffer') = n
      /\ \A i \in 1..n : buffer'[i] = wire[i]
  BY <1>1, <1>2, <1>3, SubSeqProperties
<1>5. /\ wire' \in Seq(Messages) /\ Len(wire') = Len(wire) - n
      /\ \A i \in 1..(Len(wire) - n) : wire'[i] = wire[n + i]
  BY <1>1, <1>2, <1>3, SubSeqProperties
<1>6. Coming = wire
  BY <1>1, ConcatEmptySeq DEF Coming
<1>7. /\ Coming' \in Seq(Messages) /\ Len(Coming') = Len(wire)
      /\ \A i \in 1..Len(wire) : Coming'[i] = IF i <= n THEN buffer'[i] ELSE wire'[i - n]
  <2>1. /\ buffer' \o wire' \in Seq(Messages) /\ Len(buffer' \o wire') = n + (Len(wire) - n)
        /\ \A i \in 1..n + (Len(wire) - n) :
               (buffer' \o wire')[i] = IF i <= n THEN buffer'[i] ELSE wire'[i - n]
    BY <1>4, <1>5, ConcatProperties
  <2>2. Coming' = buffer' \o wire' /\ n + (Len(wire) - n) = Len(wire)
    BY <1>3 DEF Coming
  <2> QED BY <2>1, <2>2
<1>8. \A i \in 1..Len(wire) : Coming'[i] = wire[i]
  <2> SUFFICES ASSUME NEW i \in 1..Len(wire) PROVE Coming'[i] = wire[i]
    OBVIOUS
  <2>1. CASE i <= n
    BY <1>4, <1>7, <2>1
  <2>2. CASE ~(i <= n)
    <3>1. i - n \in 1..(Len(wire) - n) /\ n + (i - n) = i
      BY <1>3, <2>2
    <3>2. wire'[i - n] = wire[n + (i - n)]
      BY <1>5, <3>1
    <3> QED BY <1>7, <2>2, <3>1, <3>2
  <2> QED BY <2>1, <2>2
<1>9. Coming' = wire
  BY <1>1, <1>7, <1>8, SeqEqual
<1>10. Len(wire') + Len(buffer') = Len(wire) + Len(buffer)
  BY <1>1, <1>3, <1>4, <1>5
<1> QED BY <1>4, <1>5, <1>6, <1>9, <1>10

(* Reading takes the first. *)
LEMMA ComingShifts ==
    ASSUME Shapes, buffer # <<>>, buffer' = Tail(buffer), UNCHANGED wire
    PROVE  /\ buffer' \in Seq(Messages) /\ Len(buffer') = Len(buffer) - 1
           /\ Len(buffer) \in Nat \ {0} /\ Head(buffer) \in Messages
           /\ 1 \in DOMAIN Coming /\ Coming[1] = Head(buffer)
           /\ Len(Coming) \in Nat \ {0} /\ DOMAIN Coming = 1..Len(Coming)
           /\ DOMAIN Coming' = 1..(Len(Coming) - 1)
           /\ \A i \in DOMAIN Coming' : i + 1 \in DOMAIN Coming /\ Coming'[i] = Coming[i + 1]
<1>1. buffer \in Seq(Messages) /\ wire \in Seq(Messages)
  BY DEF Shapes
<1>2. Len(buffer) \in Nat \ {0} /\ Len(wire) \in Nat /\ DOMAIN buffer = 1..Len(buffer)
  BY <1>1, LenProperties, EmptySeq
<1>3. /\ buffer' \in Seq(Messages) /\ Len(buffer') = Len(buffer) - 1
      /\ Head(buffer) \in Messages /\ Head(buffer) = buffer[1]
      /\ \A i \in 1..(Len(buffer) - 1) : buffer'[i] = buffer[i + 1]
  <2>1. Head(buffer) = buffer[1]
    BY <1>1
  <2> QED BY <1>1, <2>1, HeadTailProperties
<1>4. /\ Coming' \in Seq(Messages) /\ Len(Coming') = Len(buffer') + Len(wire)
      /\ \A i \in 1..Len(buffer') + Len(wire) :
             Coming'[i] = IF i <= Len(buffer') THEN buffer'[i] ELSE wire[i - Len(buffer')]
  <2>1. /\ buffer' \o wire \in Seq(Messages) /\ Len(buffer' \o wire) = Len(buffer') + Len(wire)
        /\ \A i \in 1..Len(buffer') + Len(wire) :
               (buffer' \o wire)[i] = IF i <= Len(buffer') THEN buffer'[i] ELSE wire[i - Len(buffer')]
    BY <1>1, <1>3, ConcatProperties
  <2>2. Coming' = buffer' \o wire
    BY DEF Coming
  <2> QED BY <2>1, <2>2
<1>5. DOMAIN Coming' = 1..Len(Coming')
  BY <1>4, LenProperties
<1>6. /\ Coming \in Seq(Messages) /\ Len(Coming) = Len(buffer) + Len(wire)
      /\ \A i \in 1..Len(buffer) + Len(wire) :
             Coming[i] = IF i <= Len(buffer) THEN buffer[i] ELSE wire[i - Len(buffer)]
  BY <1>1, ConcatProperties DEF Coming
<1>7. DOMAIN Coming = 1..Len(Coming)
  BY <1>6, LenProperties
<1>8. Len(Coming) \in Nat \ {0} /\ Len(Coming') = Len(Coming) - 1
  BY <1>2, <1>3, <1>4, <1>6
<1>9. 1 \in DOMAIN Coming /\ Coming[1] = Head(buffer)
  BY <1>2, <1>3, <1>6, <1>7
<1>10. \A i \in 1..(Len(Coming) - 1) : i + 1 \in 1..Len(Coming) /\ Coming'[i] = Coming[i + 1]
  <2> SUFFICES ASSUME NEW i \in 1..(Len(Coming) - 1)
               PROVE  i + 1 \in 1..Len(Coming) /\ Coming'[i] = Coming[i + 1]
    OBVIOUS
  <2>1. i \in 1..Len(buffer') + Len(wire) /\ i + 1 \in 1..Len(buffer) + Len(wire)
    BY <1>2, <1>3, <1>6
  <2>2. CASE i <= Len(buffer')
    <3>1. Coming'[i] = buffer'[i] /\ buffer'[i] = buffer[i + 1] /\ Coming[i + 1] = buffer[i + 1]
      BY <1>2, <1>3, <1>4, <1>6, <2>1, <2>2
    <3> QED BY <1>6, <2>1, <3>1
  <2>3. CASE ~(i <= Len(buffer'))
    <3>1. Coming'[i] = wire[i - Len(buffer')] /\ Coming[i + 1] = wire[i + 1 - Len(buffer)]
      BY <1>2, <1>3, <1>4, <1>6, <2>1, <2>3
    <3>2. i - Len(buffer') = i + 1 - Len(buffer)
      BY <1>2, <1>3, <2>1
    <3> QED BY <1>6, <2>1, <3>1, <3>2
  <2> QED BY <2>2, <2>3
<1> QED BY <1>2, <1>3, <1>5, <1>6, <1>7, <1>8, <1>9, <1>10
-----------------------------------------------------------------------------
(* The client's steps that read nothing. *)
LEMMA FillKeeps ==
    ASSUME ClientInvariant, Fill
    PROVE  ClientInvariant'
<1> USE DEF ClientInvariant
<1>1. /\ Coming' = Coming /\ buffer' \in Seq(Messages) /\ wire' \in Seq(Messages)
      /\ Len(wire') + Len(buffer') = Len(wire) + Len(buffer)
  BY ComingFills
<1>2. /\ UNCHANGED <<mode, op, todo, sent, secure, caps, tag, pinned, got, responses, taken,
                     outcome, result, peer>>
      /\ result = "running" /\ sent
  BY DEF Fill
<1>3. Shapes'
  BY <1>1, <1>2 DEF Shapes
<1>4. Position' /\ LoginReady' /\ RowsOurs' /\ Budget'
  BY <1>2 DEF Position, LoginReady, Kind, RowsOurs, Ours, Budget
<1>5. Channel'
  BY <1>1, <1>2 DEF Channel, Kind
<1>6. Tags'
  BY <1>1, <1>2 DEF Tags, Kind
<1>7. Unpinned' /\ Selection'
  BY <1>1, <1>2 DEF Unpinned, Selection, IsRow, Ours, Alarm
<1>8. Literal' /\ Appending'
  BY <1>1, <1>2 DEF Literal, Appending, Kind
<1> QED BY <1>3, <1>4, <1>5, <1>6, <1>7, <1>8

LEMMA CutKeeps ==
    ASSUME ClientInvariant, Cut
    PROVE  ClientInvariant'
<1> USE DEF ClientInvariant
<1>1. /\ UNCHANGED <<mode, op, todo, sent, secure, caps, tag, pinned, got, responses, taken,
                     buffer, wire, outcome, peer>>
      /\ result' = "Cut" /\ Coming' = Coming
  BY DEF Cut, Coming
<1>2. Shapes' /\ Position' /\ LoginReady' /\ RowsOurs' /\ Budget'
  BY <1>1 DEF Shapes, Position, LoginReady, Kind, RowsOurs, Ours, Budget
<1>3. Channel' /\ Tags'
  BY <1>1 DEF Channel, Tags, Kind
<1>4. Unpinned' /\ Selection'
  BY <1>1 DEF Unpinned, Selection, IsRow, Ours, Alarm
<1>5. Literal' /\ Appending'
  BY <1>1 DEF Literal, Appending, Kind
<1> QED BY <1>2, <1>3, <1>4, <1>5

LEMMA NothingIsLocal ==
    /\ NothingGot.rows = <<>> /\ ~NothingGot.streamed /\ NothingGot.validity = 0
    /\ Locals(NothingGot) /\ DOMAIN NothingGot.rows = {}
<1>1. <<>> \in Seq(Messages) /\ Len(<<>>) = 0 /\ DOMAIN <<>> = 1..0
  BY EmptySeq, LenProperties
<1>2. 1..0 = {}
  OBVIOUS
<1> QED BY <1>1, <1>2 DEF NothingGot, Locals

(* The commands that may be written where the script stands. *)
LEMMA WhatIsWritten ==
    ASSUME ClientInvariant, result = "running"
    PROVE  /\ Kind \in {"Greeting", "Capability", "StartTls", "Tls", "Login", "List", "Examine",
                        "SearchText", "Search", "Projection", "Body", "Append", "Logout"}
           /\ pinned = 0 => Kind \notin {"SearchText", "Search", "Projection", "Body", "Append"}
           /\ pinned # 0 => Kind # "Examine"
           /\ op \in {"connect", "draft"} => Kind \notin {"SearchText", "Search"}
           /\ Kind = "Append" => op = "draft" /\ pinned # 0 /\ secure
           /\ ~secure => op = "connect" /\ todo \in Plaintext
           /\ Kind = "Tls" => ~secure
<1>1. CASE op = "connect" /\ ~secure /\ todo \in Plaintext
  BY <1>1, ScriptsBeforeTls DEF ClientInvariant, Position, Kind
<1>2. CASE op = "connect" /\ secure /\ todo \in Encrypted
  BY <1>2, ScriptsBehindTls DEF ClientInvariant, Position, Kind
<1>3. CASE op \notin {"connect", "draft"} /\ secure /\ pinned = 0 /\ todo \in Unselected
  BY <1>3, ScriptsUnselected DEF Kind
<1>4. CASE op \notin {"connect", "draft"} /\ secure /\ pinned # 0 /\ todo \in Selected
  BY <1>4, ScriptsSelected DEF Kind
<1>5. CASE op = "draft" /\ secure /\ pinned = 0 /\ todo = DraftScript
  BY <1>5, ScriptOfDraft DEF Kind
<1>6. CASE op = "draft" /\ secure /\ pinned # 0 /\ todo = <<"Append">>
  BY <1>6, ScriptOfDraft DEF Kind
<1> QED BY <1>1, <1>2, <1>3, <1>4, <1>5, <1>6 DEF ClientInvariant, Position

LEMMA WriteCommandKeeps ==
    ASSUME ClientInvariant, WriteCommand
    PROVE  ClientInvariant'
<1> USE DEF ClientInvariant
<1>1. /\ UNCHANGED <<mode, op, todo, secure, caps, pinned, responses, taken, buffer, wire,
                     outcome, result>>
      /\ result = "running" /\ ~sent /\ Kind \notin {"Tls", "Append"}
      /\ tag' = tag + 1 /\ sent' = TRUE /\ got' = NothingGot
      /\ peer' = [peer EXCEPT !.cmd = IF Kind = "SearchText" THEN "Search" ELSE Kind,
                              !.tag = tag + 1]
      /\ Coming' = Coming /\ Kind' = Kind
  BY DEF WriteCommand, Coming, Kind
<1>2. tag \in Nat /\ tag + 1 \in Nat /\ tag + 1 # 0 /\ tag + 1 > tag
  BY DEF Shapes
<1>3. /\ got'.rows = <<>> /\ ~got'.streamed /\ got'.validity = 0
      /\ Locals(got') /\ DOMAIN got'.rows = {}
  BY <1>1, NothingIsLocal
<1>4. /\ peer'.cmd = (IF Kind = "SearchText" THEN "Search" ELSE Kind) /\ peer'.tag = tag + 1
      /\ peer'.inc = peer.inc /\ peer'.ro = peer.ro /\ peer'.lit = peer.lit
      /\ peer'.stored = peer.stored /\ peer'.cmd \in Commands
  BY <1>1, WhatIsWritten DEF Shapes, Commands
<1>5. Shapes'
  <2>1. peer' \in [cmd : Commands, tag : Nat, inc : 1..MaxInc, ro : BOOLEAN,
                   lit : {"none", "invited", "whole", "part", "stored"}, stored : 0..1]
    BY <1>1, <1>2, <1>4 DEF Shapes
  <2> QED BY <1>1, <1>2, <1>3, <2>1 DEF Shapes
<1>6. Position' /\ LoginReady' /\ RowsOurs' /\ Budget'
  BY <1>1, <1>3 DEF Position, LoginReady, RowsOurs, Budget
<1>7. Channel'
  BY <1>1, <1>3 DEF Channel
<1>8. \A i \in DOMAIN Coming : Coming[i] \in Messages
  BY ComingIs
<1>9. Tags'
  <2>1. \A i \in DOMAIN Coming : Coming[i].t = "done" => Coming[i].x < tag + 1
    <3> SUFFICES ASSUME NEW i \in DOMAIN Coming, Coming[i].t = "done"
                 PROVE  Coming[i].x < tag + 1
      OBVIOUS
    <3>1. Coming[i].x \in Nat /\ Coming[i].x <= tag
      BY <1>8 DEF Messages, Tags
    <3> QED BY <1>2, <3>1
  <2>2. \A i \in DOMAIN Coming : Coming[i].t = "done" => Coming[i].x # tag + 1 /\ Coming[i].x <= tag + 1
    <3> SUFFICES ASSUME NEW i \in DOMAIN Coming, Coming[i].t = "done"
                 PROVE  Coming[i].x # tag + 1 /\ Coming[i].x <= tag + 1
      OBVIOUS
    <3>1. Coming[i].x \in Nat /\ Coming[i].x < tag + 1
      BY <1>8, <2>1 DEF Messages
    <3> QED BY <1>2, <3>1
  <2> QED BY <1>1, <1>2, <1>4, <2>2 DEF Tags
<1>10. \A i \in DOMAIN Coming : ~(Coming[i].t = "done" /\ Coming[i].x = tag + 1)
  <2> SUFFICES ASSUME NEW i \in DOMAIN Coming, Coming[i].t = "done", Coming[i].x = tag + 1
               PROVE  FALSE
    OBVIOUS
  <2>1. Coming[i].x <= tag
    BY DEF Tags
  <2> QED BY <1>2, <2>1
<1>11. Unpinned'
  BY <1>1, <1>3, <1>4, <1>10, WhatIsWritten DEF Unpinned, IsRow
<1>12. Selection'
  BY <1>1, <1>4, WhatIsWritten DEF Selection, IsRow, Ours, Alarm
<1>13. Literal'
  BY <1>1, <1>4, WhatIsWritten DEF Literal
<1>14. Appending'
  BY <1>1, <1>3, <1>4, <1>10 DEF Appending
<1> QED BY <1>5, <1>6, <1>7, <1>9, <1>11, <1>12, <1>13, <1>14

(* The bytes of an APPEND are on their way once outcome is Unknown. *)
LEMMA WriteAppendKeeps ==
    ASSUME ClientInvariant, WriteAppend
    PROVE  ClientInvariant'
<1> USE DEF ClientInvariant
<1>1. /\ UNCHANGED <<mode, op, todo, secure, caps, pinned, responses, taken, buffer, wire>>
      /\ result = "running" /\ ~sent /\ Kind = "Append"
      /\ tag' = tag + 1 /\ got' = NothingGot /\ outcome' = "Unknown"
      /\ Coming' = Coming /\ Kind' = Kind
  BY DEF WriteAppend, AppendOutcomeBefore, Coming, Kind
<1>2. tag \in Nat /\ tag + 1 \in Nat /\ tag + 1 # 0
  BY DEF Shapes
<1>3. /\ got'.rows = <<>> /\ ~got'.streamed /\ got'.validity = 0
      /\ Locals(got') /\ DOMAIN got'.rows = {}
  BY <1>1, NothingIsLocal
<1>4. op = "draft" /\ pinned # 0 /\ outcome = "None" /\ peer.cmd # "Append" /\ peer.lit = "none"
      /\ peer.stored # 1
  BY <1>1, WhatIsWritten DEF Appending, Literal
<1>5. \A i \in DOMAIN Coming : Coming[i] \in Messages
  BY ComingIs
<1>6. \A i \in DOMAIN Coming : Coming[i].t = "done" => Coming[i].x # tag + 1 /\ Coming[i].x <= tag + 1
  <2> SUFFICES ASSUME NEW i \in DOMAIN Coming, Coming[i].t = "done"
               PROVE  Coming[i].x # tag + 1 /\ Coming[i].x <= tag + 1
    OBVIOUS
  <2>1. Coming[i].x \in Nat /\ Coming[i].x <= tag
    BY <1>5 DEF Messages, Tags
  <2> QED BY <1>2, <2>1
<1>7. CASE sent' = TRUE /\ UNCHANGED result
           /\ peer' = [peer EXCEPT !.cmd = "Append", !.tag = tag + 1, !.lit = "none"]
  <2>1. /\ peer'.cmd = "Append" /\ peer'.tag = tag + 1 /\ peer'.inc = peer.inc
        /\ peer'.ro = peer.ro /\ peer'.lit = "none" /\ peer'.stored = peer.stored
    BY <1>7 DEF Shapes
  <2>2. Shapes'
    <3>1. peer' \in [cmd : Commands, tag : Nat, inc : 1..MaxInc, ro : BOOLEAN,
                     lit : {"none", "invited", "whole", "part", "stored"}, stored : 0..1]
      BY <1>2, <1>7 DEF Shapes, Commands
    <3> QED BY <1>1, <1>2, <1>3, <1>7, <3>1 DEF Shapes
  <2>3. Position' /\ LoginReady' /\ RowsOurs' /\ Budget' /\ Channel'
    BY <1>1, <1>3, <1>4, <1>7 DEF Position, LoginReady, RowsOurs, Budget, Channel
  <2>4. Tags'
    BY <1>1, <1>2, <1>6, <1>7, <2>1 DEF Tags
  <2>5. Unpinned' /\ Selection'
    BY <1>1, <1>3, <1>4, <1>7, <2>1 DEF Unpinned, Selection, IsRow, Ours, Alarm
  <2>6. Literal'
    BY <1>1, <1>4, <2>1 DEF Literal
  <2>7. Appending'
    BY <1>1, <1>3, <1>4, <1>6, <1>7, <2>1 DEF Appending, Literal
  <2> QED BY <2>2, <2>3, <2>4, <2>5, <2>6, <2>7
<1>8. CASE sent' = FALSE /\ result' = "Limit" /\ UNCHANGED peer
  <2>1. Shapes'
    BY <1>1, <1>2, <1>3, <1>8 DEF Shapes
  <2>2. Position' /\ LoginReady' /\ RowsOurs' /\ Budget' /\ Channel'
    BY <1>1, <1>3, <1>4, <1>8 DEF Position, LoginReady, RowsOurs, Budget, Channel
  <2>3. Tags'
    BY <1>1, <1>2, <1>6, <1>8 DEF Tags
  <2>4. Unpinned' /\ Selection'
    BY <1>1, <1>3, <1>4, <1>8 DEF Unpinned, Selection
  <2>5. Literal' /\ Appending'
    BY <1>1, <1>4, <1>8 DEF Literal, Appending
  <2> QED BY <2>1, <2>2, <2>3, <2>4, <2>5
<1> QED BY <1>7, <1>8 DEF WriteAppend

LEMMA StreamKeeps ==
    ASSUME ClientInvariant, Stream
    PROVE  ClientInvariant'
<1> USE DEF ClientInvariant
<1>1. /\ UNCHANGED <<mode, op, todo, sent, secure, caps, tag, pinned, got, responses, taken,
                     buffer, wire, outcome>>
      /\ result = "running" /\ Kind = "Append" /\ sent /\ got.streamed
      /\ peer.cmd = "Append" /\ peer.lit = "invited"
      /\ Coming' = Coming /\ Kind' = Kind
      /\ \/ peer' = [peer EXCEPT !.lit = "whole"] /\ UNCHANGED result
         \/ peer' = [peer EXCEPT !.lit = "part"] /\ result' = "Limit"
  BY DEF Stream, Coming, Kind
<1>2. /\ peer'.cmd = peer.cmd /\ peer'.tag = peer.tag /\ peer'.inc = peer.inc
      /\ peer'.ro = peer.ro /\ peer'.stored = peer.stored
      /\ peer'.lit \in {"whole", "part"}
      /\ result' \in {"running", "Limit"} /\ (result' = "running" => UNCHANGED result)
  BY <1>1 DEF Shapes
<1>3. Shapes'
  <2>1. peer' \in [cmd : Commands, tag : Nat, inc : 1..MaxInc, ro : BOOLEAN,
                   lit : {"none", "invited", "whole", "part", "stored"}, stored : 0..1]
    BY <1>1 DEF Shapes
  <2> QED BY <1>1, <2>1 DEF Shapes
<1>4. op = "draft" /\ pinned # 0 /\ secure /\ outcome = "Unknown" /\ tag # 0
  BY <1>1, WhatIsWritten DEF Appending, Tags
<1>5. Position' /\ LoginReady' /\ RowsOurs' /\ Budget'
  BY <1>1, <1>2, <1>4 DEF Position, LoginReady, RowsOurs, Ours, Budget
<1>6. Channel' /\ Tags'
  BY <1>1, <1>2 DEF Channel, Tags
<1>7. Unpinned' /\ Selection'
  BY <1>1, <1>2, <1>4 DEF Unpinned, Selection, IsRow, Ours, Alarm
<1>8. Literal'
  BY <1>1, <1>2, <1>4 DEF Literal
<1>9. \A i \in DOMAIN Coming : ~(Coming[i].t = "done" /\ Coming[i].x = tag)
  BY <1>1, <1>4 DEF Tags
<1>10. Appending'
  BY <1>1, <1>2, <1>4, <1>9 DEF Appending
<1> QED BY <1>3, <1>5, <1>6, <1>7, <1>8, <1>10

(* TLS starts with nothing read before it. *)
LEMMA HandshakeKeeps ==
    ASSUME ClientInvariant, Handshake
    PROVE  ClientInvariant'
<1> USE DEF ClientInvariant
<1>1. /\ UNCHANGED <<mode, op, sent, caps, tag, pinned, got, taken, wire, outcome>>
      /\ result = "running" /\ ~sent /\ Kind = "Tls" /\ buffer = <<>>
  BY DEF Handshake, Channel
<1>2. ~secure /\ op = "connect" /\ todo \in Plaintext /\ pinned = 0 /\ outcome = "None"
  BY <1>1, WhatIsWritten DEF Position, Appending
<1>3. CASE /\ wire = <<>> /\ secure' = TRUE /\ todo' = Tail(todo) /\ responses' = responses
           /\ peer' = [peer EXCEPT !.cmd = "none"] /\ UNCHANGED <<result, buffer>>
  <2>1. Coming' = <<>> /\ DOMAIN Coming' = {}
    <3>1. <<>> \in Seq(Messages) /\ Len(<<>>) = 0 /\ DOMAIN <<>> = 1..0
      BY EmptySeq, LenProperties
    <3>2. Coming' = <<>>
      BY <1>1, <1>3, <3>1, ConcatEmptySeq DEF Coming
    <3>3. 1..0 = {}
      OBVIOUS
    <3> QED BY <3>1, <3>2, <3>3
  <2>2. todo' \in Encrypted /\ Kind' = "Capability"
    BY <1>1, <1>2, <1>3, ScriptsBeforeTls DEF Kind
  <2>3. /\ peer'.cmd = "none" /\ peer'.tag = peer.tag /\ peer'.inc = peer.inc
        /\ peer'.ro = peer.ro /\ peer'.stored = peer.stored /\ peer'.lit = peer.lit
    BY <1>3 DEF Shapes
  <2>4. Shapes'
    <3>1. peer' \in [cmd : Commands, tag : Nat, inc : 1..MaxInc, ro : BOOLEAN,
                     lit : {"none", "invited", "whole", "part", "stored"}, stored : 0..1]
      BY <1>3 DEF Shapes, Commands
    <3> QED BY <1>1, <1>3, <3>1 DEF Shapes
  <2>5. Position' /\ LoginReady' /\ RowsOurs' /\ Budget'
    BY <1>1, <1>2, <1>3, <2>2 DEF Position, LoginReady, RowsOurs, Ours, Budget
  <2>6. Channel'
    <3>1. got.rows = <<>> /\ got.validity = 0 /\ DOMAIN got.rows = {}
      BY <1>1, NothingIsLocal DEF Channel, NothingGot
    <3> QED BY <1>1, <1>3, <2>1, <2>2, <3>1 DEF Channel
  <2>7. Tags'
    BY <1>1, <1>3, <2>1, <2>3 DEF Tags
  <2>8. Unpinned' /\ Selection'
    BY <1>1, <1>2, <2>1, <2>3 DEF Unpinned, Selection
  <2>9. Literal' /\ Appending'
    BY <1>1, <1>2, <1>3, <2>1, <2>2, <2>3 DEF Literal, Appending
  <2> QED BY <2>4, <2>5, <2>6, <2>7, <2>8, <2>9
<1>4. CASE result' = "Tls" /\ UNCHANGED <<secure, todo, responses, peer, buffer>>
  <2>1. Coming' = Coming
    BY <1>1, <1>4 DEF Coming
  <2>2. Shapes' /\ Position' /\ LoginReady' /\ RowsOurs' /\ Budget'
    BY <1>1, <1>4 DEF Shapes, Position, LoginReady, RowsOurs, Ours, Budget
  <2>3. Channel' /\ Tags'
    BY <1>1, <1>4, <2>1 DEF Channel, Tags
  <2>4. Unpinned' /\ Selection'
    BY <1>1, <1>4, <2>1 DEF Unpinned, Selection, IsRow, Ours, Alarm
  <2>5. Literal' /\ Appending'
    BY <1>1, <1>2, <1>4, <2>1 DEF Literal, Appending
  <2> QED BY <2>2, <2>3, <2>4, <2>5
<1> QED BY <1>3, <1>4 DEF Handshake, CarriedMetrics

LEMMA BeginKeeps ==
    ASSUME ClientInvariant, Begin
    PROVE  ClientInvariant'
<1> USE DEF ClientInvariant
<1>1. /\ UNCHANGED <<mode, secure, caps, tag, pinned, buffer, wire, peer>>
      /\ result = "ready" /\ result' = "running" /\ sent' = FALSE /\ got' = NothingGot
      /\ responses' = 0 /\ taken' = 0 /\ outcome' = "None" /\ Coming' = Coming
  BY DEF Begin, Coming
<1>2. PICK o \in Ops : op' = o /\ todo' = Script[o]
  BY DEF Begin
<1>3. op = "connect" /\ secure /\ pinned = 0 /\ outcome = "None"
  BY <1>1 DEF Position, Appending
<1>4. /\ op' # "connect"
      /\ op' = "draft" => todo' = DraftScript
      /\ op' # "draft" => todo' \in Unselected
  BY <1>2, ScriptsOfOperations
<1>5. Kind' \in {"List", "Examine", "Logout"}
  BY <1>4, ScriptsUnselected, ScriptOfDraft DEF Kind
<1>6. Shapes'
  BY <1>1, <1>2, NothingIsLocal DEF Shapes
<1>7. Position' /\ LoginReady' /\ Budget'
  BY <1>1, <1>3, <1>4, ClientAssumption DEF Position, LoginReady, Budget
<1>8. RowsOurs' /\ Channel' /\ Tags'
  BY <1>1, <1>5, NothingIsLocal DEF RowsOurs, Channel, Tags
<1>9. Unpinned' /\ Selection'
  BY <1>1, <1>3, NothingIsLocal DEF Unpinned, Selection, IsRow
<1>10. Literal' /\ Appending'
  BY <1>1, <1>3, <1>5 DEF Literal, Appending
<1> QED BY <1>6, <1>7, <1>8, <1>9, <1>10

LEMMA StoreKeeps ==
    ASSUME ClientInvariant, Store
    PROVE  ClientInvariant'
<1> USE DEF ClientInvariant
<1>1. /\ UNCHANGED <<mode, op, todo, sent, secure, caps, tag, pinned, got, responses, taken,
                     buffer, wire, outcome, result>>
      /\ peer.cmd = "Append" /\ peer.lit = "whole"
      /\ peer' = [peer EXCEPT !.lit = "stored", !.stored = @ + 1]
      /\ Coming' = Coming /\ Kind' = Kind
  BY DEF Store, Client, Coming, Kind
<1>2. peer.stored = 0
  BY <1>1 DEF Literal, Shapes
<1>3. /\ peer'.cmd = peer.cmd /\ peer'.tag = peer.tag /\ peer'.inc = peer.inc
      /\ peer'.ro = peer.ro /\ peer'.stored = 1 /\ peer'.lit = "stored"
  BY <1>1, <1>2 DEF Shapes
<1>4. Shapes'
  <2>1. peer' \in [cmd : Commands, tag : Nat, inc : 1..MaxInc, ro : BOOLEAN,
                   lit : {"none", "invited", "whole", "part", "stored"}, stored : 0..1]
    <3>1. peer' = [peer EXCEPT !.lit = "stored", !.stored = 1]
      BY <1>1, <1>2
    <3>2. peer \in [cmd : Commands, tag : Nat, inc : 1..MaxInc, ro : BOOLEAN,
                    lit : {"none", "invited", "whole", "part", "stored"}, stored : 0..1]
      BY DEF Shapes
    <3>3. 1 \in 0..1
      OBVIOUS
    <3> QED BY <3>1, <3>2, <3>3
  <2> QED BY <1>1, <2>1 DEF Shapes
<1>5. Position' /\ LoginReady' /\ RowsOurs' /\ Budget'
  BY <1>1 DEF Position, LoginReady, RowsOurs, Ours, Budget
<1>6. Channel' /\ Tags'
  BY <1>1, <1>3 DEF Channel, Tags
<1>7. Unpinned' /\ Selection'
  BY <1>1, <1>3 DEF Unpinned, Selection, IsRow, Ours, Alarm
<1>8. Literal'
  BY <1>1, <1>3 DEF Literal
<1>9. Appending'
  <2>1. result = "running" /\ outcome = "Unknown" =>
            \A i \in DOMAIN Coming : ~(Coming[i].t = "done" /\ Coming[i].x = tag)
    <3> SUFFICES ASSUME result = "running", outcome = "Unknown"
                 PROVE  \A i \in DOMAIN Coming : ~(Coming[i].t = "done" /\ Coming[i].x = tag)
      OBVIOUS
    <3>1. Kind = "Append" /\ sent
      BY DEF Appending
    <3>2. secure /\ tag # 0
      BY <3>1, WhatIsWritten DEF Tags
    <3> QED BY <1>1, <3>2 DEF Tags
  <2> QED BY <1>1, <1>3, <2>1 DEF Appending, Literal
<1> QED BY <1>4, <1>5, <1>6, <1>7, <1>8, <1>9
-----------------------------------------------------------------------------
(* What a response that is sent has to respect: whom it comes from, the tag,
   the selection it belongs to, and what it means for a message being stored. *)
Respects(m) ==
    /\ secure => m.tls
    /\ peer'.tag = peer.tag /\ peer'.stored = peer.stored
    /\ peer'.cmd \in {peer.cmd, "none"}
    /\ m.t = "done" => m.x <= tag /\ (secure /\ tag # 0 /\ m.x = tag => peer'.cmd = "none")
    /\ pinned = 0 =>
        /\ peer'.inc = peer.inc /\ (peer'.ro = peer.ro \/ peer.cmd = "Examine")
        /\ ~IsRow(m)
        /\ m.t = "ok" /\ m.c = "UIDVALIDITY" => m.x \in {0, 1}
        /\ m.t = "done" /\ m.c = "READ-ONLY" /\ m.x = tag /\ tag # 0 => peer'.ro
    /\ pinned # 0 =>
        /\ (peer'.ro = peer.ro /\ peer'.inc = peer.inc) \/ Alarm(m)
        /\ IsRow(m) => (m.ro = peer.ro /\ m.inc = peer.inc)
    /\ peer'.lit = peer.lit \/ (peer.cmd = "Append" /\ peer.lit = "none" /\ peer'.lit = "invited")
    /\ m.t = "cont" =>
        /\ peer.cmd \in {"Search", "Append"}
        /\ peer.cmd = "Append" => peer'.lit # "none"
    /\ outcome = "Unknown" =>
        /\ m.t = "done" /\ m.x = tag /\ m.c = "NO" => peer.stored = 0
        /\ m.t = "done" /\ m.x = tag /\ m.c \notin {"NO", "APPENDUID-BAD"} =>
               peer.stored = 1 \/ peer'.lit = "none"

LEMMA SendKeeps ==
    ASSUME ClientInvariant, result = "running", Room, NEW m \in Messages, Send(m),
           UNCHANGED Client, Respects(m),
           peer' \in [cmd : Commands, tag : Nat, inc : 1..MaxInc, ro : BOOLEAN,
                      lit : {"none", "invited", "whole", "part", "stored"}, stored : 0..1]
    PROVE  ClientInvariant'
<1> USE DEF ClientInvariant
<1> DEFINE n == Len(Coming)
<1>1. /\ UNCHANGED <<mode, op, todo, sent, secure, caps, tag, pinned, got, responses, taken,
                     buffer, outcome, result>>
      /\ Kind' = Kind
  BY DEF Client, Kind
<1>2. /\ wire' \in Seq(Messages) /\ Len(wire') = Len(wire) + 1
      /\ n \in Nat /\ DOMAIN Coming = 1..n /\ DOMAIN Coming' = 1..n + 1
      /\ \A i \in DOMAIN Coming : Coming'[i] = Coming[i]
      /\ Coming'[n + 1] = m
  BY <1>1, ComingGrows
<1> HIDE DEF n
<1>3. \A i \in DOMAIN Coming' : (i \in DOMAIN Coming /\ Coming'[i] = Coming[i]) \/ Coming'[i] = m
  <2> SUFFICES ASSUME NEW i \in 1..n + 1, i \notin 1..n PROVE i = n + 1
    BY <1>2
  <2> QED BY <1>2
<1>4. Shapes'
  <2>1. Len(wire) \in Nat /\ Len(buffer) \in Nat /\ Len(wire') + Len(buffer') <= MaxQueue
    <3>1. Len(wire) \in Nat /\ Len(buffer) \in Nat
      BY LenProperties DEF Shapes
    <3> QED BY <1>1, <1>2, <3>1, ClientAssumption DEF Room
  <2> QED BY <1>1, <1>2, <2>1 DEF Shapes
<1>5. Position' /\ LoginReady' /\ RowsOurs' /\ Budget'
  BY <1>1 DEF Position, LoginReady, RowsOurs, Ours, Budget
<1>6. Channel'
  <2>1. ~(Kind = "Tls" /\ sent)
    BY DEF Channel
  <2> QED BY <1>1, <1>3, <2>1 DEF Channel, Respects
<1>7. Tags'
  BY <1>1, <1>3 DEF Tags, Respects
<1>8. Unpinned'
  <2> SUFFICES ASSUME pinned = 0 PROVE Unpinned'
    BY <1>1 DEF Unpinned
  <2>1. peer'.inc = 1 /\ peer'.cmd \notin {"Search", "Projection", "Body", "Append"}
    BY DEF Unpinned, Respects
  <2>2. ASSUME NEW i \in DOMAIN Coming'
        PROVE  LET o == Coming'[i]
               IN  /\ ~IsRow(o)
                   /\ o.t = "ok" /\ o.c = "UIDVALIDITY" => o.x \in {0, 1}
                   /\ secure /\ tag # 0 /\ o.t = "done" /\ o.x = tag /\ o.c = "READ-ONLY" =>
                          peer'.ro
    <3>1. CASE Coming'[i] = m
      BY <3>1 DEF Respects
    <3>2. CASE i \in DOMAIN Coming /\ Coming'[i] = Coming[i]
      <4>1. /\ ~IsRow(Coming[i])
            /\ Coming[i].t = "ok" /\ Coming[i].c = "UIDVALIDITY" => Coming[i].x \in {0, 1}
        BY <3>2 DEF Unpinned
      <4>2. ASSUME secure, tag # 0, Coming[i].t = "done", Coming[i].x = tag,
                   Coming[i].c = "READ-ONLY"
            PROVE  peer'.ro
        <5>1. peer.cmd = "none" /\ peer.ro
          BY <3>2, <4>2 DEF Tags, Unpinned
        <5> QED BY <5>1 DEF Respects
      <4> QED BY <3>2, <4>1, <4>2
    <3> QED BY <1>3, <3>1, <3>2
  <2> QED BY <1>1, <2>1, <2>2 DEF Unpinned, IsRow
<1>9. Selection'
  <2> SUFFICES ASSUME pinned # 0 PROVE Selection'
    BY <1>1 DEF Selection
  <2>1. peer'.cmd # "Examine"
    BY DEF Selection, Respects
  <2>2. (\E j \in DOMAIN Coming : Alarm(Coming[j])) => \E j \in DOMAIN Coming' : Alarm(Coming'[j])
    BY <1>2 DEF Alarm
  <2>3. Alarm(m) => \E j \in DOMAIN Coming' : Alarm(Coming'[j])
    <3>1. n + 1 \in DOMAIN Coming'
      BY <1>2
    <3> QED BY <1>2, <3>1
  <2>4. ~(peer'.ro /\ peer'.inc = pinned) => \E j \in DOMAIN Coming' : Alarm(Coming'[j])
    BY <2>2, <2>3 DEF Respects, Selection
  <2>5. ASSUME NEW i \in DOMAIN Coming', IsRow(Coming'[i]), ~Ours(Coming'[i])
        PROVE  \E j \in 1..(i - 1) : Alarm(Coming'[j])
    <3>1. CASE i \in DOMAIN Coming
      <4>1. PICK j \in 1..(i - 1) : Alarm(Coming[j])
        BY <1>2, <2>5, <3>1 DEF Selection
      <4>2. j \in DOMAIN Coming
        BY <1>2, <3>1, <4>1
      <4> QED BY <1>2, <4>1, <4>2
    <3>2. CASE i = n + 1
      <4>1. ~(peer.ro /\ peer.inc = pinned)
        BY <1>2, <2>5, <3>2 DEF Respects, Ours
      <4>2. PICK j \in DOMAIN Coming : Alarm(Coming[j])
        BY <4>1 DEF Selection
      <4>3. j \in 1..(i - 1)
        BY <1>2, <3>2, <4>2
      <4> QED BY <1>2, <4>2, <4>3
    <3> QED BY <1>2, <3>1, <3>2
  <2>6. \A i \in DOMAIN Coming' : IsRow(Coming'[i]) /\ ~Ours(Coming'[i]) =>
                                      \E j \in 1..(i - 1) : Alarm(Coming'[j])
    BY <2>5
  <2> QED BY <1>1, <2>1, <2>4, <2>6 DEF Selection, Alarm, IsRow, Ours
<1>10. Literal'
  <2>1. outcome = "None" => peer'.cmd # "Append" /\ peer'.lit = "none"
    BY DEF Literal, Respects
  <2>2. peer'.lit = "stored" <=> peer'.stored = 1
    BY DEF Literal, Respects
  <2>3. op \in {"connect", "draft"} => peer'.cmd # "Search"
    BY DEF Literal, Respects
  <2>4. op \in {"connect", "draft"} /\ outcome = "None" => m.t # "cont"
    BY DEF Literal, Respects
  <2> QED BY <1>1, <1>3, <2>1, <2>2, <2>3, <2>4 DEF Literal
<1>11. Appending'
  <2>1. outcome = "Rejected" => peer'.stored = 0 /\ peer'.cmd # "Append"
    BY DEF Appending, Respects
  <2>2. outcome = "Created" => peer'.stored = 1
    BY DEF Appending, Respects
  <2>3. ASSUME outcome = "Unknown"
        PROVE  /\ peer'.cmd \in {"Append", "none"}
               /\ got.streamed => peer'.lit # "none"
               /\ \A i \in DOMAIN Coming' :
                     LET o == Coming'[i]
                     IN  /\ o.t = "cont" => peer'.lit # "none"
                         /\ o.t = "done" /\ o.x = tag /\ o.c = "NO" => peer'.stored = 0
                         /\ o.t = "done" /\ o.x = tag /\ o.c \notin {"NO", "APPENDUID-BAD"} =>
                                peer'.stored = 1 \/ peer'.lit = "none"
    <3>1. Kind = "Append" /\ sent
      BY <2>3 DEF Appending
    <3>2. secure /\ tag # 0 /\ op = "draft"
      BY <3>1, WhatIsWritten DEF Tags
    <3>3. m.t = "cont" => peer'.lit # "none"
      BY <3>2 DEF Respects, Literal
    <3>4. got.streamed => peer'.lit # "none"
      BY <2>3 DEF Respects, Appending
    <3>5. ASSUME NEW i \in DOMAIN Coming, Coming[i].t = "done", Coming[i].x = tag
          PROVE  peer'.lit = peer.lit
      BY <3>2, <3>5 DEF Respects, Tags
    <3>6. \A i \in DOMAIN Coming :
             LET o == Coming[i]
             IN  /\ o.t = "cont" => peer'.lit # "none"
                 /\ o.t = "done" /\ o.x = tag /\ o.c = "NO" => peer'.stored = 0
                 /\ o.t = "done" /\ o.x = tag /\ o.c \notin {"NO", "APPENDUID-BAD"} =>
                        peer'.stored = 1 \/ peer'.lit = "none"
      BY <2>3, <3>5 DEF Respects, Appending
    <3>7. /\ m.t = "done" /\ m.x = tag /\ m.c = "NO" => peer'.stored = 0
          /\ m.t = "done" /\ m.x = tag /\ m.c \notin {"NO", "APPENDUID-BAD"} =>
                 peer'.stored = 1 \/ peer'.lit = "none"
      BY <2>3 DEF Respects
    <3>8. peer'.cmd \in {"Append", "none"}
      BY <2>3 DEF Respects, Appending
    <3> QED BY <1>3, <3>3, <3>4, <3>6, <3>7, <3>8
  <2> QED BY <1>1, <2>1, <2>2, <2>3 DEF Appending
<1> QED BY <1>4, <1>5, <1>6, <1>7, <1>8, <1>9, <1>10, <1>11

LEMMA MsgIs ==
    ASSUME Shapes, NEW t \in Constructors, NEW x \in Nat, NEW c \in Codes
    PROVE  /\ Msg(t, x, c) \in Messages
           /\ Msg(t, x, c).t = t /\ Msg(t, x, c).x = x /\ Msg(t, x, c).c = c
           /\ Msg(t, x, c).tls = secure /\ Msg(t, x, c).inc = peer.inc
           /\ Msg(t, x, c).ro = peer.ro
<1>1. peer.inc \in Nat /\ peer.ro \in BOOLEAN /\ secure \in BOOLEAN
  BY DEF Shapes
<1> QED BY <1>1 DEF Msg, Messages

LEMMA PeerIs ==
    ASSUME ClientInvariant, result = "running"
    PROVE  /\ peer \in [cmd : Commands, tag : Nat, inc : 1..MaxInc, ro : BOOLEAN,
                        lit : {"none", "invited", "whole", "part", "stored"}, stored : 0..1]
           /\ peer.tag = tag /\ tag \in Nat
           /\ outcome = "Unknown" => secure /\ tag # 0 /\ peer.cmd \in {"Append", "none"}
           /\ ~secure => pinned = 0
<1>1. outcome = "Unknown" => Kind = "Append" /\ sent /\ peer.cmd \in {"Append", "none"}
  BY DEF ClientInvariant, Appending
<1>2. Kind = "Append" /\ sent => secure /\ tag # 0
  BY WhatIsWritten DEF ClientInvariant, Tags
<1> QED BY <1>1, <1>2 DEF ClientInvariant, Shapes, Tags, Position

LEMMA AnybodyKeeps ==
    ASSUME ClientInvariant, Anybody
    PROVE  ClientInvariant'
<1>1. ~secure /\ Room /\ result = "running" /\ UNCHANGED Client /\ peer' = peer /\ Shapes
  BY DEF Anybody, ClientInvariant
<1>2. pinned = 0 /\ outcome # "Unknown" /\ peer.tag = tag /\ tag \in Nat
      /\ peer \in [cmd : Commands, tag : Nat, inc : 1..MaxInc, ro : BOOLEAN,
                   lit : {"none", "invited", "whole", "part", "stored"}, stored : 0..1]
  BY <1>1, PeerIs
<1>3. PICK t \in {"ok", "caps", "done"}, c \in {"none", "OK", "NO"} \cup CapSets :
          Send(Msg(t, IF t = "done" THEN tag ELSE 0, c)) /\ (t = "ok" \/ t = "done" => c \in {"none", "OK", "NO"})
  <2>1. CASE Send(Msg("ok", 0, "none"))
    BY <2>1
  <2>2. CASE \E c \in CapSets : Send(Msg("caps", 0, c))
    <3>1. PICK c \in CapSets : Send(Msg("caps", 0, c))
      BY <2>2
    <3> QED BY <3>1
  <2>3. CASE \E s \in {"OK", "NO"} : Send(Msg("done", tag, s))
    <3>1. PICK s \in {"OK", "NO"} : Send(Msg("done", tag, s))
      BY <2>3
    <3> QED BY <3>1
  <2> QED BY <2>1, <2>2, <2>3 DEF Anybody
<1> DEFINE x == IF t = "done" THEN tag ELSE 0
           m == Msg(t, x, c)
<1>4. x \in Nat /\ (t # "done" => x = 0) /\ (t = "done" => x = tag)
  BY <1>2
<1> HIDE DEF x
<1>5. t \in Constructors /\ c \in Codes
  BY <1>3 DEF Constructors, Codes
<1>6. m \in Messages /\ m.t = t /\ m.x = x /\ m.c = c
  BY <1>1, <1>4, <1>5, MsgIs
<1>7. Send(m)
  BY <1>3 DEF x
<1> HIDE DEF m
<1>8. Respects(m)
  BY <1>1, <1>2, <1>3, <1>4, <1>6 DEF Respects, IsRow
<1> QED BY <1>1, <1>2, <1>6, <1>7, <1>8, SendKeeps

LEMMA ChatterKeeps ==
    ASSUME ClientInvariant, Chatter
    PROVE  ClientInvariant'
<1>1. secure /\ Room /\ result = "running" /\ UNCHANGED Client /\ peer' = peer /\ Shapes
  BY DEF Chatter, ClientInvariant
<1>2. PICK n \in Noise : Send(Msg(n[1], 0, n[2]))
  BY DEF Chatter
<1>3. n[1] \in Constructors /\ n[2] \in Codes /\ n[1] # "cont"
  BY ClientAssumption DEF Constructors, Codes
<1> DEFINE m == Msg(n[1], 0, n[2])
<1>4. m \in Messages /\ m.x = 0 /\ m.t # "cont" /\ m.tls = secure
  <2>1. peer.inc \in Nat /\ peer.ro \in BOOLEAN /\ secure \in BOOLEAN
    BY <1>1 DEF Shapes
  <2> QED BY <1>3, <2>1 DEF Msg, Messages
<1>5. Send(m)
  BY <1>2
<1> HIDE DEF m
<1>6. Respects(m)
  BY <1>1, <1>4, PeerIs DEF Respects, IsRow
<1> QED BY <1>1, <1>4, <1>5, <1>6, PeerIs, SendKeeps

LEMMA ReselectKeeps ==
    ASSUME ClientInvariant, Reselect
    PROVE  ClientInvariant'
<1>1. secure /\ Room /\ result = "running" /\ pinned # 0 /\ UNCHANGED Client /\ Shapes
  BY DEF Reselect, ClientInvariant
<1>2. peer.inc \in Nat /\ peer.inc >= 1 /\ peer.inc + 1 # pinned /\ pinned = 1
  BY <1>1 DEF ClientInvariant, Shapes, Unpinned
<1>3. /\ peer.tag = tag /\ tag \in Nat
      /\ peer \in [cmd : Commands, tag : Nat, inc : 1..MaxInc, ro : BOOLEAN,
                   lit : {"none", "invited", "whole", "part", "stored"}, stored : 0..1]
  BY <1>1, PeerIs
<1>4. "ok" \in Constructors /\ "READ-WRITE" \in Codes /\ "UIDVALIDITY" \in Codes
  BY DEF Constructors, Codes
<1>5. CASE peer' = [peer EXCEPT !.ro = FALSE] /\ wire' = Append(wire, Msg("ok", 0, "READ-WRITE"))
  <2> DEFINE m == Msg("ok", 0, "READ-WRITE")
  <2>1. m \in Messages /\ m.x = 0 /\ m.t = "ok" /\ m.c = "READ-WRITE" /\ m.tls = secure
    BY <1>1, <1>2, <1>3, <1>4 DEF Msg, Messages, Shapes
  <2>2. Send(m)
    BY <1>5 DEF Send
  <2> HIDE DEF m
  <2>3. /\ peer'.cmd = peer.cmd /\ peer'.tag = peer.tag /\ peer'.inc = peer.inc
        /\ peer'.lit = peer.lit /\ peer'.stored = peer.stored
        /\ peer' \in [cmd : Commands, tag : Nat, inc : 1..MaxInc, ro : BOOLEAN,
                      lit : {"none", "invited", "whole", "part", "stored"}, stored : 0..1]
    BY <1>3, <1>5
  <2>4. Respects(m)
    BY <1>1, <2>1, <2>3 DEF Respects, IsRow, Alarm
  <2> QED BY <1>1, <2>1, <2>2, <2>3, <2>4, SendKeeps
<1>6. CASE peer.inc < MaxInc /\ peer' = [peer EXCEPT !.inc = @ + 1]
           /\ wire' = Append(wire, Msg("ok", peer.inc + 1, "UIDVALIDITY"))
  <2> DEFINE m == Msg("ok", peer.inc + 1, "UIDVALIDITY")
  <2>1. m \in Messages /\ m.x = peer.inc + 1 /\ m.t = "ok" /\ m.c = "UIDVALIDITY" /\ m.tls = secure
    BY <1>1, <1>2, <1>3, <1>4 DEF Msg, Messages, Shapes
  <2>2. Send(m)
    BY <1>6 DEF Send
  <2> HIDE DEF m
  <2>3. /\ peer'.cmd = peer.cmd /\ peer'.tag = peer.tag /\ peer'.ro = peer.ro
        /\ peer'.lit = peer.lit /\ peer'.stored = peer.stored
        /\ peer' \in [cmd : Commands, tag : Nat, inc : 1..MaxInc, ro : BOOLEAN,
                      lit : {"none", "invited", "whole", "part", "stored"}, stored : 0..1]
    <3>1. peer.inc + 1 \in 1..MaxInc
      BY <1>2, <1>6, ClientAssumption
    <3>2. peer' = [peer EXCEPT !.inc = peer.inc + 1]
      BY <1>6
    <3> QED BY <1>3, <3>1, <3>2
  <2>4. Respects(m)
    BY <1>1, <1>2, <2>1, <2>3 DEF Respects, IsRow, Alarm
  <2> QED BY <1>1, <2>1, <2>2, <2>3, <2>4, SendKeeps
<1> QED BY <1>5, <1>6 DEF Reselect

(* Data of the provider: t, x and c are what it may say for its command. *)
RowOf(t, x, c) ==
    /\ t \in {"ok", "caps", "list", "cont", "search", "fetch", "bye"}
    /\ x \in Nat
    /\ c \in {"none", "UIDVALIDITY", "UIDNEXT", "requested", "other"} \cup CapSets
    /\ t = "ok" => c \in {"none", "UIDVALIDITY", "UIDNEXT"} /\ (c = "UIDVALIDITY" => x = peer.inc)
    /\ t = "cont" => peer.cmd \in {"Search", "Append"}
    /\ t \in {"search", "fetch"} => peer.cmd \in {"Search", "Projection", "Body"}

LEMMA RowKeeps ==
    ASSUME ClientInvariant, secure, Room, result = "running", UNCHANGED Client,
           peer' = IF peer.cmd = "Append" /\ peer.lit = "none"
                   THEN [peer EXCEPT !.lit = "invited"] ELSE peer,
           NEW t, NEW x, NEW c, RowOf(t, x, c), Send(Msg(t, x, c))
    PROVE  ClientInvariant'
<1>1. Shapes
  BY DEF ClientInvariant
<1>2. /\ peer.tag = tag /\ tag \in Nat
      /\ peer \in [cmd : Commands, tag : Nat, inc : 1..MaxInc, ro : BOOLEAN,
                   lit : {"none", "invited", "whole", "part", "stored"}, stored : 0..1]
  BY PeerIs
<1>3. /\ peer'.cmd = peer.cmd /\ peer'.tag = peer.tag /\ peer'.inc = peer.inc /\ peer'.ro = peer.ro
      /\ peer'.stored = peer.stored
      /\ peer'.lit = IF peer.cmd = "Append" /\ peer.lit = "none" THEN "invited" ELSE peer.lit
      /\ peer' \in [cmd : Commands, tag : Nat, inc : 1..MaxInc, ro : BOOLEAN,
                    lit : {"none", "invited", "whole", "part", "stored"}, stored : 0..1]
  BY <1>2
<1>4. t \in Constructors /\ c \in Codes /\ x \in Nat
  BY DEF RowOf, Constructors, Codes
<1> DEFINE m == Msg(t, x, c)
<1>5. /\ m \in Messages /\ m.t = t /\ m.x = x /\ m.c = c /\ m.tls = secure /\ m.inc = peer.inc
      /\ m.ro = peer.ro
  BY <1>1, <1>2, <1>4 DEF Msg, Messages, Shapes
<1>6. Send(m)
  OBVIOUS
<1> HIDE DEF m
<1>7. Respects(m)
  <2>1. pinned = 0 => /\ peer.inc = 1
                      /\ peer.cmd \notin {"Search", "Projection", "Body", "Append"}
    BY DEF ClientInvariant, Unpinned
  <2> QED BY <1>3, <1>5, <2>1 DEF Respects, IsRow, RowOf
<1> QED BY <1>3, <1>5, <1>6, <1>7, SendKeeps

LEMMA ProviderRowKeeps ==
    ASSUME ClientInvariant, ProviderRow
    PROVE  ClientInvariant'
<1>1. /\ secure /\ Room /\ result = "running" /\ UNCHANGED Client /\ peer.inc \in Nat
      /\ peer' = IF peer.cmd = "Append" /\ peer.lit = "none"
                 THEN [peer EXCEPT !.lit = "invited"] ELSE peer
  BY DEF ProviderRow, ClientInvariant, Shapes
<1>2. ASSUME NEW t, NEW x, NEW c, RowOf(t, x, c), Send(Msg(t, x, c))
      PROVE  ClientInvariant'
  BY <1>1, <1>2, RowKeeps
<1>3. CASE Send(Msg("ok", 0, "none"))
  <2>1. RowOf("ok", 0, "none")
    BY <1>1, <1>3 DEF RowOf
  <2> QED BY <1>2, <1>3, <2>1, ZenonT(30)
<1>4. CASE \E c \in CapSets : Send(Msg("caps", 0, c))
  <2>1. PICK c \in CapSets : Send(Msg("caps", 0, c))
    BY <1>4
  <2>2. RowOf("caps", 0, c)
    BY <1>1, <1>4, <2>1 DEF RowOf
  <2> QED BY <1>2, <2>1, <2>2, ZenonT(30)
<1>5. CASE Send(Msg("list", 0, "none"))
  <2>1. RowOf("list", 0, "none")
    BY <1>1, <1>5 DEF RowOf
  <2> QED BY <1>2, <1>5, <2>1, ZenonT(30)
<1>6. CASE Send(Msg("ok", peer.inc, "UIDVALIDITY"))
  <2>1. RowOf("ok", peer.inc, "UIDVALIDITY")
    BY <1>1, <1>6 DEF RowOf
  <2> QED BY <1>2, <1>6, <2>1, ZenonT(30)
<1>7. CASE Send(Msg("ok", 1, "UIDNEXT"))
  <2>1. RowOf("ok", 1, "UIDNEXT")
    BY <1>1, <1>7 DEF RowOf
  <2> QED BY <1>2, <1>7, <2>1, ZenonT(30)
<1>8. CASE peer.cmd \in {"Search", "Append"} /\ Send(Msg("cont", 0, "none"))
  <2>1. RowOf("cont", 0, "none")
    BY <1>1, <1>8 DEF RowOf
  <2> QED BY <1>2, <1>8, <2>1, ZenonT(30)
<1>9. CASE peer.cmd = "Search" /\ Send(Msg("search", 1, "none"))
  <2>1. RowOf("search", 1, "none")
    BY <1>1, <1>9 DEF RowOf
  <2> QED BY <1>2, <1>9, <2>1, ZenonT(30)
<1>10. CASE /\ peer.cmd \in {"Projection", "Body"}
           /\ \E u \in 1..2, c \in {"requested", "other"} : Send(Msg("fetch", u, c))
  <2>1. PICK u \in 1..2, c \in {"requested", "other"} : Send(Msg("fetch", u, c))
    BY <1>10
  <2>2. RowOf("fetch", u, c)
    BY <1>1, <1>10, <2>1 DEF RowOf
  <2> QED BY <1>2, <2>1, <2>2, ZenonT(30)
<1>11. CASE Send(Msg("bye", 0, "none"))
  <2>1. RowOf("bye", 0, "none")
    BY <1>1, <1>11 DEF RowOf
  <2> QED BY <1>2, <1>11, <2>1, ZenonT(30)
<1> QED BY <1>3, <1>4, <1>5, <1>6, <1>7, <1>8, <1>9, <1>10, <1>11 DEF ProviderRow

(* A completion of the provider: c its status, b the selection it leaves. *)
DoneOf(c, b) ==
    /\ c \in {"NO", "READ-ONLY", "OK", "READ-WRITE", "APPENDUID", "APPENDUID-BAD"}
    /\ b \in BOOLEAN
    /\ c = "NO" => peer.lit # "stored"
    /\ peer.cmd # "Examine" => b = peer.ro
    /\ c = "READ-ONLY" => b
    /\ c = "OK" /\ peer.cmd = "Append" => peer.lit \in {"stored", "none"}
    /\ c \in {"APPENDUID", "APPENDUID-BAD"} => peer.lit = "stored"
    /\ c \in {"READ-ONLY", "READ-WRITE"} => peer.cmd = "Examine"

LEMMA DoneKeeps ==
    ASSUME ClientInvariant, secure, Room, result = "running", UNCHANGED Client,
           peer.cmd \notin {"none", "Greeting"},
           NEW c, NEW b, DoneOf(c, b), Send(Msg("done", peer.tag, c)),
           peer' = [peer EXCEPT !.ro = b, !.cmd = "none"]
    PROVE  ClientInvariant'
<1>1. Shapes
  BY DEF ClientInvariant
<1>2. /\ peer.tag = tag /\ tag \in Nat
      /\ peer \in [cmd : Commands, tag : Nat, inc : 1..MaxInc, ro : BOOLEAN,
                   lit : {"none", "invited", "whole", "part", "stored"}, stored : 0..1]
      /\ outcome = "Unknown" => tag # 0 /\ peer.cmd = "Append"
  BY PeerIs
<1>3. "done" \in Constructors /\ c \in Codes
  BY DEF DoneOf, Constructors, Codes
<1> DEFINE m == Msg("done", peer.tag, c)
<1>4. m \in Messages /\ m.t = "done" /\ m.x = tag /\ m.c = c /\ m.tls = secure
  BY <1>1, <1>2, <1>3 DEF Msg, Messages, Shapes
<1>5. Send(m)
  OBVIOUS
<1> HIDE DEF m
<1>6. /\ peer'.cmd = "none" /\ peer'.tag = peer.tag /\ peer'.inc = peer.inc /\ peer'.ro = b
      /\ peer'.stored = peer.stored /\ peer'.lit = peer.lit
      /\ peer' \in [cmd : Commands, tag : Nat, inc : 1..MaxInc, ro : BOOLEAN,
                    lit : {"none", "invited", "whole", "part", "stored"}, stored : 0..1]
  BY <1>2 DEF DoneOf, Commands
<1>7. Respects(m)
  <2>1. /\ pinned # 0 => peer.cmd # "Examine"
        /\ peer.lit = "stored" <=> peer.stored = 1
        /\ peer.stored \in {0, 1}
    BY <1>2 DEF ClientInvariant, Selection, Literal
  <2> QED BY <1>2, <1>4, <1>6, <2>1 DEF Respects, IsRow, DoneOf
<1> QED BY <1>4, <1>5, <1>6, <1>7, SendKeeps

LEMMA ProviderDoneKeeps ==
    ASSUME ClientInvariant, ProviderDone
    PROVE  ClientInvariant'
<1>1. secure /\ Room /\ result = "running" /\ UNCHANGED Client
      /\ peer.cmd \notin {"none", "Greeting"}
  BY DEF ProviderDone
<1>2. /\ peer \in [cmd : Commands, tag : Nat, inc : 1..MaxInc, ro : BOOLEAN,
                   lit : {"none", "invited", "whole", "part", "stored"}, stored : 0..1]
      /\ peer.ro \in BOOLEAN
  BY DEF ClientInvariant, Shapes
<1>3. ASSUME NEW c, NEW b, DoneOf(c, b), Send(Msg("done", peer.tag, c)),
             peer' = [peer EXCEPT !.ro = b, !.cmd = "none"]
      PROVE  ClientInvariant'
  BY <1>1, <1>3, DoneKeeps
<1>4. CASE peer.lit # "stored" /\ Done("NO", peer)
  <2>1. DoneOf("NO", peer.ro)
    BY <1>2, <1>4 DEF DoneOf
  <2>2. Send(Msg("done", peer.tag, "NO")) /\ peer' = [peer EXCEPT !.ro = peer.ro, !.cmd = "none"]
    BY <1>2, <1>4 DEF Done
  <2> QED BY <1>3, <2>1, <2>2, ZenonT(30)
<1>5. CASE peer.cmd = "Examine" /\ Done("READ-ONLY", [peer EXCEPT !.ro = TRUE])
  <2>1. DoneOf("READ-ONLY", TRUE)
    BY <1>2, <1>5 DEF DoneOf
  <2>2. Send(Msg("done", peer.tag, "READ-ONLY")) /\ peer' = [peer EXCEPT !.ro = TRUE, !.cmd = "none"]
    BY <1>2, <1>5 DEF Done
  <2> QED BY <1>3, <2>1, <2>2, ZenonT(30)
<1>6. CASE peer.cmd = "Examine" /\ \E c \in {"OK", "READ-WRITE"} : Done(c, [peer EXCEPT !.ro = FALSE])
  <2>1. PICK c \in {"OK", "READ-WRITE"} : Done(c, [peer EXCEPT !.ro = FALSE])
    BY <1>6
  <2>2. DoneOf(c, FALSE)
    BY <1>2, <1>6, <2>1 DEF DoneOf
  <2>3. Send(Msg("done", peer.tag, c)) /\ peer' = [peer EXCEPT !.ro = FALSE, !.cmd = "none"]
    BY <1>2, <1>6, <2>1 DEF Done
  <2> QED BY <1>3, <2>2, <2>3, ZenonT(30)
<1>7. CASE peer.cmd = "Append" /\ peer.lit = "stored"
           /\ \E c \in {"OK", "APPENDUID", "APPENDUID-BAD"} : Done(c, peer)
  <2>1. PICK c \in {"OK", "APPENDUID", "APPENDUID-BAD"} : Done(c, peer)
    BY <1>7
  <2>2. DoneOf(c, peer.ro)
    BY <1>2, <1>7, <2>1 DEF DoneOf
  <2>3. Send(Msg("done", peer.tag, c)) /\ peer' = [peer EXCEPT !.ro = peer.ro, !.cmd = "none"]
    BY <1>2, <1>7, <2>1 DEF Done
  <2> QED BY <1>3, <2>2, <2>3, ZenonT(30)
<1>8. CASE peer.cmd = "Append" /\ peer.lit = "none" /\ Done("OK", peer)
  <2>1. DoneOf("OK", peer.ro)
    BY <1>2, <1>8 DEF DoneOf
  <2>2. Send(Msg("done", peer.tag, "OK")) /\ peer' = [peer EXCEPT !.ro = peer.ro, !.cmd = "none"]
    BY <1>2, <1>8 DEF Done
  <2> QED BY <1>3, <2>1, <2>2, ZenonT(30)
<1>9. CASE peer.cmd \notin {"Examine", "Append"} /\ Done("OK", peer)
  <2>1. DoneOf("OK", peer.ro)
    BY <1>2, <1>9 DEF DoneOf
  <2>2. Send(Msg("done", peer.tag, "OK")) /\ peer' = [peer EXCEPT !.ro = peer.ro, !.cmd = "none"]
    BY <1>2, <1>9 DEF Done
  <2> QED BY <1>3, <2>1, <2>2, ZenonT(30)
<1> QED BY <1>4, <1>5, <1>6, <1>7, <1>8, <1>9 DEF ProviderDone
-----------------------------------------------------------------------------
(* One response is taken out of the buffer and counted. *)
Reads ==
    /\ result = "running" /\ sent /\ buffer # <<>> /\ responses # MaxResponses
    /\ responses' = responses + 1 /\ taken' = taken + 1 /\ buffer' = Tail(buffer)
    /\ UNCHANGED <<mode, op, secure, tag, wire, peer>>

(* What is known of the response that is read: it is the first that comes. *)
LEMMA FirstIs ==
    ASSUME ClientInvariant, Reads, NEW r, r = Head(buffer)
    PROVE  /\ r \in Messages
           /\ secure => r.tls
           /\ Kind \notin {"Tls"}
           /\ pinned # 0 /\ IsRow(r) => Ours(r)
           /\ r.t = "ok" /\ r.c = "UIDVALIDITY" /\ pinned = 0 => r.x \in {0, 1}
           /\ secure /\ tag # 0 /\ r.t = "done" /\ r.x = tag => peer.cmd = "none"
           /\ pinned = 0 /\ secure /\ tag # 0 /\ r.t = "done" /\ r.x = tag /\ r.c = "READ-ONLY"
                  => peer.ro
           /\ outcome = "Unknown" /\ r.t = "cont" => peer.lit # "none"
           /\ outcome = "Unknown" /\ r.t = "done" /\ r.x = tag /\ r.c = "NO" => peer.stored = 0
           /\ outcome = "Unknown" /\ r.t = "done" /\ r.x = tag
                  /\ r.c \notin {"NO", "APPENDUID-BAD"} => peer.stored = 1 \/ peer.lit = "none"
<1> USE DEF ClientInvariant
<1>1. 1 \in DOMAIN Coming /\ Coming[1] = r /\ r \in Messages
  BY ComingShifts DEF Reads
<1>2. result = "running" /\ sent
  BY DEF Reads
<1>3. (secure => r.tls) /\ Kind \notin {"Tls"}
  BY <1>1, <1>2 DEF Channel
<1>4. pinned # 0 /\ IsRow(r) => Ours(r)
  <2> SUFFICES ASSUME pinned # 0, IsRow(r), ~Ours(r) PROVE FALSE
    OBVIOUS
  <2>1. PICK j \in 1..(1 - 1) : Alarm(Coming[j])
    BY <1>1, <1>2 DEF Selection
  <2> QED BY <2>1
<1>5. r.t = "ok" /\ r.c = "UIDVALIDITY" /\ pinned = 0 => r.x \in {0, 1}
  BY <1>1 DEF Unpinned
<1>6. secure /\ tag # 0 /\ r.t = "done" /\ r.x = tag => peer.cmd = "none"
  BY <1>1 DEF Tags
<1>7. pinned = 0 /\ secure /\ tag # 0 /\ r.t = "done" /\ r.x = tag /\ r.c = "READ-ONLY" => peer.ro
  BY <1>1 DEF Unpinned
<1>8. /\ outcome = "Unknown" /\ r.t = "cont" => peer.lit # "none"
      /\ outcome = "Unknown" /\ r.t = "done" /\ r.x = tag /\ r.c = "NO" => peer.stored = 0
      /\ outcome = "Unknown" /\ r.t = "done" /\ r.x = tag
             /\ r.c \notin {"NO", "APPENDUID-BAD"} => peer.stored = 1 \/ peer.lit = "none"
  BY <1>1, <1>2 DEF Appending
<1> QED BY <1>1, <1>3, <1>4, <1>5, <1>6, <1>7, <1>8

(* What reading keeps, whatever becomes of the response, as long as the      *)
(* pinned selection stays: the rest is left to whoever takes the response.   *)
LEMMA ReadsKeep ==
    ASSUME ClientInvariant, Reads, UNCHANGED pinned,
           sent' \in BOOLEAN, Locals(got'), got'.validity \in {0, 1},
           caps' = [names |-> caps'.names, tls |-> caps'.tls], caps'.tls \in BOOLEAN,
           result' = "running" /\ pinned # 0 => ~Alarm(Head(buffer)),
           outcome' = "None" => outcome = "None",
           secure => \A i \in DOMAIN got'.rows : got'.rows[i].tls,
           result' = "running" /\ ~sent' => got'.rows = <<>> /\ got'.validity = 0,
           result' = "running" /\ Kind' = "Tls" => buffer' = <<>> /\ ~sent',
           result' = "running" /\ sent' /\ Kind' # "Greeting" => Kind # "Greeting",
           Position', LoginReady', RowsOurs', Appending'
    PROVE  ClientInvariant'
<1> USE DEF ClientInvariant
<1>1. /\ UNCHANGED <<mode, op, secure, tag, wire, peer, pinned>>
      /\ result = "running" /\ sent /\ buffer # <<>> /\ buffer' = Tail(buffer)
      /\ responses # MaxResponses /\ responses' = responses + 1 /\ taken' = taken + 1
  BY DEF Reads
<1>2. /\ buffer' \in Seq(Messages) /\ Len(buffer') = Len(buffer) - 1
      /\ Len(buffer) \in Nat \ {0} /\ 1 \in DOMAIN Coming /\ Coming[1] = Head(buffer)
      /\ Len(Coming) \in Nat \ {0} /\ DOMAIN Coming = 1..Len(Coming)
      /\ DOMAIN Coming' = 1..(Len(Coming) - 1)
      /\ \A i \in DOMAIN Coming' : i + 1 \in DOMAIN Coming /\ Coming'[i] = Coming[i + 1]
  BY <1>1, ComingShifts
<1>3. Shapes'
  <2>1. Len(wire') + Len(buffer') <= MaxQueue
    <3>1. Len(wire) \in Nat
      BY LenProperties DEF Shapes
    <3> QED BY <1>1, <1>2, <3>1, ClientAssumption DEF Shapes
  <2> QED BY <1>1, <1>2, <2>1 DEF Shapes
<1>4. Budget'
  BY <1>1, ClientAssumption DEF Budget
<1>5. Channel'
  <2>1. secure' => \A i \in DOMAIN Coming' : Coming'[i].tls
    BY <1>1, <1>2 DEF Channel
  <2> QED BY <1>1, <2>1 DEF Channel
<1>6. Tags'
  <2>1. \A i \in DOMAIN Coming' : Coming'[i].t = "done" => Coming'[i].x <= tag
    BY <1>2 DEF Tags
  <2>2. secure /\ tag # 0 => \A i \in DOMAIN Coming' :
            Coming'[i].t = "done" /\ Coming'[i].x = tag => peer.cmd = "none"
    BY <1>2 DEF Tags
  <2>3. peer.tag = tag /\ (Kind # "Greeting" => tag # 0)
    BY <1>1 DEF Tags
  <2> QED BY <1>1, <2>1, <2>2, <2>3 DEF Tags
<1>7. Unpinned'
  <2>1. pinned = 0 => \A i \in DOMAIN Coming' :
            LET m == Coming'[i]
            IN  /\ ~IsRow(m)
                /\ m.t = "ok" /\ m.c = "UIDVALIDITY" => m.x \in {0, 1}
                /\ secure /\ tag # 0 /\ m.t = "done" /\ m.x = tag /\ m.c = "READ-ONLY" => peer.ro
    BY <1>2 DEF Unpinned, IsRow
  <2> QED BY <1>1, <2>1 DEF Unpinned, IsRow
<1>8. Selection'
  <2> SUFFICES ASSUME pinned # 0, result' = "running" PROVE Selection'
    BY <1>1 DEF Selection
  <2>1. ~Alarm(Coming[1])
    BY <1>2
  <2>2. ~(peer.ro /\ peer.inc = pinned) => \E j \in DOMAIN Coming' : Alarm(Coming'[j])
    <3> SUFFICES ASSUME ~(peer.ro /\ peer.inc = pinned)
                 PROVE  \E j \in DOMAIN Coming' : Alarm(Coming'[j])
      OBVIOUS
    <3>1. PICK j \in DOMAIN Coming : Alarm(Coming[j])
      BY <1>1 DEF Selection
    <3>2. j # 1 /\ j - 1 \in DOMAIN Coming' /\ (j - 1) + 1 = j
      BY <1>2, <2>1, <3>1
    <3>3. Coming'[j - 1] = Coming[(j - 1) + 1]
      BY <1>2, <3>2
    <3> QED BY <3>1, <3>2, <3>3
  <2>3. ASSUME NEW i \in DOMAIN Coming', IsRow(Coming'[i]), ~Ours(Coming'[i])
        PROVE  \E j \in 1..(i - 1) : Alarm(Coming'[j])
    <3>1. i + 1 \in DOMAIN Coming /\ Coming'[i] = Coming[i + 1] /\ i \in Nat
      BY <1>2
    <3>2. PICK j \in 1..((i + 1) - 1) : Alarm(Coming[j])
      BY <1>1, <2>3, <3>1 DEF Selection
    <3>3. j # 1 /\ j - 1 \in 1..(i - 1) /\ j - 1 \in DOMAIN Coming' /\ (j - 1) + 1 = j
      BY <1>2, <2>1, <3>1, <3>2
    <3>4. Coming'[j - 1] = Coming[(j - 1) + 1]
      BY <1>2, <3>3
    <3> QED BY <3>2, <3>3, <3>4
  <2>4. \A i \in DOMAIN Coming' : IsRow(Coming'[i]) /\ ~Ours(Coming'[i]) =>
                                      \E j \in 1..(i - 1) : Alarm(Coming'[j])
    BY <2>3
  <2>5. peer.cmd # "Examine"
    BY DEF Selection
  <2> QED BY <1>1, <2>2, <2>4, <2>5 DEF Selection, Alarm, IsRow, Ours
<1>9. Literal'
  <2>1. op \in {"connect", "draft"} /\ outcome = "None" =>
            \A i \in DOMAIN Coming' : Coming'[i].t # "cont"
    BY <1>2 DEF Literal
  <2> QED BY <1>1, <2>1 DEF Literal
<1> QED BY <1>3, <1>4, <1>5, <1>6, <1>7, <1>8, <1>9

(* The operation ends: what append() found out is true. *)
LEMMA ReadEnds ==
    ASSUME ClientInvariant, Reads, UNCHANGED <<todo, sent, caps, pinned, got>>,
           result' \notin {"running", "ready"},
           \/ UNCHANGED outcome
           \/ outcome' = "Rejected" /\ peer.stored = 0 /\ peer.cmd # "Append"
           \/ outcome' = "Created" /\ peer.stored = 1
    PROVE  ClientInvariant'
<1>1. UNCHANGED <<mode, op, secure, tag, wire, peer>>
  BY DEF Reads
<1>2. /\ Position' /\ LoginReady' /\ RowsOurs'
  BY <1>1 DEF ClientInvariant, Position, LoginReady, RowsOurs, Ours
<1>3. Appending'
  BY <1>1 DEF ClientInvariant, Appending
<1>4. /\ sent' \in BOOLEAN /\ Locals(got') /\ got'.validity \in {0, 1}
      /\ caps' = [names |-> caps'.names, tls |-> caps'.tls] /\ caps'.tls \in BOOLEAN
      /\ outcome' = "None" => outcome = "None"
      /\ secure => \A i \in DOMAIN got'.rows : got'.rows[i].tls
  BY DEF ClientInvariant, Shapes, Unpinned, Channel
<1> QED BY <1>2, <1>3, <1>4, ReadsKeep

(* A failed response is judged without changing anything else. *)
LEMMA FailEnds ==
    ASSUME ClientInvariant, Reads, NEW error, error \notin {"running", "ready"}, Fail(error)
    PROVE  ClientInvariant'
  BY ReadEnds DEF Fail

(* The command goes on, with what it has collected so far. *)
LEMMA ReadStays ==
    ASSUME ClientInvariant, Reads, UNCHANGED <<todo, sent, caps, pinned, outcome, result>>,
           pinned # 0 => ~Alarm(Head(buffer)),
           Locals(got'), got'.validity \in {0, 1}, RowsOurs',
           secure => \A i \in DOMAIN got'.rows : got'.rows[i].tls,
           outcome = "Unknown" /\ got'.streamed => peer.lit # "none"
    PROVE  ClientInvariant'
<1>1. UNCHANGED <<mode, op, secure, tag, wire, peer>> /\ result = "running" /\ sent /\ buffer # <<>>
      /\ buffer' = Tail(buffer) /\ Kind' = Kind
  BY DEF Reads, Kind
<1>2. Kind # "Tls"
  BY <1>1 DEF ClientInvariant, Channel
<1>3. Position' /\ LoginReady'
  BY <1>1 DEF ClientInvariant, Position, LoginReady
<1>4. Appending'
  <2>1. \A i \in DOMAIN Coming' : i + 1 \in DOMAIN Coming /\ Coming'[i] = Coming[i + 1]
    BY <1>1, ComingShifts DEF ClientInvariant
  <2> QED BY <1>1, <2>1 DEF ClientInvariant, Appending
<1>5. /\ sent' \in BOOLEAN
      /\ caps' = [names |-> caps'.names, tls |-> caps'.tls] /\ caps'.tls \in BOOLEAN
  BY DEF ClientInvariant, Shapes
<1> QED BY <1>1, <1>2, <1>3, <1>4, <1>5, ReadsKeep

(* search() goes on with its literal. *)
LEMMA SearchGoesOn ==
    ASSUME ClientInvariant, Reads, Kind = "SearchText", todo' = [todo EXCEPT ![1] = "Search"],
           UNCHANGED <<sent, caps, pinned, got, outcome, result>>,
           pinned # 0 => ~Alarm(Head(buffer))
    PROVE  ClientInvariant'
<1>1. UNCHANGED <<mode, op, secure, tag, wire, peer>> /\ result = "running" /\ sent /\ buffer # <<>>
      /\ buffer' = Tail(buffer)
  BY DEF Reads
<1>2. op \notin {"connect", "draft"} /\ secure /\ pinned # 0 /\ outcome = "None"
  BY <1>1, WhatIsWritten DEF ClientInvariant, Appending
<1>3. todo \in Selected
  <2>1. todo \in Unselected => Kind # "SearchText"
    BY ScriptsUnselected DEF Kind
  <2> QED BY <1>1, <1>2, <2>1 DEF ClientInvariant, Position
<1>4. todo' \in Selected /\ Kind' = "Search"
  BY <1>3, ScriptsSelected DEF Kind
<1>5. Position' /\ LoginReady' /\ RowsOurs'
  BY <1>1, <1>2, <1>4 DEF ClientInvariant, Position, LoginReady, RowsOurs, Ours
<1>6. Appending'
  BY <1>1, <1>2, <1>4 DEF ClientInvariant, Appending
<1>7. /\ sent' \in BOOLEAN /\ Locals(got') /\ got'.validity \in {0, 1}
      /\ caps' = [names |-> caps'.names, tls |-> caps'.tls] /\ caps'.tls \in BOOLEAN
      /\ secure => \A i \in DOMAIN got'.rows : got'.rows[i].tls
  BY DEF ClientInvariant, Shapes, Unpinned, Channel
<1> QED BY <1>1, <1>4, <1>5, <1>6, <1>7, ReadsKeep

(* append() streams the message on the server's invitation. *)
LEMMA AppendReadKeeps ==
    ASSUME ClientInvariant, Reads, Kind = "Append", NEW r, r = Head(buffer), ~Alarm(r), AppendRead(r)
    PROVE  ClientInvariant'
<1>1. outcome = "Unknown" /\ result = "running" /\ secure /\ pinned # 0 /\ tag # 0
  BY WhatIsWritten DEF ClientInvariant, Appending, Tags, Reads
<1>2. /\ r.t = "cont" => peer.lit # "none"
      /\ r.t = "done" /\ r.x = tag => peer.cmd = "none"
      /\ r.t = "done" /\ r.x = tag /\ r.c = "NO" => peer.stored = 0
      /\ r.t = "done" /\ r.x = tag /\ r.c \notin {"NO", "APPENDUID-BAD"} =>
             peer.stored = 1 \/ peer.lit = "none"
  BY <1>1, FirstIs
<1>3. got.streamed => peer.lit # "none"
  BY <1>1 DEF ClientInvariant, Appending
<1>4. CASE got' = [got EXCEPT !.streamed = TRUE] /\ r.t = "cont"
           /\ UNCHANGED <<todo, sent, caps, pinned, outcome, result>>
  <2>1. /\ Locals(got) /\ got.validity \in {0, 1} /\ RowsOurs
        /\ secure => \A i \in DOMAIN got.rows : got.rows[i].tls
    BY DEF ClientInvariant, Shapes, Unpinned, Channel
  <2>2. got'.rows = got.rows /\ got'.validity = got.validity /\ Locals(got')
    BY <1>4, <2>1 DEF Locals
  <2>3. RowsOurs'
    BY <1>4, <2>1, <2>2 DEF RowsOurs, Ours
  <2> QED BY <1>1, <1>2, <1>4, <2>1, <2>2, <2>3, ReadStays
<1>5. CASE UNCHANGED <<todo, sent, caps, pinned, got, outcome, result>>
  <2>1. /\ Locals(got') /\ got'.validity \in {0, 1} /\ RowsOurs'
        /\ secure => \A i \in DOMAIN got'.rows : got'.rows[i].tls
    BY <1>5 DEF ClientInvariant, Shapes, Unpinned, Channel, RowsOurs, Ours
  <2> QED BY <1>1, <1>3, <1>5, <2>1, ReadStays
<1>6. CASE Fail("Protocol")
  BY <1>6, FailEnds
<1>7. CASE AppendCompletes(r) /\ AppendVerdict(r) # "Protocol"
           /\ outcome' = AppendVerdict(r) /\ result' = "ok"
           /\ UNCHANGED <<todo, sent, caps, pinned, got>>
  <2>1. r.t = "done" /\ r.x = tag
    BY <1>7 DEF AppendCompletes
  <2>2. \/ outcome' = "Rejected" /\ peer.stored = 0 /\ peer.cmd # "Append"
        \/ outcome' = "Created" /\ peer.stored = 1
    BY <1>2, <1>3, <1>7, <2>1 DEF AppendVerdict
  <2> QED BY <1>7, <2>2, ReadEnds
<1> QED BY <1>4, <1>5, <1>6, <1>7 DEF AppendRead

(* collect() fails, skips a response, notes a BYE, keeps a row, or completes. *)
LEMMA CollectCases ==
    ASSUME NEW r, Collect(r)
    PROVE  \/ \E error \in {"Protocol", "Authentication", "UnsafeSelection", "MessageNotFound",
                            "Eof", "Unsupported", "Limit"} : Fail(error)
           \/ /\ got' \in {got, [got EXCEPT !.bye = TRUE]}
              /\ UNCHANGED <<todo, sent, caps, pinned, outcome, result>>
           \/ /\ r.t # "done" /\ Row(Kind, r) = "keep" /\ got' = Kept(r)
              /\ UNCHANGED <<todo, sent, caps, pinned, outcome, result>>
           \/ r.t = "done" /\ Completion(Kind, r) = "done" /\ Finished(r)
<1> DEFINE verdict == IF r.t = "done" THEN Completion(Kind, r) ELSE Row(Kind, r)
           Errors == {"Protocol", "Authentication", "UnsafeSelection", "MessageNotFound",
                      "Eof", "Unsupported", "Limit"}
<1>1. Completion(Kind, r) \in Errors \cup {"done"}
  BY DEF Completion
<1>2. Row(Kind, r) \in Errors \cup {"keep", "skip", "bye"}
  BY DEF Row
<1>3. CASE verdict = "done"
  <2>1. r.t = "done" /\ Completion(Kind, r) = "done" /\ Finished(r)
    BY <1>2, <1>3 DEF Collect
  <2> QED BY <2>1
<1>4. CASE verdict = "keep"
  <2>1. r.t # "done" /\ Row(Kind, r) = "keep"
    BY <1>1, <1>4
  <2>2. got' = Kept(r) /\ UNCHANGED <<todo, sent, caps, pinned, outcome, result>>
    BY <1>4 DEF Collect
  <2> QED BY <2>1, <2>2
<1>5. CASE verdict = "bye"
  BY <1>5 DEF Collect
<1>6. CASE verdict = "skip"
  BY <1>6 DEF Collect
<1>7. CASE verdict \in Errors
  <2>1. Fail(verdict)
    BY <1>7 DEF Collect
  <2> QED BY <1>7, <2>1
<1> QED BY <1>1, <1>2, <1>3, <1>4, <1>5, <1>6, <1>7

(* A row that is kept is ours: nothing that revokes the selection came before it. *)
LEMMA KeepKeeps ==
    ASSUME ClientInvariant, Reads, NEW r, r = Head(buffer), CheckOutcome(r) = "fine", ~Alarm(r) \/ pinned = 0,
           r.t # "done", Row(Kind, r) = "keep", got' = Kept(r),
           UNCHANGED <<todo, sent, caps, pinned, outcome, result>>, Kind # "Append"
    PROVE  ClientInvariant'
<1>1. UNCHANGED <<mode, op, secure, tag, wire, peer>> /\ result = "running"
  BY DEF Reads
<1>2. /\ Locals(got) /\ got.validity \in {0, 1} /\ RowsOurs /\ got.rows \in Seq(Messages)
      /\ secure => \A i \in DOMAIN got.rows : got.rows[i].tls
      /\ pinned \in {0, 1} /\ outcome # "Unknown"
  BY <1>1 DEF ClientInvariant, Shapes, Unpinned, Channel, Appending, Locals
<1>3. /\ r \in Messages /\ (secure => r.tls) /\ (pinned # 0 /\ IsRow(r) => Ours(r))
      /\ r.t = "ok" /\ r.c = "UIDVALIDITY" /\ pinned = 0 => r.x \in {0, 1}
  BY FirstIs
<1>4. /\ got'.rows = Append(got.rows, r) /\ got'.streamed = got.streamed
      /\ got'.validity = IF r.t = "ok" /\ r.c = "UIDVALIDITY" THEN r.x ELSE got.validity
      /\ got' = [rows |-> got'.rows, uids |-> got'.uids, validity |-> got'.validity,
                bye |-> got'.bye, streamed |-> got'.streamed]
  BY <1>2 DEF Kept, Locals
<1>5. /\ got'.rows \in Seq(Messages)
      /\ DOMAIN got.rows = 1..Len(got.rows) /\ Len(got.rows) \in Nat
      /\ DOMAIN got'.rows = 1..Len(got.rows) + 1
      /\ \A i \in 1..Len(got.rows) : got'.rows[i] = got.rows[i]
      /\ got'.rows[Len(got.rows) + 1] = r
  <2>1. /\ Append(got.rows, r) \in Seq(Messages)
        /\ Len(Append(got.rows, r)) = Len(got.rows) + 1
        /\ \A i \in 1..Len(got.rows) : Append(got.rows, r)[i] = got.rows[i]
        /\ Append(got.rows, r)[Len(got.rows) + 1] = r
    BY <1>2, <1>3, AppendProperties
  <2>2. DOMAIN Append(got.rows, r) = 1..Len(Append(got.rows, r))
    BY <2>1, LenProperties
  <2> QED BY <1>2, <1>4, <2>1, <2>2, LenProperties
<1>6. \A i \in DOMAIN got'.rows : (i \in DOMAIN got.rows /\ got'.rows[i] = got.rows[i]) \/ got'.rows[i] = r
  <2> SUFFICES ASSUME NEW i \in 1..Len(got.rows) + 1, i \notin 1..Len(got.rows)
               PROVE  i = Len(got.rows) + 1
    BY <1>5
  <2> QED BY <1>5
<1>7. Locals(got') /\ (secure => \A i \in DOMAIN got'.rows : got'.rows[i].tls)
  BY <1>2, <1>3, <1>4, <1>5, <1>6 DEF Locals
<1>8. got'.validity \in {0, 1}
  <2>1. r.t = "ok" /\ r.c = "UIDVALIDITY" => r.x \in {0, 1}
    BY <1>2, <1>3 DEF CheckOutcome
  <2> QED BY <1>2, <1>4, <2>1
<1>9. r.t \in {"search", "fetch"} => Ours(r)
  <2> SUFFICES ASSUME r.t \in {"search", "fetch"} PROVE Ours(r)
    OBVIOUS
  <2>1. r.x # 0 /\ Kind \in {"Search", "Projection", "Body"}
    BY DEF Row
  <2>2. pinned # 0
    BY <1>1, <2>1, WhatIsWritten
  <2> QED BY <1>3, <2>1, <2>2 DEF IsRow
<1>10. RowsOurs'
  BY <1>1, <1>2, <1>6, <1>9 DEF RowsOurs, Ours
<1> QED BY <1>2, <1>7, <1>8, <1>10, ReadStays

(* Where the script stands after a command that completes. *)
LEMMA AdvancePosition ==
    ASSUME ClientInvariant, Reads, Advance, Kind \notin {"Append", "SearchText", "Examine"},
           UNCHANGED pinned
    PROVE  /\ Position' /\ result' \in {"running", "ready", "ok"}
           /\ result' = "running" /\ Kind' = "Tls" => Kind = "StartTls"
           /\ result' = "running" /\ op = "connect" /\ Kind' = "Login" =>
                  secure /\ Kind = "Capability" /\ NextStep = "Login"
<1>1. /\ UNCHANGED <<mode, op, secure, tag, wire, peer>> /\ result = "running" /\ sent
      /\ todo' = Tail(todo)
      /\ result' = IF Len(todo) > 1 THEN "running" ELSE IF op = "connect" THEN "ready" ELSE "ok"
  BY DEF Reads, Advance
<1>2. /\ op = "connect" => pinned = 0
      /\ Kind # "Tls"
  BY <1>1 DEF ClientInvariant, Position, Channel
<1>3. CASE op = "connect" /\ ~secure /\ todo \in Plaintext
  <2>1. /\ Len(todo) > 1 /\ todo' \in Plaintext /\ Kind' # "Login"
        /\ Kind' = "Tls" => Kind = "StartTls"
    BY <1>1, <1>2, <1>3, ScriptsBeforeTls DEF Kind
  <2> QED BY <1>1, <1>2, <1>3, <2>1 DEF Position
<1>4. CASE op = "connect" /\ secure /\ todo \in Encrypted
  <2>1. CASE Len(todo) = 1
    BY <1>1, <1>2, <1>4, <2>1 DEF Position
  <2>2. CASE Len(todo) > 1 /\ Tail(todo) \in Encrypted
    <3>1. Kind' \in {"Greeting", "Capability", "Login"} /\ Kind' = todo[2]
          /\ (todo[2] = "Login" => Kind = "Capability")
      BY <1>1, <1>4, <2>2, ScriptsBehindTls DEF Kind
    <3> QED BY <1>1, <1>2, <1>4, <2>2, <3>1 DEF Position, NextStep
  <2> QED BY <1>4, <2>1, <2>2, ScriptsBehindTls
<1>5. CASE op \notin {"connect", "draft"} /\ secure /\ pinned = 0 /\ todo \in Unselected
  <2>1. CASE Kind = "List"
    <3>1. Len(todo) > 1 /\ todo' \in Unselected /\ Kind' \in {"List", "Examine", "Logout"}
      BY <1>1, <1>5, <2>1, ScriptsUnselected DEF Kind
    <3> QED BY <1>1, <1>5, <3>1 DEF Position
  <2>2. CASE Kind = "Logout"
    <3>1. Len(todo) = 1
      BY <1>5, <2>2, ScriptsUnselected DEF Kind
    <3> QED BY <1>1, <1>5, <3>1 DEF Position
  <2> QED BY <1>5, <2>1, <2>2, ScriptsUnselected DEF Kind
<1>6. CASE op \notin {"connect", "draft"} /\ secure /\ pinned # 0 /\ todo \in Selected
  <2>1. CASE Len(todo) = 1
    BY <1>1, <1>6, <2>1 DEF Position
  <2>2. CASE Len(todo) > 1 /\ Tail(todo) \in Selected
    <3>1. Kind' # "Tls"
      BY <1>1, <2>2, ScriptsSelected DEF Kind
    <3> QED BY <1>1, <1>6, <2>2, <3>1 DEF Position
  <2> QED BY <1>6, <2>1, <2>2, ScriptsSelected DEF Kind
<1>7. op # "draft"
  BY <1>1, ScriptOfDraft DEF ClientInvariant, Position, Kind
<1> QED BY <1>1, <1>3, <1>4, <1>5, <1>6, <1>7 DEF ClientInvariant, Position

(* A command that selects nothing completes. *)
LEMMA AdvanceKeeps ==
    ASSUME ClientInvariant, Reads, Advance, Kind \notin {"Append", "SearchText", "Examine"},
           UNCHANGED pinned, pinned # 0 => ~Alarm(Head(buffer)),
           caps' = [names |-> caps'.names, tls |-> caps'.tls], caps'.tls \in BOOLEAN,
           Kind = "StartTls" => AdmissionEmpty,
           secure /\ Kind = "Capability" /\ NextStep = "Login" =>
               caps'.tls /\ "LOGINDISABLED" \notin caps'.names
    PROVE  ClientInvariant'
<1>1. /\ UNCHANGED <<mode, op, secure, tag, wire, peer, outcome>> /\ result = "running" /\ sent
      /\ buffer # <<>> /\ buffer' = Tail(buffer)
      /\ sent' = FALSE /\ got' = NothingGot
  BY DEF Reads, Advance
<1>2. /\ Position' /\ result' \in {"running", "ready", "ok"}
      /\ result' = "running" /\ Kind' = "Tls" => Kind = "StartTls"
      /\ result' = "running" /\ op = "connect" /\ Kind' = "Login" =>
             secure /\ Kind = "Capability" /\ NextStep = "Login"
  BY AdvancePosition
<1>3. /\ got'.rows = <<>> /\ ~got'.streamed /\ got'.validity = 0
      /\ Locals(got') /\ DOMAIN got'.rows = {}
  BY <1>1, NothingIsLocal
<1>4. LoginReady' /\ RowsOurs'
  BY <1>1, <1>2, <1>3 DEF LoginReady, RowsOurs
<1>5. Appending'
  BY <1>1, <1>2 DEF ClientInvariant, Appending
<1>6. result' = "running" /\ Kind' = "Tls" => buffer' = <<>>
  <2> SUFFICES ASSUME result' = "running", Kind' = "Tls" PROVE buffer' = <<>>
    OBVIOUS
  <2>1. Len(buffer) = 1
    BY <1>2 DEF AdmissionEmpty
  <2>2. buffer' \in Seq(Messages) /\ Len(buffer') = Len(buffer) - 1
    BY <1>1, ComingShifts DEF ClientInvariant
  <2> QED BY <2>1, <2>2, EmptySeq
<1> QED BY <1>1, <1>2, <1>3, <1>4, <1>5, <1>6, ReadsKeep

(* EXAMINE completes: the provider's own completion says that the mailbox is *)
(* read-only, and it stands behind it, for it is done and nothing of a       *)
(* selection can have come before.                                           *)
LEMMA ExamineKeeps ==
    ASSUME ClientInvariant, Reads, Advance, Kind = "Examine", NEW r, r = Head(buffer),
           r.t = "done", r.x = tag, r.c = "READ-ONLY", got.validity # 0,
           pinned' = got.validity, UNCHANGED caps
    PROVE  ClientInvariant'
<1> USE DEF ClientInvariant
<1>1. /\ UNCHANGED <<mode, op, secure, tag, wire, peer, outcome, caps>>
      /\ result = "running" /\ sent /\ buffer # <<>> /\ buffer' = Tail(buffer)
      /\ responses # MaxResponses /\ responses' = responses + 1 /\ taken' = taken + 1
      /\ sent' = FALSE /\ got' = NothingGot /\ todo' = Tail(todo)
      /\ result' = IF Len(todo) > 1 THEN "running" ELSE IF op = "connect" THEN "ready" ELSE "ok"
  BY DEF Reads, Advance
<1>2. /\ buffer' \in Seq(Messages) /\ Len(buffer') = Len(buffer) - 1
      /\ Len(buffer) \in Nat \ {0}
      /\ DOMAIN Coming' = 1..(Len(Coming) - 1)
      /\ \A i \in DOMAIN Coming' : i + 1 \in DOMAIN Coming /\ Coming'[i] = Coming[i + 1]
  BY <1>1, ComingShifts
<1>3. /\ got'.rows = <<>> /\ ~got'.streamed /\ got'.validity = 0
      /\ Locals(got') /\ DOMAIN got'.rows = {}
  BY <1>1, NothingIsLocal
<1>4. pinned = 0 /\ pinned' = 1 /\ got.validity = 1
  BY <1>1, WhatIsWritten DEF Unpinned
<1>5. op # "connect" /\ secure
  <2>1. todo \in Plaintext => Kind # "Examine"
    BY ScriptsBeforeTls DEF Kind
  <2>2. todo \in Encrypted => Kind # "Examine"
    BY ScriptsBehindTls DEF Kind
  <2> QED BY <1>1, <2>1, <2>2 DEF Position
<1>6. tag # 0 /\ peer.tag = tag
  BY <1>1 DEF Tags
<1>7. peer.cmd = "none" /\ peer.ro /\ peer.inc = 1
  BY <1>4, <1>5, <1>6, FirstIs DEF Unpinned
<1>8. /\ op = "draft" => todo' = <<"Append">>
      /\ op # "draft" => todo' \in Selected
      /\ result' = "running"
  <2>1. CASE todo \in Unselected /\ op # "draft"
    BY <1>1, <2>1, ScriptsUnselected DEF Kind
  <2>2. CASE todo = DraftScript /\ op = "draft"
    BY <1>1, <2>2, ScriptOfDraft DEF Kind
  <2> QED BY <1>1, <1>4, <1>5, <2>1, <2>2 DEF Position
<1>9. Shapes'
  <2>1. Len(wire') + Len(buffer') <= MaxQueue
    <3>1. Len(wire) \in Nat
      BY LenProperties DEF Shapes
    <3> QED BY <1>1, <1>2, <3>1, ClientAssumption DEF Shapes
  <2> QED BY <1>1, <1>2, <1>3, <2>1 DEF Shapes
<1>10. Position' /\ LoginReady' /\ RowsOurs'
  BY <1>1, <1>3, <1>4, <1>5, <1>8 DEF Position, LoginReady, RowsOurs
<1>11. Budget'
  BY <1>1, ClientAssumption DEF Budget
<1>12. Kind' # "Tls"
  <2>1. todo' \in Selected => Kind' # "Tls"
    BY ScriptsSelected DEF Kind
  <2> QED BY <1>8, <2>1, ScriptOfDraft DEF Kind
<1>13. Channel'
  BY <1>1, <1>2, <1>3, <1>12 DEF Channel
<1>14. Tags'
  <2>1. \A i \in DOMAIN Coming' : Coming'[i].t = "done" => Coming'[i].x <= tag
    BY <1>2 DEF Tags
  <2> QED BY <1>1, <1>6, <1>7, <2>1 DEF Tags
<1>15. Unpinned'
  BY <1>3, <1>4 DEF Unpinned
<1>16. Selection'
  <2>1. \A i \in DOMAIN Coming' : ~IsRow(Coming'[i])
    BY <1>2, <1>4 DEF Unpinned, IsRow
  <2> QED BY <1>1, <1>4, <1>7, <2>1 DEF Selection, IsRow
<1>17. outcome = "None"
  BY <1>1 DEF Appending
<1>18. Literal'
  <2>1. op \in {"connect", "draft"} => \A i \in DOMAIN Coming' : Coming'[i].t # "cont"
    BY <1>2, <1>17 DEF Literal
  <2> QED BY <1>1, <1>7, <1>17, <2>1 DEF Literal
<1>19. Appending'
  BY <1>1, <1>8, <1>17 DEF Appending
<1> QED BY <1>9, <1>10, <1>11, <1>13, <1>14, <1>15, <1>16, <1>18, <1>19

(* A command completes: authentication learns capabilities, upgrades only    *)
(* with an empty buffer, and EXAMINE pins the mailbox.                       *)
LEMMA FinishedKeeps ==
    ASSUME ClientInvariant, Reads, NEW r, r = Head(buffer), ~Alarm(r) \/ pinned = 0,
           Kind \notin {"Append", "SearchText"},
           r.t = "done", Completion(Kind, r) = "done", Finished(r)
    PROVE  ClientInvariant'
<1>1. /\ caps = [names |-> caps.names, tls |-> caps.tls] /\ caps.tls \in BOOLEAN
      /\ got.rows \in Seq(Messages) /\ (secure => \A i \in DOMAIN got.rows : got.rows[i].tls)
      /\ result = "running"
  BY DEF ClientInvariant, Shapes, Locals, Channel, Reads
<1>2. CASE Kind = "Capability"
  <2>1. CASE Fail("Protocol") \/ Fail("Unsupported")
    BY <2>1, FailEnds
  <2>2. CASE /\ Len(got.rows) = 1 /\ RequireCaps(got.rows[1].c, NextStep)
             /\ Advance /\ UNCHANGED pinned
             /\ caps' = [names |-> got.rows[1].c, tls |-> got.rows[1].tls]
    <3>1. 1 \in DOMAIN got.rows /\ got.rows[1] \in Messages
      BY <1>1, <2>2, LenProperties, ElementOfSeq
    <3>2. caps'.tls = got.rows[1].tls /\ caps'.names = got.rows[1].c /\ caps'.tls \in BOOLEAN
          /\ caps' = [names |-> caps'.names, tls |-> caps'.tls]
      BY <2>2, <3>1 DEF Messages
    <3>3. secure /\ NextStep = "Login" => caps'.tls /\ "LOGINDISABLED" \notin caps'.names
      BY <1>1, <2>2, <3>1, <3>2 DEF RequireCaps
    <3> QED BY <1>2, <2>2, <3>2, <3>3, AdvanceKeeps
  <2> QED BY <1>2, <2>1, <2>2 DEF Finished
<1>3. CASE Kind = "StartTls"
  <2>1. CASE Fail("Protocol")
    BY <2>1, FailEnds
  <2>2. CASE AdmissionEmpty /\ Advance /\ UNCHANGED <<caps, pinned>>
    BY <1>1, <1>3, <2>2, AdvanceKeeps
  <2> QED BY <1>3, <2>1, <2>2 DEF Finished
<1>4. CASE Kind = "Examine"
  <2>1. CASE Fail("Protocol")
    BY <2>1, FailEnds
  <2>2. CASE Advance /\ pinned' = got.validity /\ UNCHANGED caps
    <3>1. r.x = tag /\ r.c = "READ-ONLY" /\ got.validity # 0
      BY <1>4 DEF Completion
    <3> QED BY <1>4, <2>2, <3>1, ExamineKeeps
  <2> QED BY <1>4, <2>1, <2>2 DEF Finished
<1>5. CASE Kind \notin {"Capability", "StartTls", "Examine"}
  <2>1. Advance /\ UNCHANGED <<caps, pinned>>
    BY <1>5 DEF Finished
  <2> QED BY <1>1, <1>5, <2>1, AdvanceKeeps
<1> QED BY <1>2, <1>3, <1>4, <1>5

LEMMA CollectKeeps ==
    ASSUME ClientInvariant, Reads, NEW r, r = Head(buffer), CheckOutcome(r) = "fine",
           ~Alarm(r) \/ pinned = 0, Kind \notin {"Append", "SearchText"}, Collect(r)
    PROVE  ClientInvariant'
<1>1. CASE \E error \in {"Protocol", "Authentication", "UnsafeSelection", "MessageNotFound",
                         "Eof", "Unsupported", "Limit"} : Fail(error)
  BY <1>1, FailEnds
<1>2. CASE /\ got' \in {got, [got EXCEPT !.bye = TRUE]}
           /\ UNCHANGED <<todo, sent, caps, pinned, outcome, result>>
  <2>1. /\ Locals(got) /\ got.validity \in {0, 1} /\ RowsOurs
        /\ secure => \A i \in DOMAIN got.rows : got.rows[i].tls
        /\ outcome # "Unknown"
    BY DEF ClientInvariant, Shapes, Unpinned, Channel, Appending, Reads
  <2>2. got'.rows = got.rows /\ got'.validity = got.validity /\ Locals(got')
    BY <1>2, <2>1 DEF Locals
  <2>3. RowsOurs'
    BY <1>2, <2>1, <2>2 DEF RowsOurs, Ours
  <2> QED BY <1>2, <2>1, <2>2, <2>3, ReadStays
<1>3. CASE /\ r.t # "done" /\ Row(Kind, r) = "keep" /\ got' = Kept(r)
           /\ UNCHANGED <<todo, sent, caps, pinned, outcome, result>>
  BY <1>3, KeepKeeps
<1>4. CASE r.t = "done" /\ Completion(Kind, r) = "done" /\ Finished(r)
  BY <1>4, FinishedKeeps
<1> QED BY <1>1, <1>2, <1>3, <1>4, CollectCases

LEMMA DispatchKeeps ==
    ASSUME ClientInvariant, Reads, NEW r, r = Head(buffer), CheckOutcome(r) = "fine", Dispatch(r)
    PROVE  ClientInvariant'
<1>1. pinned # 0 => ~Alarm(r)
  BY DEF CheckOutcome, Alarm
<1>2. caps = [names |-> caps.names, tls |-> caps.tls] /\ caps.tls \in BOOLEAN
      /\ result = "running"
  BY DEF ClientInvariant, Shapes, Reads
<1>3. CASE Kind = "Greeting"
  <2>1. CASE Fail("Protocol")
    BY <2>1, FailEnds
  <2>2. CASE Advance /\ UNCHANGED <<caps, pinned>>
    BY <1>1, <1>2, <1>3, <2>2, AdvanceKeeps
  <2> QED BY <1>3, <2>1, <2>2 DEF Dispatch
<1>4. CASE Kind = "SearchText"
  <2>1. CASE Fail("Protocol")
    BY <2>1, FailEnds
  <2>2. CASE todo' = [todo EXCEPT ![1] = "Search"]
             /\ UNCHANGED <<sent, caps, pinned, got, outcome, result>>
    BY <1>1, <1>4, <2>2, SearchGoesOn
  <2> QED BY <1>4, <2>1, <2>2 DEF Dispatch
<1>5. CASE Kind = "Append"
  <2>1. pinned # 0 /\ AppendRead(r)
    BY <1>2, <1>5, WhatIsWritten DEF Dispatch
  <2> QED BY <1>1, <1>5, <2>1, AppendReadKeeps
<1>6. CASE Kind \notin {"Greeting", "SearchText", "Append"}
  <2>1. Collect(r)
    BY <1>6 DEF Dispatch
  <2> QED BY <1>1, <1>6, <2>1, CollectKeeps
<1> QED BY <1>3, <1>4, <1>5, <1>6

LEMMA ReadKeeps ==
    ASSUME ClientInvariant, Read
    PROVE  ClientInvariant'
<1>1. /\ result = "running" /\ sent /\ buffer # <<>>
      /\ UNCHANGED <<mode, op, secure, tag, wire, peer>>
  BY DEF Read
<1>2. CASE OverBudget /\ Fail("Limit") /\ UNCHANGED <<responses, taken, buffer>>
  <2>1. /\ UNCHANGED <<mode, op, todo, sent, secure, caps, tag, pinned, got, responses, taken,
                       buffer, wire, outcome, peer>>
        /\ result' = "Limit" /\ Coming' = Coming
    BY <1>1, <1>2 DEF Fail, Coming
  <2> USE DEF ClientInvariant
  <2>2. Shapes' /\ Position' /\ LoginReady' /\ RowsOurs' /\ Budget'
    BY <2>1 DEF Shapes, Position, LoginReady, Kind, RowsOurs, Ours, Budget
  <2>3. Channel' /\ Tags'
    BY <2>1 DEF Channel, Tags, Kind
  <2>4. Unpinned' /\ Selection'
    BY <2>1 DEF Unpinned, Selection, IsRow, Ours, Alarm
  <2>5. Literal' /\ Appending'
    BY <2>1 DEF Literal, Appending, Kind
  <2> QED BY <2>2, <2>3, <2>4, <2>5
<1>3. CASE ~OverBudget
  <2> DEFINE r == Head(buffer)
  <2>1. Reads
    BY <1>1, <1>3 DEF Read, OverBudget, Reads
  <2>2. IF CheckOutcome(r) # "fine" THEN Fail(CheckOutcome(r)) ELSE Dispatch(r)
    BY <1>3 DEF Read
  <2>3. CheckOutcome(r) \in {"fine", "UnsafeSelection", "Unsupported"}
    BY DEF CheckOutcome
  <2> HIDE DEF r
  <2>4. r = Head(buffer)
    BY DEF r
  <2>5. CASE CheckOutcome(r) # "fine"
    BY <2>1, <2>2, <2>3, <2>5, FailEnds
  <2>6. CASE CheckOutcome(r) = "fine"
    BY <2>1, <2>2, <2>4, <2>6, DispatchKeeps
  <2> QED BY <2>5, <2>6
<1> QED BY <1>2, <1>3 DEF Read
-----------------------------------------------------------------------------
LEMMA ConnectionStarts ==
    ASSUME Init
    PROVE  ClientInvariant
<1>1. <<>> \in Seq(Messages) /\ Len(<<>>) = 0 /\ <<>> \o <<>> = <<>>
  BY EmptySeq, LenProperties, ConcatEmptySeq
<1>2. Coming = <<>> /\ DOMAIN Coming = {}
  <2>1. Coming = <<>>
    BY <1>1 DEF Init, Coming
  <2>2. DOMAIN <<>> = 1..0 /\ 1..0 = {}
    BY <1>1, LenProperties
  <2> QED BY <2>1, <2>2
<1>3. /\ got.rows = <<>> /\ ~got.streamed /\ got.validity = 0 /\ Locals(got)
      /\ DOMAIN got.rows = {}
  BY NothingIsLocal DEF Init
<1>4. Kind = "Greeting" /\ (~secure => todo \in Plaintext) /\ (secure => todo \in Encrypted)
  <2>1. CASE mode = "StartTls"
    <3>1. todo = <<"Greeting", "Capability", "StartTls", "Tls", "Capability", "Login", "Capability">>
          /\ ~secure
      BY <2>1 DEF Init, AuthScript
    <3> QED BY <3>1 DEF Plaintext, Kind
  <2>2. CASE mode = "Implicit"
    <3>1. todo = <<"Greeting", "Capability", "Login", "Capability">> /\ secure
      BY <2>2 DEF Init, AuthScript
    <3> QED BY <3>1 DEF Encrypted, Kind
  <2> QED BY <2>1, <2>2, ClientAssumption DEF Init
<1>5. Shapes
  <2>1. 1 \in 1..MaxInc /\ 0 + 0 <= MaxQueue
    BY ClientAssumption
  <2> QED BY <1>1, <1>3, <2>1 DEF Init, Shapes, Commands
<1>6. Position /\ Budget
  BY <1>4, ClientAssumption DEF Init, Position, Budget
<1>7. Channel /\ LoginReady /\ RowsOurs
  BY <1>2, <1>3, <1>4 DEF Channel, LoginReady, RowsOurs
<1>8. Tags /\ Unpinned /\ Selection
  BY <1>2, <1>3, <1>4 DEF Init, Tags, Unpinned, Selection
<1>9. Literal /\ Appending
  BY <1>2, <1>3, <1>4 DEF Init, Literal, Appending
<1> QED BY <1>5, <1>6, <1>7, <1>8, <1>9 DEF ClientInvariant

LEMMA ConversationGoesOn ==
    ASSUME ClientInvariant, [Step]_vars
    PROVE  ClientInvariant'
<1>1. CASE UNCHANGED vars
  <2>1. /\ UNCHANGED <<mode, op, todo, sent, secure, caps, tag, pinned, got, responses, taken,
                       buffer, wire, outcome, result, peer>>
        /\ Coming' = Coming
    BY <1>1 DEF vars, Coming
  <2> USE DEF ClientInvariant
  <2>2. Shapes' /\ Position' /\ LoginReady' /\ RowsOurs' /\ Budget'
    BY <2>1 DEF Shapes, Position, LoginReady, Kind, RowsOurs, Ours, Budget
  <2>3. Channel' /\ Tags'
    BY <2>1 DEF Channel, Tags, Kind
  <2>4. Unpinned' /\ Selection'
    BY <2>1 DEF Unpinned, Selection, IsRow, Ours, Alarm
  <2>5. Literal' /\ Appending'
    BY <2>1 DEF Literal, Appending, Kind
  <2> QED BY <2>2, <2>3, <2>4, <2>5
<1>2. CASE WriteCommand \/ WriteAppend
  BY <1>2, WriteCommandKeeps, WriteAppendKeeps
<1>3. CASE Fill \/ Read \/ Stream \/ Handshake
  BY <1>3, FillKeeps, ReadKeeps, StreamKeeps, HandshakeKeeps
<1>4. CASE Begin \/ Cut
  BY <1>4, BeginKeeps, CutKeeps
<1>5. CASE Anybody \/ ProviderRow \/ ProviderDone \/ Chatter \/ Store \/ Reselect
  BY <1>5, AnybodyKeeps, ProviderRowKeeps, ProviderDoneKeeps, ChatterKeeps, StoreKeeps, ReselectKeeps
<1> QED BY <1>1, <1>2, <1>3, <1>4, <1>5 DEF Step, Rest

LEMMA InvariantIsSafe ==
    ASSUME ClientInvariant
    PROVE  ConversationSafe
<1> USE DEF ClientInvariant
<1>1. /\ DOMAIN buffer = 1..Len(buffer) /\ DOMAIN got.rows = 1..Len(got.rows)
      /\ \A i \in DOMAIN buffer : i \in DOMAIN Coming /\ Coming[i] = buffer[i]
  BY ComingIs, LenProperties DEF Shapes, Locals
<1>2. TypeOK
  BY ClientAssumption DEF TypeOK, Shapes, Unpinned, Appending, Budget
<1>3. PlaintextForgotten
  BY <1>1 DEF PlaintextForgotten, Channel
<1>4. LoginPermitted
  BY DEF LoginPermitted, LoginReady
<1>5. ReadOnlyRows /\ OneIncarnation
  BY <1>1 DEF ReadOnlyRows, OneIncarnation, SelectedRows, RowsOurs, Ours
<1>6. AppendTruthful
  <2>1. peer.stored \in {0, 1}
    BY DEF Shapes
  <2> QED BY <2>1 DEF AppendTruthful, Literal, Appending
<1>7. BudgetCarried
  BY ClientAssumption DEF BudgetCarried, Budget
<1> QED BY <1>2, <1>3, <1>4, <1>5, <1>6, <1>7 DEF ConversationSafe

(* Whatever the server and whoever is between say, in any order and number, *)
(* and wherever the operation is cut short: plaintext is forgotten when TLS  *)
(* starts, LOGIN leaves only behind TLS and where the server permits it, the *)
(* response budget is one budget for the authentication, rows come from the  *)
(* pinned mailbox while it is read-only, and an APPEND is reported as what   *)
(* the server may have done (imap.rs, imap/wire.rs, imap/append.rs).         *)
THEOREM ConversationStaysSafe == Spec => []ConversationSafe
<1>1. Init => ClientInvariant
  BY ConnectionStarts
<1>2. ClientInvariant /\ [Step]_vars => ClientInvariant'
  BY ConversationGoesOn
<1>3. ClientInvariant => ConversationSafe
  BY InvariantIsSafe
<1> QED BY <1>1, <1>2, <1>3, PTL DEF Spec

-----------------------------------------------------------------------------
(* Searches in pages. *)

(* Returned pairs of UIDVALIDITY and UID: they go down, all of one UIDVALIDITY,
   and stay above a UID. *)
Down(seen) == \A i, j \in DOMAIN seen : i < j => seen[i][2] > seen[j][2]
OfOne(seen, v) == \A i \in DOMAIN seen : seen[i][1] = v
Over(seen, u) == \A i \in DOMAIN seen : seen[i][2] > u
(* The same of plain UIDs. *)
Falls(uids) == \A i, j \in DOMAIN uids : i < j => uids[i] > uids[j]
Above(uids, u) == \A i \in DOMAIN uids : uids[i] > u

Returned == Seq(Nat \X Nat)
CallRecords ==
    [pc : {"search", "fetch"}, question : Questions, limit : Nat \ {0},
     position : SearchPositions, windows : Nat, uids : Seq(Nat), messages : Seq(Nat),
     seen : Returned, owed : SUBSET Nat, resumed : Nat]
CursorRecords ==
    [question : Questions, position : SearchPositions, seen : Returned, owed : SUBSET Nat]

SearchTyped ==
    /\ validity \in Nat /\ uidNext \in Nat \ {0}
    /\ DOMAIN hits \subseteq 1 .. (uidNext - 1)
    /\ call # None => call \in CallRecords
    /\ cursors \subseteq CursorRecords
    /\ last # None => last \in [seen : Returned, owed : SUBSET Nat]

(* What a traversal still owes is there and matches its search. *)
OwedMatch(t) ==
    \A u \in t.owed : u \in Present /\ Search(t.question, t.position.fuzzy) \in hits[u]

(* A cursor stands below all that its traversal has returned, and not below
   what it owes; one of another incarnation owes nothing. *)
CursorSound(c) ==
    /\ Down(c.seen) /\ OfOne(c.seen, c.position.uid_validity)
    /\ Over(c.seen, c.position.next_uid)
    /\ c.position.uid_validity <= validity
    /\ c.position.uid_validity # validity => c.owed = {}
    /\ OwedMatch(c)
    /\ ~faulty => \A u \in c.owed : u <= c.position.next_uid

(* A request: what was returned before it, its messages, the UIDs it is about
   to fetch and what it has not looked at follow each other downwards, and what is
   owed is in the last three. *)
Layered(k) ==
    /\ k.position.uid_validity = validity
    /\ Down(k.seen) /\ OfOne(k.seen, validity) /\ Over(k.seen, k.position.next_uid)
    /\ Falls(k.messages) /\ Above(k.messages, k.position.next_uid)
    /\ Falls(k.uids) /\ Above(k.uids, k.position.next_uid)
    /\ \A i \in DOMAIN k.messages : Over(k.seen, k.messages[i])
    /\ \A i \in DOMAIN k.uids : Over(k.seen, k.uids[i]) /\ Above(k.messages, k.uids[i])
    /\ k.pc = "search" => k.uids = <<>>
Owing(k) ==
    /\ OwedMatch(k)
    /\ ~faulty => \A u \in k.owed :
           u <= k.position.next_uid \/ u \in Among(k.messages) \/ u \in Among(k.uids)
Moving(k) ==
    k.resumed # 0 =>
        \/ k.position.next_uid < k.resumed
        \/ /\ k.position.next_uid = k.resumed /\ k.windows = Windows
           /\ k.messages = <<>> /\ k.pc = "search"
CallSound(k) == Layered(k) /\ Owing(k) /\ Moving(k)

EndSound ==
    last # None =>
        /\ Down(last.seen) /\ \E v \in Nat : OfOne(last.seen, v)
        /\ ~faulty => last.owed = {}

SearchInvariant ==
    /\ SearchTyped
    /\ call # None => CallSound(call)
    /\ \A c \in cursors : CursorSound(c)
    /\ EndSound

-----------------------------------------------------------------------------
LEMMA InvariantIsExact ==
    ASSUME SearchInvariant
    PROVE  NoRepeats /\ NoneMissed /\ OneMailbox
<1>1. \A t \in Traversals : Down(t.seen) /\ \E v : OfOne(t.seen, v)
  BY DEF SearchInvariant, EndSound, Traversals, CursorSound
<1>2. NoRepeats
  BY <1>1 DEF NoRepeats, Down, SearchInvariant, CursorSound, Over
<1>3. OneMailbox
  BY <1>1 DEF OneMailbox, OfOne
<1>4. NoneMissed
  BY DEF NoneMissed, SearchInvariant, EndSound
<1> QED BY <1>2, <1>3, <1>4

LEMMA SearchStarts ==
    ASSUME SearchAssumption, SearchInit
    PROVE  SearchInvariant
BY DEF SearchAssumption, SearchInit, SearchInvariant, SearchTyped, EndSound

(* A list of numbers that descends. *)
LEMMA DescendingFacts ==
    ASSUME SearchAssumption, NEW S, S \subseteq Nat, NEW s \in Descending(S)
    PROVE  /\ s \in Seq(Nat) /\ DOMAIN s = 1 .. Len(s) /\ Len(s) \in Nat
           /\ \A i \in DOMAIN s : s[i] \in S /\ s[i] \in Nat
           /\ \A u \in S : \E i \in DOMAIN s : s[i] = u
           /\ Falls(s) /\ Among(s) = S
<1>1. PICK n \in 0 .. MaxUid : s \in [1 .. n -> S]
  BY DEF Descending, Lists
<1>2. n \in Nat /\ s \in [1 .. n -> Nat]
  <2>1. n \in Nat
    BY DEF SearchAssumption
  <2>2. \A i \in 1 .. n : s[i] \in Nat
    BY <1>1
  <2> QED BY <1>1, <2>1, <2>2
<1>3. s \in Seq(Nat) /\ Len(s) = n /\ DOMAIN s = 1 .. n
  BY <1>2
<1>4. Among(s) = S /\ Falls(s)
  BY DEF Descending, Falls
<1> QED BY <1>2, <1>3, <1>4 DEF Among

(* What the server's answer can be. *)
LEMMA TruthIsAnswered ==
    ASSUME NEW S, NEW answer \in Answers(S), ~faulty
    PROVE  Among(answer) = S
BY DEF Answers, Listings

-----------------------------------------------------------------------------
(* What changes neither the mailbox nor the cursors only has to give the request
   its properties. *)
LEMMA CallChanges ==
    ASSUME SearchInvariant, UNCHANGED <<boxVars, cursors, last>>,
           call' # None => call' \in CallRecords /\ CallSound(call')
    PROVE  SearchInvariant'
<1>1. UNCHANGED <<validity, uidNext, hits, faulty>>
  BY DEF boxVars
<1>2. SearchTyped'
  BY <1>1 DEF SearchInvariant, SearchTyped
<1>3. call' # None => CallSound(call)'
  BY <1>1 DEF CallSound, Layered, Owing, OwedMatch, Moving, Present
<1>4. \A c \in cursors' : CursorSound(c)'
  BY <1>1 DEF SearchInvariant, CursorSound, OwedMatch, Present
<1>5. EndSound'
  BY <1>1 DEF SearchInvariant, EndSound
<1> QED BY <1>2, <1>3, <1>4, <1>5 DEF SearchInvariant

LEMMA FirstPageKeeps ==
    ASSUME SearchAssumption, SearchInvariant, NEW question \in Questions,
           NEW limit \in 1 .. PageLimit, FirstPage(question, limit)
    PROVE  SearchInvariant'
<1>1. PICK upper \in UpperUids :
         call' = Start(question, limit,
                       [uid_validity |-> validity, upper_uid |-> upper, next_uid |-> upper,
                        fuzzy |-> FuzzyApplies(question)],
                       <<>>, Matching(1 .. upper, Search(question, FuzzyApplies(question))), 0)
  BY DEF FirstPage
<1>2. upper \in Nat /\ validity \in Nat /\ limit \in Nat \ {0} /\ Windows \in Nat
  BY DEF UpperUids, SearchInvariant, SearchTyped, Present, SearchAssumption
<1>3. FuzzyApplies(question) \in BOOLEAN
  BY DEF FuzzyApplies
<1>4. call' \in CallRecords
  BY <1>1, <1>2, <1>3 DEF Start, CallRecords, Returned, SearchPositions, Matching
<1>5. CallSound(call')
  BY <1>1, <1>2 DEF Start, CallSound, Layered, Owing, OwedMatch, Moving, Matching, Down, OfOne,
         Over, Falls, Above
<1> QED BY <1>4, <1>5, CallChanges DEF FirstPage, boxVars

LEMMA LaterPageKeeps ==
    ASSUME SearchAssumption, SearchInvariant, NEW question \in Questions,
           NEW limit \in 1 .. PageLimit, LaterPage(question, limit)
    PROVE  SearchInvariant'
<1>1. PICK c \in cursors :
         /\ Resumable(c, question)
         /\ call' = Start(question, limit, c.position, c.seen, c.owed, c.position.next_uid)
  BY DEF LaterPage
<1>2. c \in CursorRecords /\ CursorSound(c)
  BY DEF SearchInvariant, SearchTyped
<1>3. limit \in Nat \ {0} /\ Windows \in Nat
  BY DEF SearchAssumption
<1>4. call' \in CallRecords
  BY <1>1, <1>2, <1>3 DEF Start, CallRecords, CursorRecords, Returned, SearchPositions
<1>5. CallSound(call')
  BY <1>1, <1>2 DEF Start, CallSound, Layered, Owing, OwedMatch, Moving, CursorSound, Resumable,
         Falls, Above, Over
<1> QED BY <1>4, <1>5, CallChanges DEF LaterPage, boxVars

(* page(), one window: what is found in it goes down from the position, and the
   new position is below all that is kept and at or above all that is not. *)
Vacant == call.limit - Len(call.messages)
Reported(found) == SubSeq(found, 1, IF Len(found) > Vacant THEN Vacant ELSE Len(found))

LEMMA WindowFacts ==
    ASSUME SearchAssumption, SearchInvariant, call # None, More,
           NEW S, S \subseteq First .. call.position.next_uid, NEW found \in Descending(S)
    PROVE  /\ Reported(found) \in Seq(Nat) /\ Falls(Reported(found))
           /\ NextUid(found, Vacant) \in Nat
           /\ NextUid(found, Vacant) < call.position.next_uid
           /\ Above(Reported(found), NextUid(found, Vacant))
           /\ \A i \in DOMAIN Reported(found) : Reported(found)[i] <= call.position.next_uid
           /\ \A u \in S : u \in Among(Reported(found)) \/ u <= NextUid(found, Vacant)
           /\ \A u \in Nat : u < First => u <= NextUid(found, Vacant)
<1> DEFINE next == call.position.next_uid
           remaining == Vacant
           uids == Reported(found)
<1>1. call \in CallRecords
  BY DEF SearchInvariant, SearchTyped
<1>2. next \in Nat /\ next # 0 /\ remaining \in Nat \ {0}
  BY <1>1 DEF CallRecords, SearchPositions, More, Vacant
<1>3. First \in Nat \ {0} /\ First <= next
  BY <1>2 DEF First, SearchAssumption
<1>4. S \subseteq Nat
  BY <1>2, <1>3
<1>5. /\ found \in Seq(Nat) /\ DOMAIN found = 1 .. Len(found) /\ Len(found) \in Nat
      /\ \A i \in DOMAIN found : found[i] \in S /\ found[i] \in Nat
      /\ \A u \in S : \E i \in DOMAIN found : found[i] = u
      /\ Falls(found)
  BY <1>4, DescendingFacts
<1>6. PICK n \in Nat : /\ n <= Len(found) /\ uids = SubSeq(found, 1, n)
                       /\ n = IF Len(found) > remaining THEN remaining ELSE Len(found)
  <2>1. uids = SubSeq(found, 1, IF Len(found) > remaining THEN remaining ELSE Len(found))
    BY DEF Reported
  <2>2. CASE Len(found) > remaining
    BY <1>2, <1>5, <2>1, <2>2
  <2>3. CASE ~(Len(found) > remaining)
    <3>1. Len(found) \in Nat /\ Len(found) <= Len(found)
      BY <1>5
    <3> WITNESS Len(found) \in Nat
    <3> QED BY <2>1, <2>3, <3>1
  <2> QED BY <2>2, <2>3
<1> HIDE DEF remaining, uids
<1>7. found \in Seq(Nat) /\ Len(found) \in Nat
  BY <1>5
<1>8. /\ uids \in Seq(Nat) /\ DOMAIN uids = 1 .. n
      /\ \A i \in 1 .. n : uids[i] = found[i]
  BY <1>6, <1>7
<1>9. \A i \in DOMAIN uids : i \in DOMAIN found /\ uids[i] = found[i] /\ i \in Nat
  <2>1. \A i \in 1 .. n : i \in 1 .. Len(found) /\ i \in Nat
    BY <1>7, <1>6
  <2> QED BY <1>5, <1>8, <2>1
<1>10. \A i \in DOMAIN uids : uids[i] \in First .. next
  BY <1>5, <1>9
<1>11. Falls(uids) /\ \A i \in DOMAIN uids : uids[i] <= next
  <2>1. Falls(uids)
    BY <1>5, <1>9 DEF Falls
  <2> QED BY <1>2, <1>3, <1>10, <2>1
<1>12. CASE Len(found) > remaining
  <2>1. /\ n = remaining /\ remaining \in DOMAIN found
        /\ NextUid(found, remaining) = found[remaining] - 1
    BY <1>2, <1>5, <1>6, <1>12 DEF NextUid, remaining
  <2>2. found[remaining] \in First .. next
    BY <1>5, <2>1
  <2>3. \A i \in DOMAIN uids : uids[i] >= found[remaining]
    <3> SUFFICES ASSUME NEW i \in DOMAIN uids PROVE uids[i] >= found[remaining]
      OBVIOUS
    <3>1. i \in DOMAIN found /\ uids[i] = found[i] /\ i <= remaining
      BY <1>2, <1>8, <1>9, <2>1
    <3>2. i = remaining \/ found[i] > found[remaining]
      BY <1>2, <1>5, <2>1, <3>1 DEF Falls
    <3> QED BY <1>5, <2>1, <3>1, <3>2
  <2>4. \A u \in S : u \in Among(uids) \/ u < found[remaining]
    <3> SUFFICES ASSUME NEW u \in S PROVE u \in Among(uids) \/ u < found[remaining]
      OBVIOUS
    <3>1. PICK i \in DOMAIN found : found[i] = u
      BY <1>5
    <3>2. CASE i <= remaining
      <4>1. i \in DOMAIN uids /\ uids[i] = u
        <5>1. i \in 1 .. n
          BY <1>2, <1>5, <2>1, <3>1, <3>2
        <5> QED BY <1>8, <3>1, <5>1
      <4> QED BY <4>1 DEF Among
    <3>3. CASE i > remaining
      BY <1>2, <1>5, <2>1, <3>1, <3>3 DEF Falls
    <3> QED BY <1>2, <1>5, <3>2, <3>3
  <2>5. \A i \in DOMAIN uids : uids[i] \in Nat
    BY <1>5, <1>9
  <2> QED BY <1>2, <1>3, <1>4, <1>8, <1>11, <2>1, <2>2, <2>3, <2>4, <2>5 DEF Above, remaining, uids
<1>13. CASE ~(Len(found) > remaining)
  <2>1. n = Len(found) /\ NextUid(found, remaining) = First - 1
    BY <1>6, <1>13 DEF NextUid, remaining
  <2>2. \A i \in DOMAIN uids : uids[i] \in First .. next
    BY <1>5, <1>8, <2>1
  <2>3. \A u \in S : u \in Among(uids)
    BY <1>5, <1>8, <2>1 DEF Among
  <2> QED BY <1>2, <1>3, <1>8, <1>11, <2>1, <2>2, <2>3 DEF Above, remaining, uids
<1> QED BY <1>12, <1>13

LEMMA SearchWindowKeeps ==
    ASSUME SearchAssumption, SearchInvariant, SearchWindow
    PROVE  SearchInvariant'
<1> DEFINE asked == First .. call.position.next_uid
           truth == Matching(asked, Search(call.question, call.position.fuzzy))
           page(found) == LET uids == Reported(found)
                          IN call' = [call EXCEPT
                                        !.position.next_uid = NextUid(found, Vacant),
                                        !.windows = @ - 1,
                                        !.uids = uids,
                                        !.pc = IF uids = <<>> THEN "search" ELSE "fetch"]
<1>1. PICK answer \in Answers(truth) :
         /\ Valid(answer, asked)
         /\ \E found \in Descending(Among(answer)) : page(found)
  BY DEF SearchWindow, Reported, Vacant
<1>2. Among(answer) \subseteq asked
  BY <1>1 DEF Valid
<1>3. PICK found \in Descending(Among(answer)) : page(found)
  BY <1>1
<1> DEFINE uids == Reported(found)
           next == NextUid(found, Vacant)
<1>4. /\ uids \in Seq(Nat) /\ Falls(uids)
      /\ next \in Nat /\ next < call.position.next_uid
      /\ Above(uids, next)
      /\ \A i \in DOMAIN uids : uids[i] <= call.position.next_uid
      /\ \A u \in Among(answer) : u \in Among(uids) \/ u <= next
      /\ \A u \in Nat : u < First => u <= next
  BY <1>2, WindowFacts DEF SearchWindow
<1>5. call' = [call EXCEPT !.position.next_uid = next, !.windows = @ - 1, !.uids = uids,
                           !.pc = IF uids = <<>> THEN "search" ELSE "fetch"]
  BY <1>3
<1>6. ~faulty => Among(answer) = truth
  BY <1>1, TruthIsAnswered
<1>7. call \in CallRecords /\ CallSound(call) /\ call # None /\ call.pc = "search" /\ More
  BY DEF SearchInvariant, SearchTyped, SearchWindow
<1>8. First \in Nat
  BY <1>7 DEF First, SearchAssumption, CallRecords, SearchPositions
<1> HIDE DEF uids, next
<1>9. call' \in CallRecords
  <2>1. call.position \in SearchPositions /\ call.windows \in Nat /\ call.windows > 0
    BY <1>7 DEF CallRecords, More
  <2>2. [call.position EXCEPT !.next_uid = next] \in SearchPositions
    BY <1>4, <2>1 DEF SearchPositions
  <2>3. call.windows - 1 \in Nat
    BY <2>1
  <2> QED BY <1>4, <1>5, <1>7, <2>2, <2>3 DEF CallRecords
<1>10. /\ call'.position.uid_validity = call.position.uid_validity
       /\ call'.position.next_uid = next /\ call'.position.fuzzy = call.position.fuzzy
       /\ call'.seen = call.seen /\ call'.messages = call.messages
       /\ call'.owed = call.owed /\ call'.question = call.question
       /\ call'.resumed = call.resumed /\ call'.uids = uids
       /\ call'.pc = IF uids = <<>> THEN "search" ELSE "fetch"
  BY <1>5, <1>7 DEF CallRecords, SearchPositions
<1>11. /\ \A i \in DOMAIN call.seen : call.seen[i][2] \in Nat
       /\ \A i \in DOMAIN call.messages : call.messages[i] \in Nat
       /\ \A i \in DOMAIN uids : uids[i] \in Nat
       /\ call.position.next_uid \in Nat
  <2>1. /\ call.seen \in Seq(Nat \X Nat) /\ call.messages \in Seq(Nat)
        /\ call.position \in SearchPositions
    BY <1>7 DEF CallRecords, Returned
  <2>2. \A i \in DOMAIN call.seen : call.seen[i] \in Nat \X Nat
    BY <2>1
  <2>3. \A i \in DOMAIN call.messages : call.messages[i] \in Nat
    BY <2>1
  <2>4. \A i \in DOMAIN uids : uids[i] \in Nat
    BY <1>4
  <2> QED BY <2>1, <2>2, <2>3, <2>4 DEF SearchPositions
<1>12. Layered(call')
  <2>1. Over(call.seen, next) /\ Above(call.messages, next)
    BY <1>4, <1>7, <1>11 DEF CallSound, Layered, Over, Above
  <2>2. \A i \in DOMAIN uids : Over(call.seen, uids[i]) /\ Above(call.messages, uids[i])
    BY <1>4, <1>7, <1>11 DEF CallSound, Layered, Over, Above
  <2> QED BY <1>4, <1>7, <1>10, <2>1, <2>2 DEF CallSound, Layered
<1>13. Owing(call')
  <2>1. OwedMatch(call')
    BY <1>7, <1>10 DEF CallSound, Owing, OwedMatch
  <2>2. ASSUME ~faulty, NEW u \in call.owed
        PROVE  u <= next \/ u \in Among(call.messages) \/ u \in Among(uids)
    <3>1. u \in Nat
      BY <1>7 DEF CallRecords
    <3>2. u <= call.position.next_uid \/ u \in Among(call.messages)
      BY <1>7, <2>2 DEF CallSound, Owing, Layered, Among
    <3>3. CASE u <= call.position.next_uid /\ ~(u < First)
      <4>1. u \in asked
        BY <1>8, <1>11, <3>1, <3>3
      <4>2. u \in truth
        BY <1>7, <2>2, <4>1 DEF Matching, CallSound, Owing, OwedMatch
      <4> QED BY <1>4, <1>6, <2>2, <4>2
    <3> QED BY <1>4, <3>1, <3>2, <3>3
  <2> QED BY <1>10, <2>1, <2>2 DEF Owing
<1>14. Moving(call')
  BY <1>4, <1>7, <1>10, <1>11 DEF CallSound, Moving, CallRecords
<1> QED BY <1>9, <1>12, <1>13, <1>14, CallChanges DEF SearchWindow, CallSound

(* One sequence after another. *)
LEMMA ConcatFacts ==
    ASSUME NEW S, NEW s \in Seq(S), NEW t \in Seq(S)
    PROVE  /\ s \o t \in Seq(S)
           /\ \A i \in DOMAIN (s \o t) :
                 \/ i \in DOMAIN s /\ (s \o t)[i] = s[i]
                 \/ /\ i > Len(s) /\ i - Len(s) \in DOMAIN t
                    /\ (s \o t)[i] = t[i - Len(s)]
           /\ DOMAIN (s \o t) \subseteq Nat
           /\ DOMAIN s = 1 .. Len(s) /\ Len(s) \in Nat
<1>1. /\ s \o t \in Seq(S) /\ Len(s \o t) = Len(s) + Len(t)
      /\ Len(s) \in Nat /\ Len(t) \in Nat
      /\ DOMAIN (s \o t) = 1 .. Len(s \o t) /\ DOMAIN s = 1 .. Len(s) /\ DOMAIN t = 1 .. Len(t)
  OBVIOUS
<1>2. \A i \in 1 .. Len(s) + Len(t) : (s \o t)[i] = IF i <= Len(s) THEN s[i] ELSE t[i - Len(s)]
  OBVIOUS
<1> QED BY <1>1, <1>2

LEMMA FetchKeeps ==
    ASSUME SearchAssumption, SearchInvariant, Fetch
    PROVE  SearchInvariant'
<1>1. PICK rows \in Answers(Fetched(call.uids)) :
         /\ Valid(rows, Among(call.uids))
         /\ \E found \in Descending(Among(rows)) :
               call' = [call EXCEPT !.messages = @ \o found, !.uids = <<>>, !.pc = "search"]
  BY DEF Fetch
<1>2. PICK found \in Descending(Among(rows)) :
         call' = [call EXCEPT !.messages = @ \o found, !.uids = <<>>, !.pc = "search"]
  BY <1>1
<1>3. call \in CallRecords /\ CallSound(call) /\ call # None /\ call.pc = "fetch"
  BY DEF SearchInvariant, SearchTyped, Fetch
<1>4. /\ \A i \in DOMAIN call.seen : call.seen[i][2] \in Nat
      /\ \A i \in DOMAIN call.messages : call.messages[i] \in Nat
      /\ \A i \in DOMAIN call.uids : call.uids[i] \in Nat
      /\ call.position.next_uid \in Nat /\ call.messages \in Seq(Nat)
  <2>1. /\ call.seen \in Seq(Nat \X Nat) /\ call.messages \in Seq(Nat)
        /\ call.uids \in Seq(Nat) /\ call.position \in SearchPositions
    BY <1>3 DEF CallRecords, Returned
  <2>2. \A i \in DOMAIN call.seen : call.seen[i] \in Nat \X Nat
    BY <2>1
  <2> QED BY <2>1, <2>2 DEF SearchPositions
<1>5. Among(rows) \subseteq Among(call.uids)
  BY <1>1 DEF Valid
<1>6. Among(rows) \subseteq Nat
  BY <1>4, <1>5 DEF Among
<1>7. /\ found \in Seq(Nat) /\ Falls(found) /\ Among(found) = Among(rows)
      /\ \A i \in DOMAIN found : found[i] \in Among(rows) /\ found[i] \in Nat
  BY <1>6, DescendingFacts
<1>8. \A i \in DOMAIN found : \E j \in DOMAIN call.uids : found[i] = call.uids[j]
  BY <1>5, <1>7 DEF Among
<1> DEFINE both == call.messages \o found
<1>9. /\ both \in Seq(Nat) /\ Len(both) = Len(call.messages) + Len(found)
      /\ DOMAIN both = 1 .. Len(both) /\ DOMAIN found = 1 .. Len(found)
      /\ DOMAIN call.messages = 1 .. Len(call.messages)
      /\ Len(call.messages) \in Nat /\ Len(found) \in Nat
  BY <1>4, <1>7
<1>10. \A i \in DOMAIN both :
          \/ i \in DOMAIN call.messages /\ both[i] = call.messages[i]
          \/ /\ i > Len(call.messages) /\ i - Len(call.messages) \in DOMAIN found
             /\ both[i] = found[i - Len(call.messages)]
  BY <1>4, <1>7, <1>9
<1>11. Among(both) = Among(call.messages) \cup Among(found)
  <2>1. \A i \in DOMAIN call.messages : i \in DOMAIN both /\ both[i] = call.messages[i]
    BY <1>4, <1>7, <1>9
  <2>2. \A i \in DOMAIN found :
           Len(call.messages) + i \in DOMAIN both /\ both[Len(call.messages) + i] = found[i]
    BY <1>4, <1>7, <1>9
  <2> QED BY <1>10, <2>1, <2>2 DEF Among
<1>12. call' = [call EXCEPT !.messages = both, !.uids = <<>>, !.pc = "search"]
  BY <1>2
<1> HIDE DEF both
<1>13. call' \in CallRecords
  <2>1. <<>> \in Seq(Nat) /\ both \in Seq(Nat)
    BY <1>9
  <2> QED BY <1>3, <1>12, <2>1 DEF CallRecords
<1>14. /\ call'.position = call.position
       /\ call'.seen = call.seen /\ call'.messages = both
       /\ call'.owed = call.owed /\ call'.question = call.question
       /\ call'.resumed = call.resumed /\ call'.uids = <<>> /\ call'.pc = "search"
  BY <1>3, <1>12 DEF CallRecords
<1>15. Falls(both)
  <2> SUFFICES ASSUME NEW i \in DOMAIN both, NEW j \in DOMAIN both, i < j
               PROVE  both[i] > both[j]
    BY DEF Falls
  <2>1. CASE j \in DOMAIN call.messages /\ both[j] = call.messages[j]
    <3>1. i \in DOMAIN call.messages /\ both[i] = call.messages[i]
      BY <1>9, <1>10, <2>1
    <3> QED BY <1>3, <2>1, <3>1 DEF CallSound, Layered, Falls
  <2>2. CASE /\ j > Len(call.messages) /\ j - Len(call.messages) \in DOMAIN found
             /\ both[j] = found[j - Len(call.messages)]
    <3>1. CASE i \in DOMAIN call.messages /\ both[i] = call.messages[i]
      BY <1>3, <1>8, <2>2, <3>1 DEF CallSound, Layered, Above
    <3>2. CASE /\ i > Len(call.messages) /\ i - Len(call.messages) \in DOMAIN found
               /\ both[i] = found[i - Len(call.messages)]
      BY <1>7, <1>9, <2>2, <3>2 DEF Falls
    <3> QED BY <1>10, <3>1, <3>2
  <2> QED BY <1>10, <2>1, <2>2
<1>16. Above(both, call.position.next_uid)
  BY <1>3, <1>8, <1>10 DEF CallSound, Layered, Above
<1>17. \A i \in DOMAIN both : Over(call.seen, both[i])
  BY <1>3, <1>8, <1>10 DEF CallSound, Layered
<1>18. Layered(call')
  BY <1>3, <1>14, <1>15, <1>16, <1>17 DEF CallSound, Layered, Falls, Above
<1>19. Owing(call')
  <2>1. OwedMatch(call')
    BY <1>3, <1>14 DEF CallSound, Owing, OwedMatch
  <2>2. ASSUME ~faulty, NEW u \in call.owed
        PROVE  u <= call.position.next_uid \/ u \in Among(both)
    <3>1. u \in Present
      BY <1>3 DEF CallSound, Owing, OwedMatch
    <3>2. u \in Among(call.uids) => u \in Among(found)
      BY <1>1, <1>7, <2>2, <3>1, TruthIsAnswered DEF Fetched
    <3> QED BY <1>3, <1>11, <2>2, <3>2 DEF CallSound, Owing
  <2> QED BY <1>14, <2>1, <2>2 DEF Owing
<1>20. Moving(call')
  BY <1>3, <1>14 DEF CallSound, Moving
<1> QED BY <1>13, <1>18, <1>19, <1>20, CallChanges DEF Fetch, CallSound

(* The page that is answered: its cursor, and its messages after those of the
   pages before it. *)
LEMMA FinishKeeps ==
    ASSUME SearchAssumption, SearchInvariant, Finish
    PROVE  SearchInvariant' /\ Advances
<1> DEFINE new == [i \in DOMAIN call.messages |-> <<validity, call.messages[i]>>]
           seen == call.seen \o new
           owed == call.owed \ Among(call.messages)
<1>1. /\ call \in CallRecords /\ CallSound(call) /\ call # None /\ call.pc = "search"
      /\ ~More /\ validity \in Nat
  BY DEF SearchInvariant, SearchTyped, Finish
<1>2. /\ call.seen \in Seq(Nat \X Nat) /\ call.messages \in Seq(Nat)
      /\ call.position \in SearchPositions /\ call.position.next_uid \in Nat
      /\ call.resumed \in Nat /\ call.question \in Questions /\ call.limit \in Nat \ {0}
      /\ call.position.uid_validity = validity
  BY <1>1 DEF CallRecords, Returned, SearchPositions, CallSound, Layered
<1>3. new \in Seq(Nat \X Nat)
  <2>1. DOMAIN call.messages = 1 .. Len(call.messages) /\ Len(call.messages) \in Nat
    BY <1>2
  <2>2. \A i \in DOMAIN call.messages : <<validity, call.messages[i]>> \in Nat \X Nat
    BY <1>1, <1>2
  <2>3. new \in [1 .. Len(call.messages) -> Nat \X Nat]
    BY <2>1, <2>2
  <2> HIDE DEF new
  <2> QED BY <2>1, <2>3
<1>4. /\ \A i \in DOMAIN new : i \in DOMAIN call.messages /\ new[i] = <<validity, call.messages[i]>>
      /\ DOMAIN new = DOMAIN call.messages
  OBVIOUS
<1> HIDE DEF new
<1>5. /\ seen \in Seq(Nat \X Nat)
      /\ \A i \in DOMAIN seen :
            \/ i \in DOMAIN call.seen /\ seen[i] = call.seen[i]
            \/ /\ i > Len(call.seen) /\ i - Len(call.seen) \in DOMAIN new
               /\ seen[i] = new[i - Len(call.seen)]
      /\ DOMAIN seen \subseteq Nat
      /\ DOMAIN call.seen = 1 .. Len(call.seen) /\ Len(call.seen) \in Nat
  BY <1>2, <1>3, ConcatFacts
<1> HIDE DEF seen
<1>6. \A i \in DOMAIN seen :
         \/ i \in DOMAIN call.seen /\ seen[i] = call.seen[i]
         \/ /\ i > Len(call.seen) /\ i - Len(call.seen) \in DOMAIN call.messages
            /\ seen[i][1] = validity /\ seen[i][2] = call.messages[i - Len(call.seen)]
  BY <1>4, <1>5
<1>7. /\ \A i \in DOMAIN call.seen : call.seen[i][2] \in Nat
      /\ \A i \in DOMAIN call.messages : call.messages[i] \in Nat
  BY <1>2
<1>8. Down(seen)
  <2> SUFFICES ASSUME NEW i \in DOMAIN seen, NEW j \in DOMAIN seen, i < j
               PROVE  seen[i][2] > seen[j][2]
    BY DEF Down
  <2>1. CASE j \in DOMAIN call.seen /\ seen[j] = call.seen[j]
    <3>1. i \in DOMAIN call.seen /\ seen[i] = call.seen[i]
      BY <1>5, <2>1
    <3> QED BY <1>1, <2>1, <3>1 DEF CallSound, Layered, Down
  <2>2. CASE /\ j > Len(call.seen) /\ j - Len(call.seen) \in DOMAIN call.messages
             /\ seen[j][1] = validity /\ seen[j][2] = call.messages[j - Len(call.seen)]
    <3>1. CASE i \in DOMAIN call.seen /\ seen[i] = call.seen[i]
      BY <1>1, <2>2, <3>1 DEF CallSound, Layered, Over
    <3>2. CASE /\ i > Len(call.seen) /\ i - Len(call.seen) \in DOMAIN call.messages
               /\ seen[i][1] = validity /\ seen[i][2] = call.messages[i - Len(call.seen)]
      <4>1. i - Len(call.seen) < j - Len(call.seen)
        BY <1>5
      <4> QED BY <1>1, <2>2, <3>2, <4>1 DEF CallSound, Layered, Falls
    <3> QED BY <1>6, <3>1, <3>2
  <2> QED BY <1>6, <2>1, <2>2
<1>9. OfOne(seen, validity)
  BY <1>1, <1>6 DEF CallSound, Layered, OfOne
<1>10. Over(seen, call.position.next_uid)
  BY <1>1, <1>6 DEF CallSound, Layered, Over, Above
<1>11. owed \in SUBSET Nat /\ \A u \in owed : u \in call.owed /\ u \notin Among(call.messages)
  BY <1>1 DEF CallRecords
<1>12. ~faulty => \A u \in owed : u <= call.position.next_uid
  <2>1. call.uids = <<>>
    BY <1>1 DEF CallSound, Layered
  <2>2. Among(call.uids) = {}
    BY <2>1 DEF Among
  <2> QED BY <1>1, <1>11, <2>2 DEF CallSound, Owing
<1>13. \A u \in owed : u \in Present /\ Search(call.question, call.position.fuzzy) \in hits[u]
  BY <1>1, <1>11 DEF CallSound, Owing, OwedMatch
<1> HIDE DEF owed
<1>14. UNCHANGED <<validity, uidNext, hits, faulty>> /\ call' = None
  BY DEF Finish, boxVars
<1>15. (call # None => CallSound(call))'
  BY <1>14
<1>16. ASSUME /\ call.position.next_uid = 0
              /\ last' = [seen |-> seen, owed |-> owed] /\ UNCHANGED cursors
       PROVE  SearchInvariant'
  <2>1. SearchTyped'
    BY <1>5, <1>11, <1>14, <1>16 DEF SearchInvariant, SearchTyped, Returned
  <2>2. ~faulty => owed = {}
    <3>1. ASSUME ~faulty PROVE \A u \in owed : FALSE
      <4>1. \A u \in owed : u \in Nat \ {0}
        <5>1. DOMAIN hits \subseteq 1 .. (uidNext - 1)
          BY DEF SearchInvariant, SearchTyped
        <5>2. \A u \in 1 .. (uidNext - 1) : u # 0
          OBVIOUS
        <5> QED BY <1>11, <1>13, <5>1, <5>2 DEF Present
      <4> QED BY <1>12, <1>16, <3>1, <4>1
    <3> QED BY <3>1
  <2>3. (\A c \in cursors : CursorSound(c))'
    BY <1>14, <1>16 DEF SearchInvariant, CursorSound, OwedMatch, Present
  <2>4. EndSound'
    <3>1. Down(last.seen)' /\ OfOne(last.seen, validity)' /\ validity' \in Nat
      BY <1>1, <1>8, <1>9, <1>14, <1>16 DEF Down, OfOne
    <3>2. (~faulty => last.owed = {})'
      BY <1>14, <1>16, <2>2
    <3> QED BY <3>1, <3>2 DEF EndSound
  <2> QED BY <1>15, <2>1, <2>3, <2>4 DEF SearchInvariant
<1>17. ASSUME /\ cursors' = cursors \cup {Cursor(call.question, call.position, seen, owed)}
              /\ UNCHANGED last
       PROVE  SearchInvariant'
  <2> DEFINE c == Cursor(call.question, call.position, seen, owed)
  <2>1. c \in CursorRecords
    BY <1>2, <1>5, <1>11 DEF Cursor, CursorRecords, Returned
  <2>2. CursorSound(c)
    BY <1>1, <1>2, <1>8, <1>9, <1>10, <1>12, <1>13 DEF Cursor, CursorSound, OwedMatch
  <2> HIDE DEF c
  <2>3. SearchTyped'
    BY <1>14, <1>17, <2>1 DEF SearchInvariant, SearchTyped, c
  <2>4. \A d \in cursors' : CursorSound(d)
    BY <1>17, <2>2 DEF SearchInvariant, c
  <2>5. (\A d \in cursors : CursorSound(d))'
    BY <1>14, <2>4 DEF CursorSound, OwedMatch, Present
  <2>6. EndSound'
    BY <1>14, <1>17 DEF SearchInvariant, EndSound
  <2> QED BY <1>15, <2>3, <2>5, <2>6 DEF SearchInvariant
<1>18. SearchInvariant'
  BY <1>16, <1>17 DEF Finish, seen, owed, new
<1>19. Advances
  <2>1. call.resumed # 0 => call.position.next_uid < call.resumed
    <3> SUFFICES ASSUME call.resumed # 0, ~(call.position.next_uid < call.resumed)
                 PROVE  FALSE
      OBVIOUS
    <3>1. call.position.next_uid = call.resumed /\ call.windows = Windows /\ call.messages = <<>>
      BY <1>1 DEF CallSound, Moving
    <3>2. call.windows > 0 /\ Len(call.messages) = 0
      BY <3>1 DEF SearchAssumption
    <3> QED BY <1>1, <1>2, <3>1, <3>2 DEF More
  <2> QED BY <2>1 DEF Advances
<1> QED BY <1>18, <1>19

-----------------------------------------------------------------------------
(* What the mailbox does between the steps of a request. *)

(* Forgive: what is no longer owed is no longer asked for; nothing else of the
   cursors and of the request changes. *)
Forgiven(t, u, searches) ==
    IF Search(t.question, t.position.fuzzy) \in searches
    THEN [t EXCEPT !.owed = @ \ {u}] ELSE t

LEMMA ForgivenFacts ==
    ASSUME NEW t, t \in CursorRecords \/ t \in CallRecords, NEW u, NEW searches
    PROVE  LET f == Forgiven(t, u, searches) IN
           /\ t \in CursorRecords => f \in CursorRecords
           /\ t \in CallRecords => /\ f \in CallRecords
                                   /\ f.pc = t.pc /\ f.messages = t.messages
                                   /\ f.uids = t.uids /\ f.resumed = t.resumed
                                   /\ f.windows = t.windows
           /\ f.question = t.question /\ f.position = t.position /\ f.seen = t.seen
           /\ f.owed \subseteq t.owed
           /\ Search(t.question, t.position.fuzzy) \in searches => u \notin f.owed
<1>1. CASE t \in CursorRecords
  BY <1>1 DEF Forgiven, CursorRecords, CallRecords
<1>2. CASE t \in CallRecords
  BY <1>2 DEF Forgiven, CursorRecords, CallRecords
<1> QED BY <1>1, <1>2

(* A change of one message: whoever still owes it still matches it. *)
LEMMA ForgivingKeeps ==
    ASSUME SearchInvariant, NEW u, NEW searches, Forgive(u, searches),
           UNCHANGED <<validity, faulty, last>>, uidNext' = uidNext,
           DOMAIN hits' \subseteq DOMAIN hits,
           \A v \in DOMAIN hits : v # u => v \in DOMAIN hits' /\ hits'[v] = hits[v],
           \A s \in hits[u] : s \notin searches => u \in DOMAIN hits' /\ s \in hits'[u]
    PROVE  SearchInvariant'
<1>1. /\ cursors' = {Forgiven(c, u, searches) : c \in cursors}
      /\ call' = IF call = None THEN None ELSE Forgiven(call, u, searches)
  BY DEF Forgive, Forgiven
<1>2. /\ \A c \in cursors : c \in CursorRecords /\ CursorSound(c)
      /\ call # None => call \in CallRecords /\ CallSound(call)
  BY DEF SearchInvariant, SearchTyped
<1>3. SearchTyped'
  BY <1>1, <1>2, ForgivenFacts DEF SearchInvariant, SearchTyped
<1>4. ASSUME NEW t, t \in CursorRecords \/ t \in CallRecords, OwedMatch(t)
      PROVE  LET f == Forgiven(t, u, searches)
             IN \A v \in f.owed : v \in DOMAIN hits' /\ Search(f.question, f.position.fuzzy) \in hits'[v]
  <2> DEFINE f == Forgiven(t, u, searches)
  <2>1. /\ f.question = t.question /\ f.position = t.position /\ f.owed \subseteq t.owed
        /\ Search(t.question, t.position.fuzzy) \in searches => u \notin f.owed
    BY <1>4, ForgivenFacts
  <2> HIDE DEF f
  <2>2. ASSUME NEW v \in f.owed
        PROVE  v \in DOMAIN hits' /\ Search(t.question, t.position.fuzzy) \in hits'[v]
    <3>1. v \in DOMAIN hits /\ Search(t.question, t.position.fuzzy) \in hits[v]
      BY <1>4, <2>1, <2>2 DEF OwedMatch, Present
    <3> QED BY <2>1, <2>2, <3>1
  <2> QED BY <2>1, <2>2 DEF f
<1>5. ASSUME NEW c \in cursors PROVE CursorSound(Forgiven(c, u, searches))'
  <2> DEFINE f == Forgiven(c, u, searches)
  <2>1. /\ f.question = c.question /\ f.position = c.position /\ f.seen = c.seen
        /\ f.owed \subseteq c.owed
    BY <1>2, ForgivenFacts
  <2>2. \A v \in f.owed : v \in DOMAIN hits' /\ Search(f.question, f.position.fuzzy) \in hits'[v]
    BY <1>2, <1>4 DEF CursorSound
  <2> HIDE DEF f
  <2>3. CursorSound(f)'
    BY <1>2, <2>1, <2>2 DEF CursorSound, OwedMatch, Present
  <2> QED BY <2>3 DEF f
<1>6. call' # None => CallSound(call)'
  <2> SUFFICES ASSUME call # None PROVE CallSound(call)'
    BY <1>1
  <2>1. PICK k : k = call
    OBVIOUS
  <2> DEFINE f == Forgiven(k, u, searches)
  <2>2. call' = f
    BY <1>1, <2>1
  <2>3. /\ f.question = call.question /\ f.position = call.position /\ f.seen = call.seen
        /\ f.owed \subseteq call.owed
        /\ f.pc = call.pc /\ f.messages = call.messages /\ f.uids = call.uids
        /\ f.resumed = call.resumed /\ f.windows = call.windows
    BY <1>2, <2>1, ForgivenFacts
  <2>4. \A v \in f.owed : v \in DOMAIN hits' /\ Search(f.question, f.position.fuzzy) \in hits'[v]
    BY <1>2, <1>4, <2>1 DEF CallSound, Owing
  <2> HIDE DEF f
  <2>5. Layered(f)' /\ Moving(f)'
    BY <1>2, <2>3 DEF CallSound, Layered, Moving
  <2>6. Owing(f)'
    BY <1>2, <2>3, <2>4 DEF CallSound, Owing, OwedMatch, Present
  <2> QED BY <2>2, <2>5, <2>6 DEF CallSound
<1>7. EndSound'
  BY DEF SearchInvariant, EndSound
<1>8. (\A c \in cursors : CursorSound(c))'
  BY <1>1, <1>5
<1> QED BY <1>3, <1>6, <1>7, <1>8 DEF SearchInvariant

LEMMA ArriveKeeps ==
    ASSUME SearchInvariant, Arrive
    PROVE  SearchInvariant'
<1>1. PICK mark \in Marks : hits' = [u \in Present \cup {uidNext} |->
                                     IF u = uidNext THEN mark ELSE hits[u]]
  BY DEF Arrive
<1>2. /\ uidNext' = uidNext + 1
      /\ UNCHANGED <<validity, faulty, call, cursors, last>>
      /\ DOMAIN hits \subseteq 1 .. (uidNext - 1) /\ uidNext \in Nat \ {0}
  BY DEF Arrive, SearchInvariant, SearchTyped
<1>3. \A v \in DOMAIN hits : v \in DOMAIN hits' /\ hits'[v] = hits[v]
  <2>1. uidNext \notin 1 .. (uidNext - 1)
    BY <1>2
  <2> QED BY <1>1, <1>2, <2>1 DEF Present
<1>4. DOMAIN hits' \subseteq 1 .. (uidNext' - 1) /\ uidNext' \in Nat \ {0}
  BY <1>1, <1>2 DEF Present
<1>5. SearchTyped'
  BY <1>2, <1>4 DEF SearchInvariant, SearchTyped
<1>6. \A t : OwedMatch(t) => \A u \in t.owed :
             u \in DOMAIN hits' /\ Search(t.question, t.position.fuzzy) \in hits'[u]
  BY <1>3 DEF OwedMatch, Present
<1>7. (\A c \in cursors : CursorSound(c))'
  BY <1>2, <1>6 DEF SearchInvariant, CursorSound, OwedMatch, Present
<1>8. (call # None => CallSound(call))'
  <2> SUFFICES ASSUME call # None PROVE CallSound(call)'
    BY <1>2
  <2>1. CallSound(call)
    BY DEF SearchInvariant
  <2>2. Layered(call)' /\ Moving(call)'
    BY <1>2, <2>1 DEF CallSound, Layered, Moving
  <2>3. Owing(call)'
    BY <1>2, <1>6, <2>1 DEF CallSound, Owing, OwedMatch, Present
  <2> QED BY <2>2, <2>3 DEF CallSound
<1>9. EndSound'
  BY <1>2 DEF SearchInvariant, EndSound
<1> QED BY <1>5, <1>7, <1>8, <1>9 DEF SearchInvariant

LEMMA ExpungeKeeps ==
    ASSUME SearchInvariant, Expunge
    PROVE  SearchInvariant'
<1>1. PICK u \in Present : /\ hits' = [v \in Present \ {u} |-> hits[v]]
                           /\ Forgive(u, hits[u])
  BY DEF Expunge
<1>2. /\ DOMAIN hits' \subseteq DOMAIN hits
      /\ \A v \in DOMAIN hits : v # u => v \in DOMAIN hits' /\ hits'[v] = hits[v]
  BY <1>1 DEF Present
<1>3. UNCHANGED <<validity, faulty, last>> /\ uidNext' = uidNext
  BY DEF Expunge
<1> QED BY <1>1, <1>2, <1>3, ForgivingKeeps

LEMMA ReflagKeeps ==
    ASSUME SearchInvariant, Reflag
    PROVE  SearchInvariant'
<1>1. PICK u \in Present, mark \in Marks : /\ hits' = [hits EXCEPT ![u] = mark]
                                          /\ Forgive(u, hits[u] \ mark)
  BY DEF Reflag
<1>2. /\ DOMAIN hits' \subseteq DOMAIN hits
      /\ \A v \in DOMAIN hits : v # u => v \in DOMAIN hits' /\ hits'[v] = hits[v]
      /\ \A s \in hits[u] : s \notin hits[u] \ mark => u \in DOMAIN hits' /\ s \in hits'[u]
  BY <1>1 DEF Present
<1>3. UNCHANGED <<validity, faulty, last>> /\ uidNext' = uidNext
  BY DEF Reflag
<1> QED BY <1>1, <1>2, <1>3, ForgivingKeeps

(* The mailbox made again: its old cursors name a UIDVALIDITY that is not to come
   back. *)
LEMMA RecreateKeeps ==
    ASSUME SearchAssumption, SearchInvariant, Recreate
    PROVE  SearchInvariant'
<1>1. /\ validity' = validity + 1 /\ uidNext' = MaxUid /\ call' = None
      /\ cursors' = {[c EXCEPT !.owed = {}] : c \in cursors}
      /\ UNCHANGED <<faulty, last>> /\ DOMAIN hits' = 1 .. MaxUid - 1
  BY DEF Recreate
<1>2. /\ validity \in Nat /\ MaxUid \in Nat \ {0}
      /\ \A c \in cursors : c \in CursorRecords /\ CursorSound(c)
  BY DEF SearchInvariant, SearchTyped, SearchAssumption
<1>3. ASSUME NEW c \in cursors
      PROVE  [c EXCEPT !.owed = {}] \in CursorRecords /\ CursorSound([c EXCEPT !.owed = {}])'
  <2> DEFINE f == [c EXCEPT !.owed = {}]
  <2>1. /\ f \in CursorRecords /\ f.owed = {} /\ f.seen = c.seen /\ f.position = c.position
        /\ c.position.uid_validity \in Nat
    BY <1>2 DEF CursorRecords, SearchPositions
  <2> HIDE DEF f
  <2>2. CursorSound(f)'
    BY <1>1, <1>2, <2>1 DEF CursorSound, OwedMatch
  <2> QED BY <2>1, <2>2 DEF f
<1>4. SearchTyped'
  BY <1>1, <1>2, <1>3 DEF SearchInvariant, SearchTyped
<1>5. (\A c \in cursors : CursorSound(c))'
  BY <1>1, <1>3
<1>6. EndSound' /\ (call # None => CallSound(call))'
  BY <1>1 DEF SearchInvariant, EndSound
<1> QED BY <1>4, <1>5, <1>6 DEF SearchInvariant

(* The invariant of search, kept by every step. *)
LEMMA SearchStepKeeps ==
    ASSUME SearchAssumption, SearchInvariant, [SearchNext]_searchVars
    PROVE  SearchInvariant'
<1>1. CASE UNCHANGED searchVars
  BY <1>1, CallChanges DEF searchVars, SearchInvariant, SearchTyped
<1>2. CASE FailPage
  BY <1>2, CallChanges DEF FailPage, boxVars
<1>3. CASE OtherServer
  <2>1. UNCHANGED <<validity, uidNext, hits, faulty, call, cursors, last>>
    BY <1>3 DEF OtherServer
  <2>2. SearchTyped' /\ EndSound'
    BY <2>1 DEF SearchInvariant, SearchTyped, EndSound
  <2>3. (\A c \in cursors : CursorSound(c))' /\ (call # None => CallSound(call))'
    BY <1>3, <2>1 DEF OtherServer, SearchInvariant, CursorSound, OwedMatch, Present
  <2> QED BY <2>2, <2>3 DEF SearchInvariant
<1> QED BY <1>1, <1>2, <1>3, FirstPageKeeps, LaterPageKeeps, SearchWindowKeeps, FetchKeeps, FinishKeeps,
           ArriveKeeps, ExpungeKeeps, ReflagKeeps, RecreateKeeps DEF SearchNext

THEOREM TraversalsStayExact ==
    ASSUME SearchAssumption
    PROVE  SearchSpec => TraversalsExact
<1>1. SearchInit => SearchInvariant
  BY SearchStarts
<1>2. SearchInvariant /\ [SearchNext]_searchVars => SearchInvariant'
  BY SearchStepKeeps
<1>3. SearchInvariant /\ SearchInvariant' /\ [SearchNext]_searchVars
         => [NoRepeats' /\ NoneMissed' /\ OneMailbox' /\ Advances]_searchVars
  <2> SUFFICES ASSUME SearchInvariant, SearchInvariant', [SearchNext]_searchVars
               PROVE  [NoRepeats' /\ NoneMissed' /\ OneMailbox' /\ Advances]_searchVars
    OBVIOUS
  <2>1. NoRepeats' /\ NoneMissed' /\ OneMailbox'
    BY InvariantIsExact, PTL
  <2>2. Advances
    BY FinishKeeps DEF Advances
  <2> QED BY <2>1, <2>2
<1> QED BY <1>1, <1>2, <1>3, PTL DEF SearchSpec, TraversalsExact

-----------------------------------------------------------------------------
(* Lists of mailboxes in pages. *)

LEMMA LeastNumber ==
    ASSUME NEW T, T \subseteq Nat, T # {}
    PROVE  \E x \in T : \A y \in T : x <= y
<1> DEFINE R == OpToRel(<, Nat)
<1>1. IsWellFoundedOn(R, Nat)
  BY NatLessThanWellFounded, Zenon
<1>2. R = {ss \in Nat \X Nat : ss[1] < ss[2]}
  BY DEF OpToRel
<1> HIDE DEF R
<1>3. PICK x \in T : \A y \in T : ~ (<<y, x>> \in R)
  BY <1>1, WFMin
<1>4. \A y \in T : ~(y < x)
  BY <1>2, <1>3
<1> QED
  BY <1>3, <1>4

(* A cursor stands in the list of its inventory where its traversal's pages end. *)
PagesSoFar(c) ==
    /\ c.position \in Nat
    /\ \E s \in Sorted(c.inventory) : c.position <= Len(s) /\ c.told = SubSeq(s, 1, c.position)

MailboxInvariant ==
    /\ DOMAIN server \subseteq Identities /\ \A m \in DOMAIN server : server[m] \in MailboxMarks
    /\ account \in MailboxScopes /\ grant \in MailboxScopes
    /\ \A c \in listCursors : PagesSoFar(c)
    /\ MailboxListExact

-----------------------------------------------------------------------------
(* Precedes is the order of the indices of Order. *)
LEMMA PrecedesIsStrict ==
    ASSUME MailboxAssumption
    PROVE  /\ \A m : ~Precedes(m, m)
           /\ \A l, m, n : Precedes(l, m) /\ Precedes(m, n) => Precedes(l, n)
<1>1. Order \in Seq(Names) /\ \A i, j \in DOMAIN Order : Order[i] = Order[j] => i = j
  BY DEF MailboxAssumption
<1>2. DOMAIN Order \subseteq Nat /\ \A i, j \in DOMAIN Order : Order[i] = Order[j] => i = j
  BY <1>1
<1>3. \A m : ~Precedes(m, m)
  BY <1>2 DEF Precedes
<1>4. ASSUME NEW l, NEW m, NEW n, Precedes(l, m), Precedes(m, n)
      PROVE  Precedes(l, n)
  <2>1. PICK i, j \in DOMAIN Order : i < j /\ Order[i] = l /\ Order[j] = m
    BY <1>4 DEF Precedes
  <2>2. PICK p, q \in DOMAIN Order : p < q /\ Order[p] = m /\ Order[q] = n
    BY <1>4 DEF Precedes
  <2>3. p = j
    BY <1>2, <2>1, <2>2
  <2>4. i < q
    BY <1>2, <2>1, <2>2, <2>3
  <2> QED BY <2>1, <2>2, <2>4 DEF Precedes
<1> QED BY <1>3, <1>4

LEMMA SortedFacts ==
    ASSUME MailboxAssumption, NEW inventory, NEW s \in Sorted(inventory)
    PROVE  /\ s \in Seq(DOMAIN inventory) /\ DOMAIN s = 1 .. Len(s) /\ Len(s) \in Nat
           /\ Told(s) = DOMAIN inventory
           /\ \A m \in DOMAIN inventory : \E i \in DOMAIN s : s[i] = m
           /\ \A i \in DOMAIN s : s[i] \in DOMAIN inventory
           /\ \A i, j \in DOMAIN s : i < j => Precedes(s[i], s[j])
<1>1. Len(Order) \in Nat
  <2>1. Order \in Seq(Names)
    BY DEF MailboxAssumption
  <2> QED BY <2>1
<1>2. PICK n \in 0 .. Len(Order) : s \in [1 .. n -> DOMAIN inventory]
  BY DEF Sorted
<1>3. n \in Nat
  BY <1>1
<1>4. s \in Seq(DOMAIN inventory) /\ Len(s) = n /\ DOMAIN s = 1 .. n
  BY <1>2, <1>3
<1>5. Told(s) = DOMAIN inventory /\ \A i, j \in DOMAIN s : i < j => Precedes(s[i], s[j])
  BY DEF Sorted
<1> QED BY <1>2, <1>3, <1>4, <1>5 DEF Told

(* Of two lists of the same names the shorter one, or any, cannot have a name
   before the other has it. *)
LEMMA NoneSooner ==
    ASSUME MailboxAssumption, NEW inventory, NEW s \in Sorted(inventory), NEW t \in Sorted(inventory),
           NEW k \in DOMAIN s, \A i \in DOMAIN s : i < k => i \in DOMAIN t /\ s[i] = t[i]
    PROVE  k \in DOMAIN t /\ (s[k] = t[k] \/ Precedes(t[k], s[k]))
<1>1. /\ DOMAIN s = 1 .. Len(s) /\ Len(s) \in Nat /\ DOMAIN t = 1 .. Len(t) /\ Len(t) \in Nat
      /\ \A i, j \in DOMAIN s : i < j => Precedes(s[i], s[j])
      /\ \A i, j \in DOMAIN t : i < j => Precedes(t[i], t[j])
      /\ \A i \in DOMAIN s : s[i] \in DOMAIN inventory
      /\ \A m \in DOMAIN inventory : \E i \in DOMAIN t : t[i] = m
  BY SortedFacts
<1>2. PICK j \in DOMAIN t : t[j] = s[k]
  BY <1>1
<1>3. ~(j < k)
  <2> SUFFICES ASSUME j < k PROVE FALSE
    OBVIOUS
  <2>1. j \in DOMAIN s
    BY <1>1
  <2>2. s[j] = s[k] /\ Precedes(s[j], s[k])
    BY <1>1, <1>2, <2>1
  <2> QED BY <2>2, PrecedesIsStrict
<1>4. k \in DOMAIN t
  BY <1>1, <1>3
<1>5. j = k \/ k < j
  BY <1>1, <1>3
<1> QED BY <1>1, <1>2, <1>4, <1>5

(* A BTreeMap is iterated in one order. *)
LEMMA OneList ==
    ASSUME MailboxAssumption, NEW inventory, NEW s \in Sorted(inventory), NEW t \in Sorted(inventory)
    PROVE  s = t
<1>1. /\ s \in Seq(DOMAIN inventory) /\ t \in Seq(DOMAIN inventory)
      /\ DOMAIN s = 1 .. Len(s) /\ Len(s) \in Nat /\ DOMAIN t = 1 .. Len(t) /\ Len(t) \in Nat
  BY SortedFacts
<1> DEFINE T == {i \in DOMAIN s \cup DOMAIN t : ~(i \in DOMAIN s /\ i \in DOMAIN t /\ s[i] = t[i])}
<1>2. T = {}
  <2> SUFFICES ASSUME T # {} PROVE FALSE
    OBVIOUS
  <2>1. T \subseteq Nat
    BY <1>1
  <2>2. PICK k \in T : \A y \in T : k <= y
    BY <2>1, LeastNumber
  <2>3. /\ \A i \in DOMAIN s : i < k => i \in DOMAIN t /\ s[i] = t[i]
        /\ \A i \in DOMAIN t : i < k => i \in DOMAIN s /\ t[i] = s[i]
    BY <1>1, <2>1, <2>2
  <2>4. /\ k \in DOMAIN s => k \in DOMAIN t /\ (s[k] = t[k] \/ Precedes(t[k], s[k]))
        /\ k \in DOMAIN t => k \in DOMAIN s /\ (t[k] = s[k] \/ Precedes(s[k], t[k]))
    BY <2>3, NoneSooner
  <2>5. k \in DOMAIN s /\ k \in DOMAIN t /\ s[k] # t[k]
    BY <2>2, <2>4
  <2> QED BY <2>4, <2>5, PrecedesIsStrict
<1>3. Len(s) = Len(t)
  <2>1. DOMAIN s = DOMAIN t
    BY <1>2
  <2>2. 1 .. Len(s) = 1 .. Len(t)
    BY <1>1, <2>1
  <2>3. \A a, b \in Nat : 1 .. a = 1 .. b => a = b
    OBVIOUS
  <2> QED BY <1>1, <2>2, <2>3
<1>4. \A i \in 1 .. Len(s) : s[i] = t[i]
  BY <1>1, <1>2
<1> QED BY <1>1, <1>3, <1>4

-----------------------------------------------------------------------------
(* Names and identities. *)
LEMMA IdentityFacts ==
    ASSUME MailboxAssumption
    PROVE  /\ \A m \in Identities : m \in Names \ {""} /\ Identity(m) = m
           /\ \A n : Identity(Identity(n)) = Identity(n)
           /\ \A n \in Names : Identity(n) \in Names
           /\ \A n \in Names : n # "" => Identity(n) \in Identities
<1>1. \A n : Identity(n) = IF n \in Inboxes THEN "INBOX" ELSE n
  BY DEF Identity
<1>2. Inboxes \subseteq Names \ {""} /\ "INBOX" \in Inboxes
  BY DEF MailboxAssumption
<1> QED BY <1>1, <1>2 DEF Identities

(* What the inventory was asked for, in the words of the scopes: a name is let
   through when account and grant both mean its mailbox. *)
LEMMA ScopeIsMeant ==
    ASSUME MailboxAssumption, account \in MailboxScopes, grant \in MailboxScopes,
           NEW n \in Names, n # ""
    PROVE  MatcherAllows(Matcher(Intersection(account, grant)), n) <=> Identity(n) \in Allowed
<1>1. /\ \A s \in MailboxScopes : s = All \/ s \subseteq Names
      /\ \A s \in SUBSET Names : s # All
  BY DEF MailboxAssumption
<1>2. Identity(n) \in Identities
  BY IdentityFacts
<1>3. CASE account = All /\ grant = All
  BY <1>2, <1>3 DEF Intersection, Matcher, MatcherAllows, Allowed, Meant
<1>4. CASE ~(account = All /\ grant = All)
  <2> DEFINE names == IF account = All THEN grant ELSE account
             other == IF account = All THEN account ELSE grant
             both == {Identity(m) : m \in {x \in names : Allows(other, x)}}
  <2>1. Intersection(account, grant) = both
    BY <1>4 DEF Intersection
  <2>2. names \subseteq Names /\ names # All
    BY <1>1, <1>4
  <2>3. both \subseteq Names /\ both # All
    <3>1. \A x \in names : Identity(x) \in Names
      BY <2>2, IdentityFacts
    <3>2. both \subseteq Names
      BY <3>1
    <3> QED BY <1>1, <3>2
  <2>4. Allowed = Meant(names) \cap Meant(other)
    BY <1>4 DEF Allowed
  <2>5. Meant(names) = {Identity(m) : m \in names}
    BY <2>2 DEF Meant
  <2> HIDE DEF names, other
  <2>6. Matcher(both) = {Identity(m) : m \in both}
    BY <2>3 DEF Matcher
  <2>7. MatcherAllows(Matcher(both), n) <=> \E m \in both : Identity(n) = Identity(m)
    <3>1. {Identity(m) : m \in both} \subseteq Names
      BY <2>3, IdentityFacts
    <3>2. Matcher(both) # All
      BY <1>1, <2>6, <3>1
    <3> QED BY <2>6, <3>2 DEF MatcherAllows
  <2>8. (\E m \in both : Identity(n) = Identity(m))
           <=> \E x \in names : Allows(other, x) /\ Identity(n) = Identity(x)
    BY IdentityFacts
  <2>9. \A x \in names : Identity(n) = Identity(x) => (Allows(other, x) <=> Identity(n) \in Meant(other))
    BY <1>2 DEF Allows, Meant
  <2> QED BY <2>1, <2>4, <2>5, <2>7, <2>8, <2>9
<1> QED BY <1>3, <1>4

(* A reference that is allowed stands for a mailbox that both mean. *)
LEMMA ReferenceIsMeant ==
    ASSUME MailboxAssumption, NEW reference \in Identities,
           Allows(account, reference), Allows(grant, reference)
    PROVE  /\ Identity(reference) \in Allowed
           /\ \A n : MatcherAllows(Matcher({Identity(reference)}), n) => Identity(n) = Identity(reference)
<1>1. Identity(reference) = reference /\ reference \in Names
  BY IdentityFacts
<1>2. Identity(reference) \in Allowed
  BY <1>1 DEF Allowed, Meant, Allows
<1>3. {reference} # All
  BY <1>1 DEF MailboxAssumption
<1>4. Matcher({reference}) = {reference}
  BY <1>1, <1>3 DEF Matcher
<1>5. \A n : MatcherAllows(Matcher({reference}), n) => Identity(n) = reference
  BY <1>3, <1>4 DEF MatcherAllows
<1> QED BY <1>1, <1>2, <1>5

-----------------------------------------------------------------------------
LEMMA InventoryFacts ==
    ASSUME NEW rows
    PROVE  DOMAIN Inventory(rows) = {Identity(row.name) : row \in {r \in rows : r.name # ""}}
BY DEF Inventory

(* What a request may be told: rows of names. *)
LEMMA AnsweredRows ==
    ASSUME MailboxAssumption, MailboxInvariant, NEW scope, NEW rows \in Answered(scope)
    PROVE  \A row \in rows : row.name \in Names
<1>1. DOMAIN server \subseteq Names /\ Inboxes \subseteq Names
  BY IdentityFacts DEF MailboxInvariant, MailboxAssumption
<1>2. ASSUME NEW s, NEW r \in Listed(s), NEW row \in r PROVE row.name \in Names
  <2>1. PICK told \in Spelled(s), odd \in {{}} \cup {{x} : x \in Rows} : r = told \cup odd
    BY <1>2 DEF Listed
  <2>2. \A x \in told : x.name \in Names
    BY <1>1, <2>1 DEF Spelled
  <2>3. \A x \in odd : x.name \in Names
    BY <2>1 DEF Rows
  <2> QED BY <1>2, <2>1, <2>2, <2>3
<1> QED BY <1>2 DEF Answered, Stored

(* Nothing that is there and asked for is left out of an answer. *)
LEMMA AnsweredWhole ==
    ASSUME MailboxAssumption, MailboxInvariant, NEW scope, NEW rows \in Answered(scope),
           NEW m \in DOMAIN server, MatcherAllows(Matcher(scope), m), scope = All \/ scope \subseteq Names
    PROVE  \E row \in rows : row.name # "" /\ Identity(row.name) = m
<1>1. m \in Names \ {""} /\ Identity(m) = m
  BY IdentityFacts DEF MailboxInvariant
<1>2. \A s \in SUBSET Names : s # All
  BY DEF MailboxAssumption
<1>3. \A n : MatcherAllows(Matcher(scope), n) <=> Allows(scope, n)
  <2>1. CASE scope = All
    BY <2>1 DEF MatcherAllows, Matcher, Allows
  <2>2. CASE scope # All
    <3>1. Matcher(scope) = {Identity(n) : n \in scope}
      BY <2>2 DEF Matcher
    <3>2. Matcher(scope) \subseteq Names
      BY <2>2, <3>1, IdentityFacts
    <3> QED BY <1>2, <2>2, <3>1, <3>2 DEF MatcherAllows, Allows
  <2> QED BY <2>1, <2>2
<1>4. ASSUME NEW s, NEW r \in Listed(s), Allows(s, m)
      PROVE  \E row \in r : row.name # "" /\ Identity(row.name) = m
  <2>1. PICK told \in Spelled(s), odd \in {{}} \cup {{x} : x \in Rows} : r = told \cup odd
    BY <1>4 DEF Listed
  <2> DEFINE wanted == {x \in DOMAIN server : Allows(s, x)}
             plain == {[name |-> x, mark |-> server[x]] : x \in wanted \ {"INBOX"}}
             inbox(spellings) == {[name |-> n, mark |-> server["INBOX"]] : n \in spellings}
  <2>2. m \in wanted
    BY <1>4
  <2>3. CASE m # "INBOX"
    <3>1. [name |-> m, mark |-> server[m]] \in plain
      BY <2>2, <2>3
    <3>2. plain \subseteq told
      BY <2>1 DEF Spelled
    <3>3. [name |-> m, mark |-> server[m]] \in r
      BY <2>1, <3>1, <3>2
    <3>4. [name |-> m, mark |-> server[m]].name = m
      OBVIOUS
    <3> QED BY <1>1, <3>3, <3>4
  <2>4. CASE m = "INBOX"
    <3>1. PICK spellings \in (SUBSET Inboxes) \ {{}} : told = plain \cup inbox(spellings)
      BY <2>1, <2>2, <2>4 DEF Spelled
    <3>2. PICK n \in spellings : n \in Inboxes
      BY <3>1
    <3>3. [name |-> n, mark |-> server["INBOX"]] \in r
      BY <2>1, <3>1, <3>2
    <3>4. n # "" /\ Identity(n) = m
      BY <2>4, <3>2 DEF Identity, MailboxAssumption
    <3> QED BY <3>3, <3>4
  <2> QED BY <2>3, <2>4
<1>5. CASE rows \in Listed(scope)
  BY <1>3, <1>4, <1>5
<1>6. CASE rows \in {Stored(scope, r) : r \in Listed(All)}
  <2>1. PICK r \in Listed(All) : rows = Stored(scope, r)
    BY <1>6
  <2>2. Allows(All, m)
    BY DEF Allows
  <2>3. PICK row \in r : row.name # "" /\ Identity(row.name) = m
    BY <1>4, <2>2
  <2>4. MatcherAllows(Matcher(scope), row.name)
    BY <1>1, <2>3 DEF MatcherAllows
  <2> QED BY <2>1, <2>3, <2>4 DEF Stored
<1> QED BY <1>5, <1>6 DEF Answered

-----------------------------------------------------------------------------
(* Two pieces of a list that follow each other. *)
LEMMA PiecesJoin ==
    ASSUME NEW S, NEW s \in Seq(S), NEW p \in Nat, NEW q \in Nat, p <= q, q <= Len(s)
    PROVE  SubSeq(s, 1, p) \o SubSeq(s, p + 1, q) = SubSeq(s, 1, q)
<1>1. Len(s) \in Nat
  OBVIOUS
<1>2. 1 \in 1 .. Len(s) + 1 /\ p \in 1 - 1 .. Len(s) /\ q \in p .. Len(s)
  BY <1>1
<1> QED BY <1>2, ConcatAdjacentSubSeq

LEMMA MailboxesStart ==
    ASSUME MailboxAssumption, MailboxInit
    PROVE  MailboxInvariant
<1>1. /\ server \in [{"INBOX", Order[Len(Order)]} -> MailboxMarks]
      /\ account \in MailboxScopes /\ grant \in MailboxScopes /\ listCursors = {} /\ listed = Absent
  BY DEF MailboxInit
<1>2. "INBOX" \in Identities
  BY DEF Identities, Identity, MailboxAssumption
<1>3. Order[Len(Order)] \in Identities
  <2>1. /\ Order \in Seq(Names)
        /\ {Order[i] : i \in DOMAIN Order} = Identities
    BY DEF MailboxAssumption, Identities, Identity
  <2>2. PICK i \in DOMAIN Order : Order[i] = "INBOX"
    BY <1>2, <2>1
  <2>3. Len(Order) \in DOMAIN Order
    BY <2>1, <2>2
  <2> QED BY <2>1, <2>3
<1> QED BY <1>1, <1>2, <1>3 DEF MailboxInvariant, MailboxListExact, PagesAreTheInventory, WithinScope,
           NothingHidden

LEMMA ListingKeeps ==
    ASSUME MailboxAssumption, MailboxInvariant,
           NEW reference \in Identities \cup {Absent}, NEW cursor \in listCursors \cup {Absent},
           NEW limit \in 1 .. Limit, ListMailboxes(reference, cursor, limit)
    PROVE  MailboxInvariant'
<1> DEFINE scope == Effective(reference)
<1>1. PICK rows \in (IF scope = {} THEN {{}} ELSE Answered(scope)) :
         /\ ~Unusable(scope, rows)
         /\ \E all \in Sorted(Inventory(rows)) :
               \E position \in Standing(cursor, reference, Inventory(rows), Len(all)) :
                  LET end == End(position, limit, Len(all))
                      told == (IF cursor = Absent THEN <<>> ELSE cursor.told)
                                 \o SubSeq(all, position + 1, end)
                  IN IF end = Len(all)
                     THEN /\ listed' = [told |-> told, inventory |-> Inventory(rows),
                                        whole |-> reference = Absent,
                                        allowed |-> Allowed, there |-> DOMAIN server]
                          /\ UNCHANGED listCursors
                     ELSE /\ listCursors' = listCursors \cup
                               {[scope |-> Fingerprint(reference), inventory |-> Inventory(rows),
                                 position |-> end, told |-> told]}
                          /\ UNCHANGED listed
  BY DEF ListMailboxes
<1> DEFINE inventory == Inventory(rows)
<1>2. PICK all \in Sorted(inventory), position \in Nat :
         /\ position \in Standing(cursor, reference, inventory, Len(all))
         /\ LET end == End(position, limit, Len(all))
                told == (IF cursor = Absent THEN <<>> ELSE cursor.told)
                           \o SubSeq(all, position + 1, end)
            IN IF end = Len(all)
               THEN /\ listed' = [told |-> told, inventory |-> inventory,
                                  whole |-> reference = Absent,
                                  allowed |-> Allowed, there |-> DOMAIN server]
                    /\ UNCHANGED listCursors
               ELSE /\ listCursors' = listCursors \cup
                         {[scope |-> Fingerprint(reference), inventory |-> inventory,
                           position |-> end, told |-> told]}
                    /\ UNCHANGED listed
  <2>1. \A a, p : p \in Standing(cursor, reference, inventory, Len(a)) => p \in Nat
    BY DEF Standing, MailboxInvariant, PagesSoFar
  <2> QED BY <1>1, <2>1
<1> DEFINE end == End(position, limit, Len(all))
           before == IF cursor = Absent THEN <<>> ELSE cursor.told
           told == before \o SubSeq(all, position + 1, end)
<1>3. DOMAIN inventory = {Identity(row.name) : row \in {r \in rows : r.name # ""}}
  BY InventoryFacts
<1>4. /\ all \in Seq(DOMAIN inventory) /\ Len(all) \in Nat /\ Told(all) = DOMAIN inventory
  BY SortedFacts
<1>5. before = SubSeq(all, 1, position) /\ position <= Len(all)
  <2>1. CASE cursor = Absent
    <3>1. position = 0 /\ before = <<>>
      BY <1>2, <2>1 DEF Standing
    <3>2. SubSeq(all, 1, position) = <<>>
      BY <3>1, SubSeqEmpty
    <3>3. position <= Len(all)
      BY <1>4, <3>1
    <3> QED BY <3>1, <3>2, <3>3
  <2>2. CASE cursor # Absent
    <3>1. position = cursor.position /\ cursor.inventory = inventory /\ PagesSoFar(cursor)
      BY <1>2, <2>2 DEF Standing, MailboxInvariant
    <3>2. PICK s \in Sorted(cursor.inventory) :
             cursor.position <= Len(s) /\ cursor.told = SubSeq(s, 1, cursor.position)
      BY <3>1 DEF PagesSoFar
    <3>3. s = all
      BY <3>1, <3>2, OneList
    <3> QED BY <2>2, <3>1, <3>2, <3>3
  <2> QED BY <2>1, <2>2
<1>6. end \in Nat /\ position <= end /\ end <= Len(all)
  <2>1. Limit \in Nat
    BY DEF MailboxAssumption
  <2>2. limit \in Nat
    BY <2>1
  <2> QED BY <1>2, <1>4, <1>5, <2>2 DEF End
<1>7. told = SubSeq(all, 1, end)
  BY <1>4, <1>5, <1>6, PiecesJoin
<1>8. UNCHANGED <<server, account, grant>>
  BY DEF ListMailboxes
<1> HIDE DEF scope, inventory, end, before, told
<1>9. CASE /\ end # Len(all)
           /\ listCursors' = listCursors \cup
                    {[scope |-> Fingerprint(reference), inventory |-> inventory,
                      position |-> end, told |-> told]}
           /\ UNCHANGED listed
  <2> DEFINE c == [scope |-> Fingerprint(reference), inventory |-> inventory,
                   position |-> end, told |-> told]
  <2>1. c.inventory = inventory /\ c.position = end /\ c.told = told
    OBVIOUS
  <2> HIDE DEF c
  <2>2. PagesSoFar(c)
    BY <1>2, <1>6, <1>7, <2>1 DEF PagesSoFar
  <2>3. \A d \in listCursors' : PagesSoFar(d)
    BY <1>9, <2>2 DEF MailboxInvariant, c
  <2>4. MailboxListExact'
    BY <1>9 DEF MailboxInvariant, MailboxListExact, PagesAreTheInventory, WithinScope, NothingHidden
  <2> QED BY <1>8, <2>3, <2>4 DEF MailboxInvariant
<1>10. CASE /\ end = Len(all)
           /\ listed' = [told |-> told, inventory |-> inventory, whole |-> reference = Absent,
                         allowed |-> Allowed, there |-> DOMAIN server]
           /\ UNCHANGED listCursors
  <2>1. told = all
    BY <1>4, <1>7, <1>10, SubSeqFull
  <2>2. DOMAIN inventory \subseteq Allowed
    <3> SUFFICES ASSUME NEW m \in DOMAIN inventory PROVE m \in Allowed
      OBVIOUS
    <3>1. PICK row \in rows : row.name # "" /\ Identity(row.name) = m
      BY <1>3
    <3>2. rows \in Answered(scope)
      BY <1>1, <3>1
    <3>3. row.name \in Names
      BY <3>1, <3>2, AnsweredRows
    <3>4. MatcherAllows(Matcher(scope), row.name)
      BY <1>1, <3>1 DEF Unusable
    <3>5. CASE reference = Absent
      BY <3>1, <3>3, <3>4, <3>5, ScopeIsMeant DEF scope, Effective, MailboxInvariant
    <3>6. CASE reference # Absent
      <4>1. /\ Allows(account, reference) /\ Allows(grant, reference) /\ reference \in Identities
        BY <3>6 DEF ListMailboxes
      <4>2. scope = {Identity(reference)}
        BY <3>6 DEF scope, Effective
      <4> QED BY <3>1, <3>4, <4>1, <4>2, ReferenceIsMeant
    <3> QED BY <3>5, <3>6
  <2>3. ASSUME reference = Absent, NEW m \in Allowed, m \in DOMAIN server
        PROVE  m \in DOMAIN inventory
    <3>1. m \in Names /\ m # "" /\ Identity(m) = m
      BY <2>3, IdentityFacts DEF MailboxInvariant
    <3>2. scope = Intersection(account, grant)
      BY <2>3 DEF scope, Effective
    <3>3. MatcherAllows(Matcher(scope), m)
      BY <2>3, <3>1, <3>2, ScopeIsMeant DEF MailboxInvariant
    <3>4. scope = All \/ scope \subseteq Names
      <4>1. ASSUME ~(account = All /\ grant = All)
            PROVE  scope \subseteq Names
        <5> DEFINE names == IF account = All THEN grant ELSE account
                   other == IF account = All THEN account ELSE grant
        <5>1. scope = {Identity(x) : x \in {y \in names : Allows(other, y)}}
          BY <3>2, <4>1 DEF Intersection
        <5>2. names \subseteq Names
          BY <4>1 DEF MailboxInvariant, MailboxAssumption
        <5> HIDE DEF names, other
        <5> QED BY <5>1, <5>2, IdentityFacts
      <4> QED BY <3>2, <4>1 DEF Intersection
    <3>5. scope # {}
      <4>1. CASE scope = {}
        <5>0. {} # All
          <6>1. {} \in SUBSET Names
            OBVIOUS
          <6> QED BY <6>1 DEF MailboxAssumption
        <5>1. Matcher({}) = {} /\ {} # All
          BY <5>0 DEF Matcher
        <5> QED BY <3>3, <4>1, <5>1 DEF MatcherAllows
      <4> QED BY <4>1
    <3>6. PICK row \in rows : row.name # "" /\ Identity(row.name) = m
      BY <1>1, <2>3, <3>3, <3>4, <3>5, AnsweredWhole
    <3> QED BY <1>3, <3>6
  <2>4. MailboxListExact'
    BY <1>2, <1>4, <1>10, <2>1, <2>2, <2>3
       DEF MailboxListExact, PagesAreTheInventory, WithinScope, NothingHidden
  <2>5. (\A c \in listCursors : PagesSoFar(c))'
    BY <1>10 DEF MailboxInvariant, PagesSoFar
  <2> QED BY <1>8, <2>4, <2>5 DEF MailboxInvariant
<1> QED BY <1>2, <1>9, <1>10 DEF end, told, before

LEMMA MailboxStepKeeps ==
    ASSUME MailboxAssumption, MailboxInvariant, [MailboxNext]_mailboxVars
    PROVE  MailboxInvariant'
<1>1. CASE UNCHANGED mailboxVars
  BY <1>1 DEF mailboxVars, MailboxInvariant, PagesSoFar, MailboxListExact, PagesAreTheInventory,
         WithinScope, NothingHidden
<1>2. CASE ServerChanges
  <2>1. UNCHANGED <<account, grant, listCursors, listed>>
    BY <1>2 DEF ServerChanges
  <2>2. DOMAIN server' \subseteq Identities /\ \A m \in DOMAIN server' : server'[m] \in MailboxMarks
    BY <1>2 DEF ServerChanges, MailboxInvariant
  <2>3. MailboxListExact' /\ (\A c \in listCursors : PagesSoFar(c))'
    BY <2>1 DEF MailboxInvariant, PagesSoFar, MailboxListExact, PagesAreTheInventory,
           WithinScope, NothingHidden
  <2> QED BY <2>1, <2>2, <2>3 DEF MailboxInvariant
<1>3. CASE Reconfigure
  BY <1>3 DEF Reconfigure, MailboxInvariant, PagesSoFar, MailboxListExact, PagesAreTheInventory,
         WithinScope, NothingHidden
<1> QED BY <1>1, <1>2, <1>3, ListingKeeps DEF MailboxNext

THEOREM MailboxListStaysExact ==
    ASSUME MailboxAssumption
    PROVE  MailboxSpec => []MailboxListExact
<1>1. MailboxInit => MailboxInvariant
  BY MailboxesStart
<1>2. MailboxInvariant /\ [MailboxNext]_mailboxVars => MailboxInvariant'
  BY MailboxStepKeeps
<1>3. MailboxInvariant => MailboxListExact
  BY DEF MailboxInvariant
<1> QED BY <1>1, <1>2, <1>3, PTL DEF MailboxSpec
-----------------------------------------------------------------------------
(* The admission of frames: what its limits are compared with are numbers. *)
Counters == [wire : Nat, responses : Nat, steps : Nat]
AdmissionInvariant ==
    /\ stream \in Seq(STRING) /\ pos \in 0..Len(stream)
    /\ frame \in Seq(STRING) /\ literal_remaining \in Nat /\ Len(output) \in Nat
    /\ metrics \in Counters
    /\ FramesAdmitted

(* The saturating arithmetic of the limits. *)
LEMMA SaturatingFits ==
    ASSUME NEW a \in Nat, NEW b \in Nat, b <= a
    PROVE  Saturating(a, b) \in Nat /\ b + Saturating(a, b) = a
BY DEF Saturating
LEMMA LeastFits ==
    ASSUME NEW a \in Nat, NEW b \in Nat
    PROVE  Least(a, b) \in Nat /\ Least(a, b) <= a /\ Least(a, b) <= b
BY DEF Least

(* poll_read: an iteration takes no more than every limit leaves. *)
LEMMA AllowanceFits ==
    ASSUME AdmissionAssumption, NEW m \in Counters, NEW size \in Nat, size <= MaxResponseBytes,
           m.wire <= MaxOperationBytes, m.steps <= MaxParserSteps,
           NEW wanted \in Nat, NEW count, count = Least(wanted, Allowance(size, m))
    PROVE  /\ count \in Nat /\ count <= wanted /\ size + count <= MaxResponseBytes
           /\ m.wire + count <= MaxOperationBytes /\ m.steps + count <= MaxParserSteps
<1> DEFINE a == Saturating(MaxResponseBytes, size)
           b == Saturating(MaxOperationBytes, m.wire)
           c == Saturating(MaxParserSteps, m.steps)
<1>1. m.wire \in Nat /\ m.steps \in Nat
  BY DEF Counters
<1>2. MaxResponseBytes \in Nat /\ MaxOperationBytes \in Nat /\ MaxParserSteps \in Nat
  BY DEF AdmissionAssumption
<1>3. /\ a \in Nat /\ size + a = MaxResponseBytes
      /\ b \in Nat /\ m.wire + b = MaxOperationBytes
      /\ c \in Nat /\ m.steps + c = MaxParserSteps
  BY <1>1, <1>2, SaturatingFits
<1>4. count = Least(wanted, Least(a, Least(b, c)))
  BY DEF Allowance
<1> HIDE DEF a, b, c
<1>5. /\ Least(b, c) \in Nat /\ Least(b, c) <= b /\ Least(b, c) <= c
  BY <1>3, LeastFits
<1>6. /\ Least(a, Least(b, c)) \in Nat /\ Least(a, Least(b, c)) <= a
      /\ Least(a, Least(b, c)) <= Least(b, c)
  BY <1>3, <1>5, LeastFits
<1>7. count \in Nat /\ count <= wanted /\ count <= Least(a, Least(b, c))
  BY <1>4, <1>6, LeastFits
<1>8. count <= a /\ count <= b /\ count <= c
  BY <1>3, <1>5, <1>6, <1>7
<1> QED BY <1>1, <1>2, <1>3, <1>7, <1>8

(* line(): a literal is announced within what the frame has left. *)
LEMMA LiteralFits ==
    ASSUME AdmissionAssumption, NEW f \in Seq(STRING), NEW start, NEW nest, NEW k, NEW m,
           NEW l, l = Line(f, start, nest, k, m)
    PROVE  /\ l.literal \in Nat /\ l.literal <= MaxLiteralBytes
           /\ l.literal <= Saturating(MaxResponseBytes, Len(f))
<1> DEFINE line == SubSeq(f, start + 1, Len(f))
           syntax == SubSeq(line, 1, Len(line) - 2)
           what == IF k = "None" THEN Classify(syntax) ELSE k
           st == LineScan(syntax, nest, what # "Other")
           n == LiteralLength[Last(syntax)]
<1>1. 0 <= Saturating(MaxResponseBytes, Len(f)) /\ 0 <= MaxLiteralBytes
  BY DEF AdmissionAssumption, Saturating
<1>2. l.literal = 0 \/ (Announced(syntax, st, what # "Other") /\ LiteralAdmitted(n, Len(f), m)
                        /\ l.literal = n)
  <2>1. CASE Len(line) < 2 \/ line[Len(line) - 1] # "r"
    BY <2>1 DEF Line
  <2>2. CASE ~(Len(line) < 2 \/ line[Len(line) - 1] # "r")
    <3>1. l = LineVerdict(syntax, what, st, Len(f), m)
      BY <2>2 DEF Line, ScannedLine
    <3> HIDE DEF st, what, syntax
    <3> QED BY <3>1 DEF LineVerdict, n
  <2> QED BY <2>1, <2>2
<1> HIDE DEF st, what, syntax
<1>3. Announced(syntax, st, what # "Other") => n \in Nat
  BY DEF Announced, Announcement, LiteralLength
<1> QED BY <1>1, <1>2, <1>3 DEF LiteralAdmitted

(* finish(): what is handed up fits a response, and its work was charged. *)
LEMMA FinishFits ==
    ASSUME AdmissionAssumption, NEW f \in Seq(STRING), Len(f) <= MaxResponseBytes, NEW k,
           NEW m \in Counters, m.steps <= MaxParserSteps,
           NEW done, done = FinishFrame(f, k, m)
    PROVE  /\ done.steps \in Nat /\ done.steps <= MaxParserSteps
           /\ done.error = "none" => Len(done.out) \in Nat /\ Len(done.out) <= MaxResponseBytes
<1> DEFINE norm == Normalize(f, k)
<1>1. norm.error = "none" => Len(norm.out) \in 0..MaxResponseBytes
  <2>1. CASE k = "Other"
    BY <2>1 DEF Normalize, AdmissionAssumption
  <2>2. CASE k # "Other"
    <3>1. PICK end : norm = NormalizeEnd(f, end)
      BY <2>2 DEF Normalize
    <3> HIDE DEF norm
    <3> QED BY <3>1 DEF NormalizeEnd, Fits
  <2> QED BY <2>1, <2>2
<1> HIDE DEF norm
<1>2. done = Charged(f, norm, m.steps, m.steps + 3 * Len(f))
  BY DEF FinishFrame, norm
<1>3. m.steps \in Nat /\ Len(f) \in Nat /\ m.steps + 3 * Len(f) \in Nat
  BY DEF Counters
<1>4. norm.error = "none" => Saturating(Len(norm.out), Len(f)) \in Nat
  BY <1>1, <1>3 DEF Saturating, AdmissionAssumption
<1> QED BY <1>1, <1>2, <1>3, <1>4 DEF Charged, AdmissionAssumption

LEMMA AdmissionStarts ==
    ASSUME AdmissionAssumption, AdmissionInit
    PROVE  AdmissionInvariant
<1>1. stream \in Seq(STRING)
  BY DEF AdmissionAssumption, AdmissionInit
<1>2. frame = <<>> /\ Len(frame) = 0 /\ output = <<>> /\ Len(output) = 0 /\ pos = 0
      /\ literal_remaining = 0 /\ offset = 0
  BY DEF AdmissionInit
<1>3. metrics \in Counters /\ metrics.wire = 0 /\ metrics.responses = 0 /\ metrics.steps = 0
  BY DEF AdmissionInit, Counters
<1> QED BY <1>1, <1>2, <1>3 DEF AdmissionAssumption, AdmissionInvariant, FramesAdmitted, OneAtATime, Bounded

(* poll_read's loop: how much an iteration takes, and of what. *)
LEMMA GatherKeeps ==
    ASSUME AdmissionAssumption, AdmissionInvariant, Gather
    PROVE  AdmissionInvariant'
<1>1. PICK n \in 1..Len(stream) - pos :
         LET available == SubSeq(stream, pos + 1, pos + n)
             fresh == frame = <<>> /\ kind = "None"
             m == IF fresh THEN [metrics EXCEPT !.responses = @ + 1] ELSE metrics
             count == Least(Desired(available), Allowance(Len(frame), m))
             f == frame \o SubSeq(available, 1, count)
             charged == [wire |-> m.wire + count, responses |-> m.responses,
                        steps |-> m.steps + count]
         IN  IF fresh /\ AllCounted(metrics)
             THEN FailWith("Limit") /\ UNCHANGED <<frame, metrics, pos>>
             ELSE IF count = 0
             THEN FailWith("Limit") /\ metrics' = m /\ UNCHANGED <<frame, pos>>
             ELSE /\ pos' = pos + count
                  /\ IF literal_remaining # 0
                     THEN /\ literal_remaining' = literal_remaining - count
                          /\ line_start' = IF literal_remaining = count THEN Len(f) ELSE line_start
                          /\ frame' = f /\ metrics' = charged
                          /\ UNCHANGED <<nesting, kind, output, offset, failure>>
                     ELSE IF Last(f) = "l" THEN LineEnd(f, charged)
                     ELSE /\ frame' = f /\ metrics' = charged
                          /\ UNCHANGED <<line_start, literal_remaining, nesting, kind,
                                         output, offset, failure>>
  BY DEF Gather
<1> DEFINE available == SubSeq(stream, pos + 1, pos + n)
           fresh == frame = <<>> /\ kind = "None"
           m == IF fresh THEN [metrics EXCEPT !.responses = @ + 1] ELSE metrics
           count == Least(Desired(available), Allowance(Len(frame), m))
           f == frame \o SubSeq(available, 1, count)
           charged == [wire |-> m.wire + count, responses |-> m.responses,
                        steps |-> m.steps + count]
<1>2. offset = Len(output) /\ stream' = stream
  BY DEF Gather, GatherWhen
<1>3. /\ stream \in Seq(STRING) /\ frame \in Seq(STRING) /\ metrics \in Counters
      /\ Len(frame) \in Nat /\ Len(stream) \in Nat /\ pos \in Nat /\ pos <= Len(stream)
      /\ literal_remaining \in Nat /\ Len(output) \in Nat
  BY DEF AdmissionInvariant
<1>4. /\ metrics.wire = pos /\ Len(frame) <= MaxResponseBytes /\ Len(output) <= MaxResponseBytes
      /\ metrics.wire <= MaxOperationBytes /\ metrics.responses <= MaxFrames
      /\ metrics.steps <= MaxParserSteps /\ literal_remaining <= MaxLiteralBytes
      /\ Len(frame) + literal_remaining <= MaxResponseBytes
  BY DEF AdmissionInvariant, FramesAdmitted, Bounded
<1>5. metrics.wire \in Nat /\ metrics.responses \in Nat /\ metrics.steps \in Nat
  BY <1>3 DEF Counters
<1>6. /\ MaxResponseBytes \in Nat /\ MaxLiteralBytes \in Nat /\ MaxOperationBytes \in Nat
      /\ MaxParserSteps \in Nat /\ MaxFrames \in Nat
  BY DEF AdmissionAssumption
<1>7. n \in Nat /\ pos + n <= Len(stream)
  BY <1>3
<1>8. SUFFICES /\ pos' \in 0..Len(stream) /\ frame' \in Seq(STRING) /\ literal_remaining' \in Nat
               /\ metrics' \in Counters /\ (frame' # <<>> => offset' = Len(output'))
               /\ Len(output') \in Nat /\ Len(output') <= MaxResponseBytes
               /\ metrics'.wire = pos' /\ Len(frame') <= MaxResponseBytes
               /\ metrics'.wire <= MaxOperationBytes /\ metrics'.responses <= MaxFrames
               /\ metrics'.steps <= MaxParserSteps /\ literal_remaining' <= MaxLiteralBytes
               /\ Len(frame') + literal_remaining' <= MaxResponseBytes
  BY <1>2, <1>3, Zenon DEF AdmissionInvariant, FramesAdmitted, OneAtATime, Bounded
<1> HIDE DEF available, fresh, m, count, f, charged
<1>9. CASE fresh /\ AllCounted(metrics)
  <2>1. UNCHANGED <<pos, frame, literal_remaining, metrics, output, offset>>
    BY <1>1, <1>9 DEF FailWith, fresh
  <2> QED BY <1>2, <1>3, <1>4, <2>1
<1>10. CASE ~(fresh /\ AllCounted(metrics))
  <2>1. /\ m \in Counters /\ m.responses <= MaxFrames
        /\ m.wire = metrics.wire /\ m.steps = metrics.steps
    <3>1. CASE fresh
      <4>1. m = [metrics EXCEPT !.responses = @ + 1] /\ ~(metrics.responses >= MaxFrames)
        BY <1>10, <3>1 DEF AllCounted, m
      <4>2. metrics.responses + 1 \in Nat /\ metrics.responses + 1 <= MaxFrames
        BY <1>4, <1>5, <1>6, <4>1
      <4>3. /\ m \in Counters /\ m.responses = metrics.responses + 1
            /\ m.wire = metrics.wire /\ m.steps = metrics.steps
        BY <1>3, <4>1, <4>2 DEF Counters
      <4> QED BY <4>2, <4>3
    <3>2. CASE ~fresh
      <4>1. m = metrics
        BY <3>2 DEF m
      <4> QED BY <1>3, <1>4, <4>1
    <3> QED BY <3>1, <3>2
  <2>2. available \in Seq(STRING) /\ Len(available) = n
    BY <1>3, <1>7 DEF available
  <2>3. Desired(available) \in Nat /\ Desired(available) <= n
        /\ (literal_remaining # 0 => Desired(available) <= literal_remaining)
    <3>1. CASE literal_remaining # 0
      BY <1>3, <1>7, <2>2, <3>1, LeastFits DEF Desired
    <3>2. CASE literal_remaining = 0
      <4> DEFINE ends == {i \in 1..Len(available) : available[i] = "l"}
      <4>1. ends \subseteq Nat /\ \A i \in ends : i <= n
        BY <1>7, <2>2
      <4>2. Upto(available) = IF ends = {} THEN Len(available)
                              ELSE CHOOSE i \in ends : \A j \in ends : i <= j
        BY DEF Upto
      <4> HIDE DEF ends
      <4>3. ends # {} => Upto(available) \in ends
        BY <4>1, <4>2, LeastNumber
      <4>4. ends = {} => Upto(available) = n
        BY <2>2, <4>2
      <4>5. Upto(available) \in Nat /\ Upto(available) <= n
        <5>1. CASE ends = {}
          BY <1>7, <4>4, <5>1
        <5>2. CASE ends # {}
          BY <4>1, <4>3, <5>2
        <5> QED BY <5>1, <5>2
      <4> QED BY <3>2, <4>5 DEF Desired
    <3> QED BY <3>1, <3>2
  <2>4. /\ count \in Nat /\ count <= Desired(available)
        /\ Len(frame) + count <= MaxResponseBytes
        /\ m.wire + count <= MaxOperationBytes /\ m.steps + count <= MaxParserSteps
    BY <1>3, <1>4, <2>1, <2>3, AllowanceFits DEF count
  <2>5. count <= n /\ (literal_remaining # 0 => count <= literal_remaining)
    BY <1>3, <1>7, <2>3, <2>4
  <2>6. f \in Seq(STRING) /\ Len(f) = Len(frame) + count
    <3>1. /\ SubSeq(available, 1, count) \in Seq(STRING)
          /\ Len(SubSeq(available, 1, count)) = count
      BY <1>7, <2>2, <2>4, <2>5
    <3> QED BY <1>3, <3>1 DEF f
  <2>7. /\ charged \in Counters /\ charged.responses = m.responses
        /\ charged.wire = m.wire + count /\ charged.steps = m.steps + count
    <3>1. m.wire + count \in Nat /\ m.steps + count \in Nat /\ m.responses \in Nat
      BY <2>1, <2>4 DEF Counters
    <3> QED BY <3>1 DEF charged, Counters
  <2>8. /\ pos + count \in 0..Len(stream) /\ Len(f) <= MaxResponseBytes /\ Len(f) \in Nat
    BY <1>3, <1>7, <2>4, <2>5, <2>6
  <2>9. /\ charged.wire <= MaxOperationBytes /\ charged.wire = pos + count
        /\ charged.responses <= MaxFrames /\ charged.steps <= MaxParserSteps
    BY <1>4, <2>1, <2>4, <2>7
  <2>10. CASE count = 0
    <3>1. UNCHANGED <<pos, frame, literal_remaining, output, offset>> /\ metrics' = m
      BY <1>1, <1>10, <2>10 DEF FailWith, fresh, m, available, count
    <3> QED BY <1>2, <1>3, <1>4, <2>1, <3>1
  <2>11. CASE count # 0
    <3>1. /\ pos' = pos + count
          /\ \/ /\ literal_remaining # 0 /\ literal_remaining' = literal_remaining - count
                /\ frame' = f /\ metrics' = charged /\ UNCHANGED <<output, offset>>
             \/ literal_remaining = 0 /\ LineEnd(f, charged)
             \/ /\ literal_remaining = 0 /\ frame' = f /\ metrics' = charged
                /\ UNCHANGED <<literal_remaining, output, offset>>
      BY <1>1, <1>10, <2>11 DEF fresh, m, available, count, f, charged
    <3>2. CASE /\ literal_remaining # 0 /\ literal_remaining' = literal_remaining - count
               /\ frame' = f /\ metrics' = charged /\ UNCHANGED <<output, offset>>
      <4>1. /\ literal_remaining' \in Nat /\ literal_remaining' <= MaxLiteralBytes
            /\ Len(f) + literal_remaining' <= MaxResponseBytes
        BY <1>3, <1>4, <1>6, <2>4, <2>5, <2>6, <3>2
      <4> QED BY <1>2, <1>3, <1>4, <2>6, <2>7, <2>8, <2>9, <3>1, <3>2, <4>1
    <3>3. CASE /\ literal_remaining = 0 /\ frame' = f /\ metrics' = charged
               /\ UNCHANGED <<literal_remaining, output, offset>>
      BY <1>2, <1>3, <1>4, <1>6, <2>6, <2>7, <2>8, <2>9, <3>1, <3>3
    <3>4. CASE literal_remaining = 0 /\ LineEnd(f, charged)
      <4> DEFINE l == Line(f, line_start, nesting, kind, charged)
                 done == FinishFrame(f, l.kind, charged)
      <4>1. /\ l.literal \in Nat /\ l.literal <= MaxLiteralBytes
            /\ Len(f) + l.literal <= MaxResponseBytes
        <5>1. /\ l.literal \in Nat /\ l.literal <= MaxLiteralBytes
              /\ l.literal <= Saturating(MaxResponseBytes, Len(f))
          BY <2>6, LiteralFits
        <5> HIDE DEF l
        <5>2. Saturating(MaxResponseBytes, Len(f)) \in Nat
              /\ Len(f) + Saturating(MaxResponseBytes, Len(f)) = MaxResponseBytes
          BY <1>6, <2>8, SaturatingFits
        <5> QED BY <1>6, <2>8, <5>1, <5>2
      <4>2. /\ done.steps \in Nat /\ done.steps <= MaxParserSteps
            /\ done.error = "none" => Len(done.out) \in Nat /\ Len(done.out) <= MaxResponseBytes
        BY <2>6, <2>7, <2>8, <2>9, FinishFits
      <4> HIDE DEF l, done
      <4>3. \/ literal_remaining' = l.literal /\ frame' = f /\ metrics' = charged
               /\ UNCHANGED <<output, offset>>
            \/ FrameEnd(f, charged, done)
            \/ FailWith(l.verdict) /\ frame' = f /\ metrics' = charged
        BY <3>4 DEF LineEnd, Ended, l, done
      <4>4. CASE literal_remaining' = l.literal /\ frame' = f /\ metrics' = charged
                 /\ UNCHANGED <<output, offset>>
        BY <1>2, <1>3, <1>4, <2>6, <2>7, <2>8, <2>9, <3>1, <4>1, <4>4
      <4>5. CASE FailWith(l.verdict) /\ frame' = f /\ metrics' = charged
        <5>1. UNCHANGED <<literal_remaining, output, offset>>
          BY <4>5 DEF FailWith
        <5> QED BY <1>2, <1>3, <1>4, <1>6, <2>6, <2>7, <2>8, <2>9, <3>1, <3>4, <4>5, <5>1
      <4>6. CASE FrameEnd(f, charged, done)
        <5> DEFINE paid == [charged EXCEPT !.steps = done.steps]
        <5>1. /\ paid \in Counters /\ paid.wire = charged.wire
              /\ paid.responses = charged.responses /\ paid.steps = done.steps
          BY <2>7, <4>2 DEF Counters
        <5>2. CASE done.error = "none"
          <6>1. /\ output' = done.out /\ frame' = <<>> /\ literal_remaining' = 0
                /\ metrics' = paid
            BY <4>6, <5>2 DEF FrameEnd
          <6> HIDE DEF paid
          <6>2. Len(frame') = 0 /\ frame' \in Seq(STRING)
            BY <6>1
          <6> QED BY <1>6, <2>8, <2>9, <3>1, <4>2, <5>1, <5>2, <6>1, <6>2
        <5>3. CASE done.error # "none"
          <6>1. /\ UNCHANGED <<literal_remaining, output, offset>> /\ frame' = f
                /\ metrics' = paid
            BY <4>6, <5>3 DEF FrameEnd, FailWith
          <6> HIDE DEF paid
          <6> QED BY <1>2, <1>3, <1>4, <1>6, <2>6, <2>8, <2>9, <3>1, <3>4, <4>2, <5>1, <6>1
        <5> QED BY <5>2, <5>3
      <4> QED BY <4>3, <4>4, <4>5, <4>6
    <3> QED BY <3>1, <3>2, <3>3, <3>4
  <2> QED BY <2>10, <2>11
<1> QED BY <1>9, <1>10

(* poll_read, line, finish: whatever a server sends, and wherever its bytes are cut
   into chunks, frames come one at a time, within every limit of the operation. *)
THEOREM FramesStayAdmitted ==
    ASSUME AdmissionAssumption
    PROVE  AdmissionSpec => []FramesAdmitted
<1>1. AdmissionInit => AdmissionInvariant
  BY AdmissionStarts
<1>2. AdmissionInvariant /\ [AdmissionNext]_admissionVars => AdmissionInvariant'
  <2> SUFFICES ASSUME AdmissionInvariant, [AdmissionNext]_admissionVars PROVE AdmissionInvariant'
    OBVIOUS
  <2>1. CASE Gather
    BY <2>1, GatherKeeps
  <2>2. CASE StreamEnds
    BY <2>2 DEF StreamEnds, FailWith, AdmissionInvariant, FramesAdmitted, OneAtATime, Bounded
  <2>3. CASE Give
    <3>1. frame = <<>> /\ frame' = frame
      BY <2>3 DEF Give, AdmissionInvariant, FramesAdmitted, OneAtATime
    <3> QED BY <2>3, <3>1 DEF Give, AdmissionInvariant, FramesAdmitted, OneAtATime, Bounded
  <2>4. CASE UNCHANGED admissionVars
    BY <2>4 DEF admissionVars, AdmissionInvariant, FramesAdmitted, OneAtATime, Bounded
  <2> QED BY <2>1, <2>2, <2>3, <2>4 DEF AdmissionNext, Stopped
<1>3. AdmissionInvariant => FramesAdmitted
  BY DEF AdmissionInvariant
<1> QED BY <1>1, <1>2, <1>3, PTL DEF AdmissionSpec
=============================================================================
