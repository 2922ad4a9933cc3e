----------------------------- MODULE MCReading -----------------------------
(* Reading: searches, mailbox lists and the text of messages in pages, which this
   module extends, and the choice of the body among the parts of a message. They
   are independent of each other here: component says whose behaviour it is. *)
EXTENDS SearchPaging, MailboxPaging, BodyPages, SequencesExt

VARIABLES
    component,  \* whose behaviour this is
    tree, mime, stage, plan, header_bytes, related_ids, selected, attachments, resolved

selectionVars == <<tree, mime, stage, plan, header_bytes, related_ids, selected, attachments,
        resolved>>
suiteVars == <<component, searchVars, mailboxVars, selectionVars, bodyVars>>

(* A message matches the text query, only when it is fuzzy, or the flag query. *)
MessageMarks == {{}, {<<"q1", FALSE>>, <<"q1", TRUE>>}, {<<"q1", TRUE>>, <<"q2", FALSE>>}}
FlagMarks == {{}, {<<"q2", FALSE>>}}

NameOrder == <<"A", "INBOX", "b">>

PagesGranted == [c1 |-> 6, c2 |-> 4]

ScopesTried == {All, {"inbox", "A"}, {"INBOX", "b"}, {"b"}}

(* MIME structures: nested alternatives and related parts, and odd ones. *)
Node(type, att, id, start, kids) ==
    [type |-> type, att |-> att, id |-> id, start |-> start, kids |-> kids]
Plain == Node("plain", FALSE, "none", "none", <<>>)
Html == Node("html", FALSE, "none", "none", <<>>)
HtmlA == Node("html", FALSE, "a", "none", <<>>)
ImageA == Node("other", FALSE, "a", "none", <<>>)
ImageBad == Node("other", FALSE, "bad", "none", <<>>)
File == Node("other", TRUE, "none", "none", <<>>)
AttachedText == Node("plain", TRUE, "none", "none", <<>>)
Embedded == Node("message", TRUE, "none", "none", <<Plain>>)
Shown == Node("message", FALSE, "none", "none", <<Plain>>)
Leaves == {Plain, Html, HtmlA, ImageA, AttachedText}

Kids1(S) == {<<a>> : a \in S}
Kids2(S) == {<<a, b>> : a \in S, b \in S}
Multi(kidss) ==
    {Node(t, FALSE, "none", "none", k) : t \in {"mixed", "alternative"}, k \in kidss}
      \cup {Node("related", FALSE, "none", "a", k) : k \in kidss}
Inner == Multi(Kids1({Plain, Html, HtmlA}) \cup Kids2({Plain, Html, ImageA}))
Small ==
    Node("related", FALSE, "none", "a", <<Html, Node("mixed", FALSE, "none", "none", <<Plain>>)>>)
Turning ==
    Node("related", FALSE, "none", "a", <<Plain, Node("mixed", FALSE, "none", "none", <<Html>>)>>)
Sample == {Plain, Html, HtmlA, Small, Turning,
           Node("alternative", FALSE, "none", "none", <<Html, Plain>>),
           Node("mixed", TRUE, "none", "none", <<Plain, File>>)}

Trees ==
    Multi(Kids2(Leaves \cup Inner))
      \cup Multi({<<a, b, c>> : a \in Sample, b \in Sample, c \in Sample})

Odd == {Plain, File, AttachedText, Embedded, Shown, ImageBad,
        Node("mixed", TRUE, "none", "none", <<Plain, File>>),
        Node("related", FALSE, "none", "bad", <<Plain>>),
        Node("mixed", FALSE, "none", "none",
             <<Node("mixed", FALSE, "none", "none", <<File>>), Plain>>)}
OddTrees ==
    Odd \cup Multi(Kids1(Odd) \cup Kids2(Odd))
      \cup Multi({<<a, Small>> : a \in Odd})

Header(id, size, ending) == [id |-> id, size |-> size, ending |-> ending]
IdHeaders == {Header("none", 4, "separator"), Header("a", 4, "separator")}
HeaderShapes ==
    {Header("none", 2, "line"), Header("a", 4, "line"), Header("none", 5, "separator"),
     Header("a", 6, "separator"), Header("none", 3, "torn"), Header("bad", 4, "separator")}

(* Bodies: two in several scripts, one unreadable, and some whose declared sizes
   are exact, too small, too large or beyond a limit. The last digit of a
   character is its width in UTF-8 bytes. *)
Text(characters) ==
    [k \in DOMAIN characters |->
        <<characters[k], FoldLeft(LAMBDA sum, character : sum + (character % 10), 0,
                                  SubSeq(characters, 1, k))>>]
Body(single, size, header, wire, actual, characters) ==
    [single |-> single, size |-> size, header |-> header, wire |-> wire, actual |-> actual,
     text |-> Text(characters)]
BodyContents ==
    [b1 |-> Body(TRUE, 6, 2, 4, 4, <<11, 24, 31, 43>>),
     b2 |-> Body(TRUE, 6, 2, 4, 4, <<61, 24, 51>>),
     b3 |-> Body(FALSE, 9, 2, 5, 3, <<>>),
     exact |-> Body(FALSE, 7, 2, 5, 5, <<14, 24, 34>>),
     short |-> Body(FALSE, 7, 2, 3, 5, <<11, 21>>),
     hidden |-> Body(TRUE, 5, 2, 3, 4, <<11, 21>>),
     padded |-> Body(TRUE, 7, 2, 3, 4, <<11, 21>>),
     large |-> Body(TRUE, 12, 8, 4, 4, <<14, 21>>),
     long |-> Body(FALSE, 20, 2, 12, 12, <<11>>)]
DeclaredSizes == {"b1", "b3", "exact", "short", "hidden", "padded", "large", "long"}

(* Searches with and without FUZZY, and a server that answers with anything;
   mailboxes that can all be selected, in longer traversals. *)
S == INSTANCE SearchPaging WITH MaxUid <- 3, Queries <- {"q1", "q2"}, Fuzzable <- {"q1"},
        Marks <- MessageMarks
F == INSTANCE SearchPaging WITH Scopes <- {"p1", "p2"}, Windows <- 3, Marks <- {{}},
        MaxChanges <- 0, Faults <- {TRUE}
M == INSTANCE MailboxPaging WITH MailboxMarks <- {"plain"}, MaxLists <- 3
P == INSTANCE BodySelection WITH HeaderShapes <- IdHeaders, MaxNesting <- 6,
        MaxMimeParts <- 20, MaxHeaderBytes <- 100, listed <- attachments
O == INSTANCE BodySelection WITH Trees <- OddTrees, MaxNesting <- 4, MaxMimeParts <- 6,
        MaxHeaderBytes <- 13, listed <- attachments
Z == INSTANCE BodyPages WITH Callers <- {"c1"}, TextPageBytes <- [c1 |-> 5],
        Bodies <- DeclaredSizes, ChunkBytes <- 3, MaxBytesAsked <- {4},
        Backends <- {"imap"}, MaxValidity <- 1

-----------------------------------------------------------------------------
(* A component that is not the one at work has no state, or rests in an initial
   one. *)
Unused == "unused"
SearchRests ==
    SearchInit /\ hits = [u \in 1 .. MaxUid - 1 |-> {}] /\ ~fuzzyServer /\ ~faulty
MailboxesRest ==
    /\ MailboxInit /\ account = All /\ grant = All
    /\ \A m \in DOMAIN server : server[m] # NoSelect
BodiesRest ==
    BodyInit /\ backend = "memory" /\ box = [u \in MessageUids |-> "b1"]
SelectionIdle == tree = Unused /\ mime = Unused /\ stage = Unused /\ plan = Unused
        /\ header_bytes = Unused /\ related_ids = Unused /\ selected = Unused
        /\ attachments = Unused /\ resolved = Unused

SuiteInit ==
    \/ component = "fuzzy" /\ S!SearchInit /\ MailboxesRest /\ SelectionIdle /\ BodiesRest
    \/ component = "changing" /\ SearchInit /\ MailboxesRest /\ SelectionIdle /\ BodiesRest
    \/ component = "faulty" /\ F!SearchInit /\ MailboxesRest /\ SelectionIdle /\ BodiesRest
    \/ component = "mailboxes" /\ M!MailboxInit /\ SearchRests /\ SelectionIdle /\ BodiesRest
    \/ component = "selectable" /\ MailboxInit /\ SearchRests /\ SelectionIdle /\ BodiesRest
    \/ component = "plan" /\ P!Init /\ SearchRests /\ MailboxesRest /\ BodiesRest
    \/ component = "parts" /\ O!Init /\ SearchRests /\ MailboxesRest /\ BodiesRest
    \/ component = "pages" /\ BodyInit /\ SearchRests /\ MailboxesRest /\ SelectionIdle
    \/ component = "sizes" /\ Z!BodyInit /\ SearchRests /\ MailboxesRest /\ SelectionIdle

SearchStep ==
    /\ \/ component = "fuzzy" /\ S!SearchNext
       \/ component = "changing" /\ SearchNext
       \/ component = "faulty" /\ F!SearchNext
    /\ UNCHANGED <<component, mailboxVars, selectionVars, bodyVars>>
MailboxStep ==
    /\ \/ component = "mailboxes" /\ M!MailboxNext
       \/ component = "selectable" /\ MailboxNext
    /\ UNCHANGED <<component, searchVars, selectionVars, bodyVars>>
PlanStep ==
    /\ component = "plan" /\ P!Next
    /\ UNCHANGED <<component, searchVars, mailboxVars, bodyVars>>
PartsStep ==
    /\ component = "parts" /\ O!Next
    /\ UNCHANGED <<component, searchVars, mailboxVars, bodyVars>>
PagesStep ==
    /\ component = "pages" /\ BodyNext
    /\ UNCHANGED <<component, searchVars, mailboxVars, selectionVars>>
SizesStep ==
    /\ component = "sizes" /\ Z!BodyNext
    /\ UNCHANGED <<component, searchVars, mailboxVars, selectionVars>>

SuiteNext ==
    SearchStep \/ MailboxStep \/ PlanStep \/ PartsStep \/ PagesStep \/ SizesStep
SuiteSpec == SuiteInit /\ [][SuiteNext]_suiteVars

-----------------------------------------------------------------------------
ASSUME InstanceAssumption ==
    /\ SearchAssumption /\ S!SearchAssumption /\ F!SearchAssumption
    /\ MailboxAssumption /\ M!MailboxAssumption
    /\ BodyAssumption /\ Z!BodyAssumption

(* related_headers, select_part and list_attachments: the headers not fetched
   could not have changed the choice (PlanSuffices), the body is the message's own
   text (BodyIsOwnText), a part that is listed can be read (ListedIsReadable),
   and the sections share one header budget (HeaderBudget). *)
SelectionSound ==
    /\ component = "plan" => P!PlanSuffices
    /\ component = "parts" => O!BodyIsOwnText /\ O!ListedIsReadable /\ O!HeaderBudget
=============================================================================
