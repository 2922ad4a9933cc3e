---------------------------- MODULE SearchPaging ----------------------------
(***************************************************************************)
(* Message search (search_messages in src/service/search.rs) and the       *)
(* descending-UID traversal under it (page in src/search.rs) over a live   *)
(* IMAP selection (src/imap/search.rs) or the in-memory one.               *)
(*                                                                         *)
(* One request examines the mailbox, then alternates between a search of a *)
(* window of UIDs and a fetch of what it found, and hands out a cursor.    *)
(* Every search and every fetch is a round trip: messages arrive, vanish   *)
(* and change their flags between any two of them.  A cursor may be sent   *)
(* again at any later time, and more than once.                            *)
(***************************************************************************)
EXTENDS Integers, Sequences, FiniteSets

CONSTANTS
    MaxUid,        \* bound: UIDs the mailbox ever uses
    Queries,       \* search criteria
    Fuzzable,      \* criteria with a subject or text predicate
    Scopes,        \* fingerprints of what a context may do
    Window,        \* limits.search_uid_window
    Windows,       \* limits.search_windows
    PageLimit,     \* limits.search_page
    Marks,         \* bound: what a message may match
    MaxChanges,    \* bound: changes of the mailbox
    MaxCalls,      \* bound: requests
    Faults,        \* whether the server may answer with anything at all: both, or one
    None

SearchAssumption ==
    /\ MaxUid \in Nat \ {0} /\ MaxChanges \in Nat /\ MaxCalls \in Nat
    /\ Fuzzable \subseteq Queries
    /\ Window \in Nat \ {0} /\ Windows \in Nat \ {0} /\ PageLimit \in Nat \ {0}
    /\ Faults \subseteq BOOLEAN

VARIABLES
    validity,      \* the mailbox's UIDVALIDITY
    uidNext,       \* its UIDNEXT
    hits,          \* per message present: the searches it matches
    fuzzyServer,   \* whether the server the next connection reaches has SEARCH=FUZZY
    faulty,        \* whether the server answers with anything at all
    call,          \* the request in progress, or None
    cursors,       \* cursors issued
    last,          \* the last traversal that ended: what was returned and owed
    changes,
    calls

boxVars == <<validity, uidNext, hits, fuzzyServer, faulty>>
searchVars == <<boxVars, call, cursors, last, changes, calls>>

Uids == 1 .. MaxUid
Present == DOMAIN hits

\* What a request asks; a cursor is bound to it.
Questions == [scope : Scopes, query : Queries, fuzzy : BOOLEAN]

\* The search as the server sees it: with or without FUZZY keys.
Search(question, fuzzy) == <<question.query, fuzzy>>

Matching(range, search) == {u \in Present \cap range : search \in hits[u]}

\* SearchPosition, with the history of its traversal: the messages returned
\* so far (under which UIDVALIDITY), and those that have been there and have
\* matched since it began and are still to be returned.
SearchPositions ==
    [uid_validity : Nat, upper_uid : Nat, next_uid : Nat, fuzzy : BOOLEAN]

Cursor(question, position, seen, owed) ==
    [question |-> question, position |-> position, seen |-> seen, owed |-> owed]

\* AuthenticatedConnection::search decides on FUZZY for this connection.
FuzzyApplies(question) ==
    question.fuzzy /\ fuzzyServer /\ question.query \in Fuzzable

\* Checks on a presented cursor: the service's, then those of page().
ResumableAnyMailbox(c, question) ==
    /\ c.question = question
    /\ c.position.next_uid \in 1 .. c.position.upper_uid
    /\ c.position.fuzzy = FuzzyApplies(question)

Resumable(c, question) ==
    /\ c.question = question
    /\ c.position.next_uid \in 1 .. c.position.upper_uid
    /\ c.position.uid_validity = validity
    /\ c.position.fuzzy = FuzzyApplies(question)

\* upper_uid: UIDNEXT - 1, or UID * when the server did not send UIDNEXT.
UpperUids ==
    {uidNext - 1} \cup {u \in Present \cup {0} : \A v \in Present : v <= u}

Start(question, limit, position, seen, owed, resumed) ==
    [pc |-> "search", question |-> question, limit |-> limit,
     position |-> position, windows |-> Windows, uids |-> <<>>,
     messages |-> <<>>, seen |-> seen, owed |-> owed, resumed |-> resumed]

SearchInit ==
    /\ validity = 1
    /\ hits \in [1 .. MaxUid - 1 -> Marks]
    /\ uidNext = MaxUid
    /\ fuzzyServer \in BOOLEAN /\ faulty \in Faults
    /\ call = None
    /\ cursors = {}
    /\ last = None
    /\ changes = 0
    /\ calls = 0

----------------------------------------------------------------------------
(* The request                                                             *)

\* A first page.  EXAMINE, and the upper bound of the traversal.
FirstPage(question, limit) ==
    /\ call = None /\ calls < MaxCalls
    /\ calls' = calls + 1
    /\ \E upper \in UpperUids :
          LET fuzzy == FuzzyApplies(question)
          IN call' = Start(question, limit,
                           [uid_validity |-> validity, upper_uid |-> upper,
                            next_uid |-> upper, fuzzy |-> fuzzy],
                           <<>>, Matching(1 .. upper, Search(question, fuzzy)), 0)
    /\ UNCHANGED <<boxVars, cursors, last, changes>>

\* A later page.
LaterPage(question, limit) ==
    /\ call = None /\ calls < MaxCalls
    /\ calls' = calls + 1
    /\ \E c \in cursors :
          /\ Resumable(c, question)
          /\ call' = Start(question, limit, c.position, c.seen, c.owed, c.position.next_uid)
    /\ UNCHANGED <<boxVars, cursors, last, changes>>

More ==
    /\ call.windows > 0
    /\ call.position.next_uid # 0
    /\ Len(call.messages) < call.limit

\* The window a search looks at, and where it leaves the position.
First == IF call.position.next_uid < Window THEN 1 ELSE call.position.next_uid - Window + 1

NextUid(found, remaining) ==
    IF Len(found) > remaining THEN found[remaining] - 1 ELSE First - 1

Among(answer) == {answer[i] : i \in DOMAIN answer}

\* Lists of members of S, of all of them, and the one that descends.
Lists(S) == UNION {[1 .. n -> S] : n \in 0 .. MaxUid}
Listings(S) == {s \in Lists(S) : Among(s) = S /\ Cardinality(S) = Len(s)}
Descending(S) ==
    {s \in Lists(S) : Among(s) = S /\ \A i, j \in DOMAIN s : i < j => s[i] > s[j]}

\* The checks page() makes on an answer: nothing from outside what it asked
\* for, and nothing twice.
Valid(answer, asked) ==
    /\ Among(answer) \subseteq asked
    /\ Cardinality(Among(answer)) = Len(answer)

\* What the server sends: the truth in any order, or anything at all.
Answers(truth) == IF faulty THEN UNION {[1 .. n -> Uids] : n \in 0 .. 2} ELSE Listings(truth)

\* One round of page(): search a window, and keep what the page has room for.
SearchWindow ==
    /\ call # None /\ call.pc = "search" /\ More
    /\ \E answer \in Answers(Matching(First .. call.position.next_uid,
                                      Search(call.question, call.position.fuzzy))) :
          /\ Valid(answer, First .. call.position.next_uid)
          /\ \E found \in Descending(Among(answer)) :
                LET remaining == call.limit - Len(call.messages)
                    uids == SubSeq(found, 1, IF Len(found) > remaining THEN remaining
                                             ELSE Len(found))
                IN call' = [call EXCEPT
                              !.position.next_uid = NextUid(found, remaining),
                              !.windows = @ - 1,
                              !.uids = uids,
                              !.pc = IF uids = <<>> THEN "search" ELSE "fetch"]
    /\ UNCHANGED <<boxVars, cursors, last, changes, calls>>

\* Selection::fetch, a UID FETCH: messages that are gone have no row.
Fetched(uids) == Among(uids) \cap Present

\* The rows of those it kept.
Fetch ==
    /\ call # None /\ call.pc = "fetch"
    /\ \E rows \in Answers(Fetched(call.uids)) :
          /\ Valid(rows, Among(call.uids))
          /\ \E found \in Descending(Among(rows)) :
                call' = [call EXCEPT !.messages = @ \o found, !.uids = <<>>, !.pc = "search"]
    /\ UNCHANGED <<boxVars, cursors, last, changes, calls>>

\* The page is answered; its cursor is issued unless the traversal is over.
Finish ==
    /\ call # None /\ call.pc = "search" /\ ~More
    /\ LET seen == call.seen \o [i \in DOMAIN call.messages |-> <<validity, call.messages[i]>>]
           owed == call.owed \ Among(call.messages)
       IN IF call.position.next_uid = 0
          THEN /\ last' = [seen |-> seen, owed |-> owed]
               /\ UNCHANGED cursors
          ELSE /\ cursors' = cursors \cup {Cursor(call.question, call.position, seen, owed)}
               /\ UNCHANGED last
    /\ call' = None
    /\ UNCHANGED <<boxVars, changes, calls>>

\* Any of its round trips fails, an answer is not what was asked for, or the
\* page does not fit the response: nothing is returned and no cursor issued.
FailPage ==
    /\ call # None
    /\ call' = None
    /\ UNCHANGED <<boxVars, cursors, last, changes, calls>>

----------------------------------------------------------------------------
(* The mailbox                                                             *)

Change == changes < MaxChanges /\ changes' = changes + 1

\* Message u is no longer one that has matched throughout the traversals
\* whose search is one of searches.
Forgive(u, searches) ==
    LET lost(t) == Search(t.question, t.position.fuzzy) \in searches
        less(t) == IF lost(t) THEN [t EXCEPT !.owed = @ \ {u}] ELSE t
    IN /\ cursors' = {less(c) : c \in cursors}
       /\ call' = IF call = None THEN None ELSE less(call)

Arrive ==
    /\ Change /\ uidNext <= MaxUid
    /\ \E mark \in Marks : hits' = [u \in Present \cup {uidNext} |->
                                  IF u = uidNext THEN mark ELSE hits[u]]
    /\ uidNext' = uidNext + 1
    /\ UNCHANGED <<validity, fuzzyServer, faulty, call, cursors, last, calls>>

Expunge ==
    /\ Change
    /\ \E u \in Present :
          /\ hits' = [v \in Present \ {u} |-> hits[v]]
          /\ Forgive(u, hits[u])
    /\ UNCHANGED <<validity, uidNext, fuzzyServer, faulty, last, calls>>

Reflag ==
    /\ Change
    /\ \E u \in Present, mark \in Marks :
          /\ mark # hits[u]
          /\ hits' = [hits EXCEPT ![u] = mark]
          /\ Forgive(u, hits[u] \ mark)
    /\ UNCHANGED <<validity, uidNext, fuzzyServer, faulty, last, calls>>

\* The mailbox is deleted and made again: its UIDs start over.  A selection
\* of the old one ends.
Recreate ==
    /\ Change
    /\ validity' = validity + 1
    /\ \E mark \in Marks : hits' = [u \in 1 .. MaxUid - 1 |-> mark]
    /\ uidNext' = MaxUid
    /\ cursors' = {[c EXCEPT !.owed = {}] : c \in cursors}
    /\ call' = None
    /\ UNCHANGED <<fuzzyServer, faulty, last, calls>>

\* Another server of the provider, with other capabilities, answers from now on.
OtherServer ==
    /\ Change /\ call = None
    /\ fuzzyServer' = ~fuzzyServer
    /\ UNCHANGED <<validity, uidNext, hits, faulty, call, cursors, last, calls>>

SearchNext ==
    \/ \E question \in Questions, limit \in 1 .. PageLimit :
          FirstPage(question, limit) \/ LaterPage(question, limit)
    \/ SearchWindow \/ Fetch \/ Finish \/ FailPage
    \/ Arrive \/ Expunge \/ Reflag \/ Recreate \/ OtherServer

SearchSpec == SearchInit /\ [][SearchNext]_searchVars

----------------------------------------------------------------------------
(* Properties                                                              *)

Traversals == cursors \cup ({last} \ {None})

\* A traversal never returns a message twice and never goes back up, however
\* the mailbox changes between its pages and whichever of its cursors is sent
\* again: page()'s next_uid lies below everything it has returned.
NoRepeats ==
    /\ \A t \in Traversals : \A i, j \in DOMAIN t.seen :
          i < j => t.seen[i][2] > t.seen[j][2]
    /\ \A c \in cursors : \A i \in DOMAIN c.seen :
          c.seen[i][2] > c.position.next_uid

\* When search_messages reports complete, every message that was there when
\* the traversal began and has matched ever since has been returned, if the
\* server answers what it is asked.
NoneMissed == last # None /\ ~faulty => last.owed = {}

\* The UIDs a traversal returns all belong to one UIDVALIDITY: a cursor from
\* before the mailbox was made again is refused as stale.
OneMailbox ==
    \A t \in Traversals : \A i, j \in DOMAIN t.seen : t.seen[i][1] = t.seen[j][1]

\* A page that is answered moves its traversal: whoever follows the cursors
\* comes to an end, also through windows in which nothing matches.
Advances ==
    (Finish /\ call.resumed # 0) => call.position.next_uid < call.resumed

\* search_messages: whatever changes between its pages, a traversal returns
\* nothing twice (NoRepeats), all of what matched all the time (NoneMissed), from
\* one UIDVALIDITY (OneMailbox), and every page that is answered moves it on
\* (Advances); a faulty server can neither repeat nor stop it.
TraversalsExact == [][NoRepeats' /\ NoneMissed' /\ OneMailbox' /\ Advances]_searchVars
=============================================================================
