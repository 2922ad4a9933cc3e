---------------------------- MODULE MailboxPaging ---------------------------
(***************************************************************************)
(* Mailbox discovery (list_mailboxes in src/service/mailboxes.rs, scopes   *)
(* in src/config.rs, LIST in src/imap.rs).  A page is cut from an          *)
(* inventory made anew for every request from what the server lists; the   *)
(* cursor carries a hash of it.  INBOX has many spellings and one          *)
(* identity.                                                               *)
(***************************************************************************)
EXTENDS Integers, Sequences, FiniteSets

CONSTANTS
    Names,           \* names as they are spelled, "" among them
    Inboxes,         \* the spellings of INBOX among them
    Order,           \* identities in the order of a BTreeMap
    MailboxMarks,    \* whether a mailbox is selectable, and its special use
    NoSelect,        \* the mark of a row that cannot be selected
    MailboxScopes,   \* mailbox scopes the operator may configure
    Limit,           \* limits.mailbox_page
    Maximum,         \* limits.mailbox_inventory
    MaxListChanges,  \* bound: changes of the server and of the configuration
    MaxLists,        \* bound: requests
    All,             \* MailboxScope::All
    Absent           \* no reference, no cursor, no traversal

MailboxAssumption ==
    /\ Inboxes \subseteq Names \ {""} /\ "INBOX" \in Inboxes
    /\ Limit \in Nat \ {0} /\ Maximum \in Nat /\ MaxListChanges \in Nat /\ MaxLists \in Nat
    /\ \A s \in MailboxScopes : s = All \/ s \subseteq Names
    /\ \A s \in SUBSET Names : s # All
    /\ Order \in Seq(Names) /\ \A i, j \in DOMAIN Order : Order[i] = Order[j] => i = j
    /\ {Order[i] : i \in DOMAIN Order} =
           {IF n \in Inboxes THEN "INBOX" ELSE n : n \in Names \ {""}}

VARIABLES
    server,      \* the account's mailboxes: from identity to mark
    revision,    \* the configuration's revision
    account,     \* the scope of the account
    grant,       \* the scope of the grant
    listCursors,     \* listCursors issued, with the names their traversal has returned
    listed,        \* the last traversal that came to its end
    listChanges,
    lists

mailboxVars == <<server, revision, account, grant, listCursors, listed, listChanges, lists>>

\* domain::mailbox_identity
Identity(name) == IF name \in Inboxes THEN "INBOX" ELSE name
Identities == {Identity(n) : n \in Names \ {""}}

\* MailboxScope::allows
Allows(scope, name) ==
    IF scope = All THEN TRUE ELSE \E n \in scope : Identity(n) = Identity(name)

\* MailboxMatcher: the scope indexed once, for a whole inventory.
Matcher(scope) == IF scope = All THEN All ELSE {Identity(n) : n \in scope}
MatcherAllows(matcher, name) == IF matcher = All THEN TRUE ELSE Identity(name) \in matcher

\* MailboxScope::intersection
Intersection(a, b) ==
    IF a = All /\ b = All THEN All
    ELSE LET names == IF a = All THEN b ELSE a
             other == IF a = All THEN a ELSE b
         IN {Identity(n) : n \in {m \in names : Allows(other, m)}}

\* A mailbox reference stands for the one mailbox, if it is still allowed.
Effective(reference) ==
    IF reference = Absent THEN Intersection(account, grant) ELSE {Identity(reference)}

Rows == [name : Names, mark : MailboxMarks]

\* What the server may list: INBOX in any spelling or in several, perhaps a
\* row that says something else of a mailbox, that was not asked for, or that
\* has no name.
Spelled(scope) ==
    LET wanted == {m \in DOMAIN server : Allows(scope, m)}
        plain == {[name |-> m, mark |-> server[m]] : m \in wanted \ {"INBOX"}}
        inbox(spellings) == {[name |-> n, mark |-> server["INBOX"]] : n \in spellings}
    IN IF "INBOX" \in wanted
       THEN {plain \cup inbox(spellings) : spellings \in (SUBSET Inboxes) \ {{}}}
       ELSE {plain}

Listed(scope) ==
    {rows \cup odd : rows \in Spelled(scope), odd \in {{}} \cup {{row} : row \in Rows}}

\* The in-memory provider filters what it holds by the scope.
Stored(scope, rows) == {row \in rows : MatcherAllows(Matcher(scope), row.name)}

Answered(scope) == Listed(scope) \cup {Stored(scope, rows) : rows \in Listed(All)}

\* validate_metadata and the loop over the rows: what makes the answer unusable.
Unusable(scope, rows) ==
    \/ Cardinality(rows) > Maximum
    \/ \E row \in rows :
          \/ row.name = "" /\ ~(scope = All /\ row.mark = NoSelect)
          \/ row.name # "" /\ ~MatcherAllows(Matcher(scope), row.name)
    \/ \E row, other \in rows :
          /\ row.name # "" /\ other.name # ""
          /\ Identity(row.name) = Identity(other.name)
          /\ row.mark # other.mark

\* The inventory made of usable rows.
Inventory(rows) ==
    [m \in {Identity(row.name) : row \in {r \in rows : r.name # ""}} |->
        (CHOOSE row \in rows : Identity(row.name) = m).mark]

\* What iterating over a BTreeMap yields: its keys, all of them, in order.
Precedes(m, n) == \E i, j \in DOMAIN Order : i < j /\ Order[i] = m /\ Order[j] = n
Told(list) == {list[i] : i \in DOMAIN list}
Sorted(inventory) ==
    {list \in UNION {[1 .. n -> DOMAIN inventory] : n \in 0 .. Len(Order)} :
        /\ Told(list) = DOMAIN inventory
        /\ \A i, j \in DOMAIN list : i < j => Precedes(list[i], list[j])}

\* What a cursor is bound to besides the inventory: the fingerprint of the
\* configuration, the context and the reference asked for.
Fingerprint(reference) == <<revision, reference>>

MailboxInit ==
    /\ server \in [{"INBOX", Order[Len(Order)]} -> MailboxMarks]
    /\ revision = 0
    /\ account \in MailboxScopes /\ grant \in MailboxScopes
    /\ listCursors = {}
    /\ listed = Absent
    /\ listChanges = 0 /\ lists = 0

----------------------------------------------------------------------------
End(position, limit, size) == IF position + limit > size THEN size ELSE position + limit

\* Where a presented cursor stands in an inventory of this size, if it still
\* holds.
StandingUnhashed(cursor, reference, inventory, size) ==
    IF cursor = Absent THEN {0}
    ELSE {cursor.position} \cap {p \in 0 .. size - 1 : cursor.scope = Fingerprint(reference)}

Standing(cursor, reference, inventory, size) ==
    IF cursor = Absent THEN {0}
    ELSE {p \in {cursor.position} :
             /\ cursor.scope = Fingerprint(reference)
             /\ cursor.inventory = inventory
             /\ p < size}

\* For the properties: the mailboxes that account and grant both mean.
Meant(scope) == IF scope = All THEN Identities ELSE {Identity(n) : n \in scope}
Allowed == Meant(account) \cap Meant(grant)

\* list_mailboxes, from the authorization to the page.  A request that is
\* refused, stale, or unusable changes nothing.
ListMailboxes(reference, cursor, limit) ==
    /\ lists < MaxLists /\ lists' = lists + 1
    /\ reference # Absent => Allows(account, reference) /\ Allows(grant, reference)
    /\ LET scope == Effective(reference)
       IN \E rows \in IF scope = {} THEN {{}} ELSE Answered(scope) :
          /\ ~Unusable(scope, rows)
          /\ LET inventory == Inventory(rows)
             IN \E all \in Sorted(inventory) :
                /\ reference = Absent \/ all # <<>>
                /\ \E position \in Standing(cursor, reference, inventory, Len(all)) :
                      LET end == End(position, limit, Len(all))
                          told == (IF cursor = Absent THEN <<>> ELSE cursor.told)
                                     \o SubSeq(all, position + 1, end)
                      IN IF end = Len(all)
                         THEN /\ listed' = [told |-> told, inventory |-> inventory,
                                            whole |-> reference = Absent,
                                            allowed |-> Allowed, there |-> DOMAIN server]
                              /\ UNCHANGED listCursors
                         ELSE /\ listCursors' = listCursors \cup
                                   {[scope |-> Fingerprint(reference), inventory |-> inventory,
                                     position |-> end, told |-> told]}
                              /\ UNCHANGED listed
    /\ UNCHANGED <<server, revision, account, grant, listChanges>>

\* Mailboxes come, go and change on the server.
ServerChanges ==
    /\ listChanges < MaxListChanges /\ listChanges' = listChanges + 1
    /\ \E m \in Identities :
          \/ \E mark \in MailboxMarks : server' = [n \in DOMAIN server \cup {m} |->
                                               IF n = m THEN mark ELSE server[n]]
          \/ m # "INBOX" /\ server' = [n \in DOMAIN server \ {m} |-> server[n]]
    /\ UNCHANGED <<revision, account, grant, listCursors, listed, lists>>

\* The operator changes what may be seen; the service is started anew.
Reconfigure ==
    /\ listChanges < MaxListChanges /\ listChanges' = listChanges + 1
    /\ revision' = revision + 1
    /\ account' \in MailboxScopes /\ grant' \in MailboxScopes
    /\ UNCHANGED <<server, listCursors, listed, lists>>

MailboxNext ==
    \/ \E reference \in Identities \cup {Absent}, cursor \in listCursors \cup {Absent},
          limit \in 1 .. Limit : ListMailboxes(reference, cursor, limit)
    \/ ServerChanges \/ Reconfigure

MailboxSpec == MailboxInit /\ [][MailboxNext]_mailboxVars

----------------------------------------------------------------------------
(* Properties                                                              *)

\* The pages of a traversal put together are the inventory, once each and in
\* order: an inventory that changed between them makes the cursor stale
\* instead of dropping or repeating a mailbox.
PagesAreTheInventory == listed # Absent => listed.told \in Sorted(listed.inventory)

\* Nothing is told of a mailbox outside the scopes of the account and of the
\* grant, however INBOX is spelled in them or by the server, and whichever
\* page of the traversal it would have been on.
WithinScope == listed # Absent => Told(listed.told) \subseteq listed.allowed

\* And a traversal that was not about one reference leaves nothing out of what
\* is allowed and there.
NothingHidden ==
    listed # Absent /\ listed.whole => listed.allowed \cap listed.there \subseteq Told(listed.told)

\* list_mailboxes: the pages of a traversal are the inventory, once each and in
\* order (PagesAreTheInventory), nothing outside the scopes (WithinScope) and
\* nothing of what is allowed left out (NothingHidden).
MailboxListExact == PagesAreTheInventory /\ WithinScope /\ NothingHidden
=============================================================================
