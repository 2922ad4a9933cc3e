----------------------------- MODULE SecretStore -----------------------------
(* The secret of one account in the Secret Service of a desktop session      *)
(* (credentials/linux.rs), as several mailctl processes read, set and delete *)
(* it.  Every step is one D-Bus round trip, after which the operation may    *)
(* fail, time out or lose its process.                                       *)
(*                                                                           *)
(* The service is external.  An item is [attrs, secret, ours]: its           *)
(* attributes are the account's, those of a call that is staging it, or      *)
(* "other"; `ours` says that mailctl made it.  The daemon may be replaced, by *)
(* one with the same items or with others; each has a bus name of its own,   *)
(* which it never gets back.  Calls to the unique name of a daemon that is   *)
(* gone fail; oo7 calls whoever has the well-known name, but an encryption   *)
(* session is known only to the daemon that opened it.                       *)
EXTENDS Integers, FiniteSets

CONSTANTS
    Calls,       \* operations in progress, each with its own D-Bus connection
    Paths,       \* object paths of items: numbers from 1
    MaxDaemon,   \* bound: the daemons there are
    MaxForeign   \* bound: items other programs make for the account

(* A call is none of the attributes and secrets the store has otherwise.    *)
ASSUME StoreAssumption ==
    /\ IsFiniteSet(Paths) /\ Paths \subseteq Nat \ {0} /\ MaxDaemon \in Nat /\ MaxForeign \in Nat
    /\ Calls \cap {"none", "absent", "account", "other", "empty", "theirs"} = {}

VARIABLES
    items, daemon, foreign,
    name_owner,  \* the call that has the account's bus name, "none" when it is free
    op, at, owner, path, created, session,
    returned,    \* what the call returned, "none" while it runs
    value,       \* the secret a resolve has read
    seen         \* the secrets the account had in the store of owner[c] during the call

call == <<op, owner, path, created, session>>
storeVars == <<items, daemon, foreign, name_owner, call, at, returned, value, seen>>

Absent == [attrs |-> "absent", secret |-> "none", ours |-> FALSE]
ItemWith(attrs, secret, ours) == [attrs |-> attrs, secret |-> secret, ours |-> ours]
Published == {p \in Paths : items[p].attrs = "account"}
--------------------------------------------------------------------------
StoreInit ==
    /\ \E start \in {Absent, ItemWith("account", "theirs", FALSE)} :
         items = [p \in Paths |-> IF p = 1 THEN start ELSE Absent]
    /\ daemon = 1 /\ foreign = 0 /\ name_owner = "none"
    /\ op = [c \in Calls |-> "none"] /\ at = [c \in Calls |-> "idle"]
    /\ owner = [c \in Calls |-> 0] /\ path = [c \in Calls |-> 0]
    /\ created = [c \in Calls |-> FALSE] /\ session = [c \in Calls |-> 0]
    /\ returned = [c \in Calls |-> "none"] /\ value = [c \in Calls |-> "none"]
    /\ seen = [c \in Calls |-> {}]

(* What a call whose daemon is still there could have read so far. *)
Sees ==
    seen' = [c \in Calls |->
               IF at'[c] \notin {"idle", "done"} /\ owner'[c] = daemon'
               THEN seen[c] \cup {items'[p].secret : p \in {q \in Paths : items'[q].attrs = "account"}}
               ELSE seen[c]]

Moves(c, to) == at' = [at EXCEPT ![c] = to] /\ UNCHANGED <<name_owner, returned>>
(* Returning drops the connection, and with it the name.                    *)
Returns(c, r) ==
    /\ at' = [at EXCEPT ![c] = "done"] /\ returned' = [returned EXCEPT ![c] = r]
    /\ name_owner' = IF name_owner = c THEN "none" ELSE name_owner

(* An error while a staged item is not yet the account's deletes it first.  *)
Fails(c, r) ==
    IF created[c] /\ at[c] \in {"item", "search", "checked", "secret", "verify", "vacant"}
    THEN /\ at' = [at EXCEPT ![c] = "cleanup"] /\ returned' = [returned EXCEPT ![c] = r]
         /\ UNCHANGED name_owner
    ELSE Returns(c, r)

World == UNCHANGED <<items, daemon, foreign>>

(* Service::connect *)
Connect(c) ==
    /\ at[c] = "idle"
    /\ \E o \in {"set", "delete", "resolve", "availability"} :
         /\ op' = [op EXCEPT ![c] = o]
         /\ Moves(c, IF o \in {"set", "delete"} THEN "lock" ELSE "find")
    /\ owner' = [owner EXCEPT ![c] = daemon]
    /\ UNCHANGED <<path, created, session, value>> /\ World

(* lock_mutation: the name is not queued for.                               *)
LockFree(c) == name_owner = "none"
LockMutation(c) ==
    /\ at[c] = "lock"
    /\ IF LockFree(c)
       THEN name_owner' = c /\ at' = [at EXCEPT ![c] = "find"] /\ UNCHANGED returned
       ELSE Returns(c, "Unavailable")
    /\ UNCHANGED <<call, value>> /\ World

(* find, and what each operation makes of it.                               *)
Find(c) ==
    /\ at[c] = "find" /\ owner[c] = daemon
    /\ \/ /\ Cardinality(Published) > 1 /\ Returns(c, "Internal") /\ UNCHANGED <<path, created>>
       \/ /\ Published = {} /\ UNCHANGED path
          /\ IF op[c] = "set" THEN Moves(c, "encrypt") ELSE Returns(c, "Missing")
          /\ created' = [created EXCEPT ![c] = op[c] = "set"]
       \/ /\ Cardinality(Published) = 1 /\ path' = [path EXCEPT ![c] = CHOOSE p \in Published : TRUE]
          /\ CASE op[c] = "availability" -> Returns(c, "Available")
               [] op[c] = "delete" -> Moves(c, "delete")
               [] OTHER -> Moves(c, "encrypt")
          /\ UNCHANGED created
    /\ UNCHANGED <<op, owner, session, value>> /\ World

(* check_owner *)
SameOwner(c) == owner[c] = daemon
CheckOwner(c, from, to) ==
    /\ at[c] = from
    /\ IF SameOwner(c) THEN Moves(c, to) ELSE Fails(c, "Unavailable")
    /\ UNCHANGED <<call, value>> /\ World

(* encrypted, between its two checks.                                       *)
OpenSession(c) ==
    /\ at[c] = "session" /\ session' = [session EXCEPT ![c] = daemon] /\ Moves(c, "encrypted")
    /\ UNCHANGED <<op, owner, path, created, value>> /\ World

(* create_staging_item: empty, and found by nobody.                         *)
AccountAttributes(c) == "account"
StagingAttributes(c) == c
CreateStagingItem(c) ==
    /\ at[c] = "create" /\ owner[c] = daemon
    /\ \E p \in Paths :
         /\ items[p] = Absent
         /\ items' = [items EXCEPT ![p] = ItemWith(StagingAttributes(c), "empty", TRUE)]
         /\ path' = [path EXCEPT ![c] = p]
    /\ Moves(c, "item")
    /\ UNCHANGED <<op, owner, created, session, value, daemon, foreign>>

(* item: found again through oo7, by path and attributes.                   *)
SearchItem(c) ==
    /\ at[c] = "search"
    /\ IF items[path[c]].attrs = (IF created[c] THEN c ELSE "account")
       THEN Moves(c, "checked") ELSE Fails(c, "Missing")
    /\ UNCHANGED <<call, value>> /\ World

(* Item::secret and Item::set_secret                                        *)
Secret(c) ==
    /\ at[c] = "secret"
    /\ IF session[c] # daemon \/ items[path[c]] = Absent
       THEN Fails(c, "Unavailable") /\ UNCHANGED <<items, value>>
       ELSE /\ Moves(c, "verify")
            /\ IF op[c] = "set"
               THEN items' = [items EXCEPT ![path[c]].secret = c] /\ UNCHANGED value
               ELSE value' = [value EXCEPT ![c] = items[path[c]].secret] /\ UNCHANGED items
    /\ UNCHANGED <<call, daemon, foreign>>
Verify(c) ==
    /\ at[c] = "verify"
    /\ IF value[c] = "empty" THEN Returns(c, "InvalidSecret")
       ELSE IF ~SameOwner(c) THEN Fails(c, "Unavailable")
       ELSE IF created[c] THEN Moves(c, "vacant") ELSE Returns(c, "Ok")
    /\ UNCHANGED <<call, value>> /\ World

(* set: the account must still have no item when the staged one becomes it. *)
Vacant(c) ==
    /\ at[c] = "vacant" /\ owner[c] = daemon
    /\ IF Published = {} THEN Moves(c, "publish") ELSE Fails(c, "Internal")
    /\ UNCHANGED <<call, value>> /\ World
PublishItem(c) ==
    /\ at[c] = "publish"
    /\ IF items[path[c]] = Absent THEN Fails(c, "Missing") /\ UNCHANGED items
       ELSE Moves(c, "published") /\ items' = [items EXCEPT ![path[c]].attrs = "account"]
    /\ UNCHANGED <<call, value, daemon, foreign>>
Confirm(c) ==
    /\ at[c] = "confirm" /\ owner[c] = daemon
    /\ Returns(c, IF Published = {path[c]} THEN "Ok" ELSE "Internal")
    /\ UNCHANGED <<call, value>> /\ World

(* Service::delete, of the account's item or of what was staged.            *)
Delete(c) ==
    /\ at[c] \in {"delete", "cleanup"} /\ owner[c] = daemon
    /\ IF at[c] = "cleanup" THEN Returns(c, returned[c])
       ELSE Returns(c, IF items[path[c]] = Absent THEN "Missing" ELSE "Ok")
    /\ items' = [items EXCEPT ![path[c]] = Absent]
    /\ UNCHANGED <<call, value, daemon, foreign>>

(* A call is refused, needs a prompt that is dismissed, or goes to a daemon *)
(* that is gone; a failed cleanup changes nothing.                          *)
Refused(c) ==
    /\ at[c] \notin {"idle", "done"}
    /\ IF at[c] = "cleanup" THEN Returns(c, returned[c]) ELSE Fails(c, "Unavailable")
    /\ UNCHANGED <<call, value>> /\ World

(* run: the timeout drops the operation where it is, and so does the death  *)
(* of the process.                                                          *)
TimesOut(c) ==
    /\ at[c] \notin {"idle", "done"} /\ Returns(c, "Unavailable")
    /\ UNCHANGED <<call, value>> /\ World
--------------------------------------------------------------------------
Replaced ==
    /\ daemon < MaxDaemon /\ daemon' = daemon + 1
    /\ items' \in {items, [p \in Paths |-> Absent],
                   [p \in Paths |-> ItemWith(IF p = 1 THEN "account" ELSE "other", "theirs", FALSE)]}
    /\ UNCHANGED <<foreign, name_owner, call, at, returned, value>>
ForeignItem ==
    /\ foreign < MaxForeign /\ foreign' = foreign + 1
    /\ \E p \in Paths :
         items[p] = Absent /\ items' = [items EXCEPT ![p] = ItemWith("account", "theirs", FALSE)]
    /\ UNCHANGED <<daemon, name_owner, call, at, returned, value>>

Step(c) ==
    \/ Connect(c) \/ LockMutation(c) \/ Find(c)
    \/ CheckOwner(c, "encrypt", "session") \/ OpenSession(c)
    \/ CheckOwner(c, "encrypted", IF created[c] THEN "create" ELSE "item")
    \/ CreateStagingItem(c)
    \/ CheckOwner(c, "item", "search") \/ SearchItem(c) \/ CheckOwner(c, "checked", "secret")
    \/ Secret(c) \/ Verify(c) \/ Vacant(c) \/ PublishItem(c)
    \/ CheckOwner(c, "published", "confirm") \/ Confirm(c) \/ Delete(c)
    \/ Refused(c) \/ TimesOut(c)
StoreNext == ((\E c \in Calls : Step(c)) \/ Replaced \/ ForeignItem) /\ Sees
StoreSpec == StoreInit /\ [][StoreNext]_storeVars
--------------------------------------------------------------------------
(* The type invariant.                                                      *)
Attributes == {"absent", "other", "account"} \cup Calls
Secrets == {"none", "empty", "theirs"} \cup Calls
Phases == {"idle", "lock", "find", "encrypt", "session", "encrypted", "create", "item", "search",
           "checked", "secret", "verify", "vacant", "publish", "published", "confirm", "delete",
           "cleanup", "done"}
StoreTyped ==
    /\ items \in [Paths -> [attrs : Attributes, secret : Secrets, ours : BOOLEAN]]
    /\ daemon \in Nat /\ foreign \in Nat /\ name_owner \in Calls \cup {"none"}
    /\ op \in [Calls -> {"none", "set", "delete", "resolve", "availability"}]
    /\ at \in [Calls -> Phases]
    /\ owner \in [Calls -> Nat] /\ session \in [Calls -> Nat] /\ created \in [Calls -> BOOLEAN]
    /\ path \in [Calls -> Paths \cup {0}]
    /\ returned \in [Calls -> {"none", "Unavailable", "Internal", "Missing", "Available",
                                "InvalidSecret", "Ok"}]
    /\ value \in [Calls -> Secrets] /\ seen \in [Calls -> SUBSET Secrets]

(* set: however operations overlap, fail or die, mailctl never gives an     *)
(* account two items.                                                       *)
OneItemOfOurs == Cardinality({p \in Published : items[p].ours}) <= 1

(* create_staging_item, set: what mailctl publishes for the account has its *)
(* secret already, at every moment.                                         *)
WholeSecret == \A p \in Published : items[p].secret # "empty"

(* resolve: the secret returned was the account's, in the store of the      *)
(* daemon that was asked for it, at some moment of the call; or it is one a *)
(* set staged at the same path, for a service that gives the path of a      *)
(* deleted item to the next one.                                            *)
ResolvedWasStored ==
    \A c \in Calls : op[c] = "resolve" /\ returned[c] = "Ok" =>
      \/ value[c] \in seen[c]
      \/ \E d \in Calls : value[c] = d /\ op[d] = "set" /\ created[d] /\ path[d] = path[c]

(* set: when it succeeds the account has this secret and no other.          *)
SetTakes ==
    \A c \in Calls : (op[c] = "set" /\ returned[c] = "none" /\ returned'[c] = "Ok") =>
      /\ \E p \in Published : items[p].secret = c
      /\ Cardinality(Published) = 1 \/ foreign > 0

(* set, delete and resolve together: the account's item is one, has its     *)
(* secret, and is what set made it and resolve returns.                     *)
StoreConsistent ==
    /\ [](OneItemOfOurs /\ WholeSecret /\ ResolvedWasStored)
    /\ [][SetTakes]_storeVars
=============================================================================
