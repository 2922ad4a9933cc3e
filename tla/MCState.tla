------------------------------ MODULE MCState ------------------------------
(* State on disk and what it authorizes: the installation's registry and
   locks, the grants of a service over its lives, and the draft journal that
   accounts share. They are independent of each other here: component says
   whose behaviour it is, and the others stay at their initial states. *)
EXTENDS DraftService, Installation, Authority

VARIABLES
    component   \* whose behaviour this is

suiteVars == <<component, installationVars, authorityVars, vars>>

(* One account: two servers, another credential, history kept, and removed. *)
Account(route, secret, retain) == [route |-> route, secret |-> secret, retain |-> retain]
Edited == {"k1" :> Account("r1", "s1", FALSE), "k1" :> Account("r2", "s1", FALSE),
           "k1" :> Account("r1", "s2", TRUE), <<>>}
Moves == {"k1" :> Account(r, "s1", FALSE) : r \in {"r1", "r2", "r3"}}
AllSettings == Edited \cup Moves

(* A wide grant and a narrow one.  The account moves to another server, where
   the wide grant may finish old drafts, and back; the narrow grant is changed
   to cover the other mailbox. *)
GrantOf(profile, boxes, historical) ==
    [profile |-> profile, keys |-> {"k1"}, boxes |-> boxes, historical |-> historical]
FirstDrafts == {[key |-> "k1", generation |-> 1, box |-> "b1"]}
Configuration(route, retain, boxes, historical, narrow) ==
    [accounts |-> ("k1" :> Account(route, "s1", retain)), boxes |-> ("k1" :> boxes),
     grants |-> [g1 |-> GrantOf("ReadAndDrafts", {"b1", "b2"}, historical),
                 g2 |-> GrantOf("ReadOnly", narrow, {})]]
AllConfigurations == {Configuration("r1", TRUE, {"b1", "b2"}, {}, {"b1"}),
                      Configuration("r2", TRUE, {"b2"}, FirstDrafts, {"b1"}),
                      Configuration("r1", FALSE, {"b2"}, {}, {"b2"})}

MCDraftsBox == [r1 |-> "b1", r2 |-> "b2", r3 |-> "b2"]

(* Two processes; one process and more edits; snapshots of an account that moves. *)
I == INSTANCE Installation WITH Configs <- Edited
J == INSTANCE Installation WITH Configs <- Edited, Procs <- {"p1"}, MaxEdits <- 3
K == INSTANCE Installation WITH Configs <- Moves, Losses <- FALSE, Restores <- TRUE
(* Three lives and one reference; two and two. *)
L == INSTANCE Authority WITH Routes <- {"r1", "r2"}, MaxLives <- 3, MaxTokens <- 1
R == INSTANCE Authority WITH Routes <- {"r1", "r2"}

(* Two operations of one account each. *)
MCAccountOf == [o1 |-> "a1", o2 |-> "a2"]

-----------------------------------------------------------------------------
InstallationIdle == InstallationInit /\ file = <<>>
AuthorityIdle == AuthorityInit /\ config = Configuration("r1", TRUE, {"b1", "b2"}, {}, {"b1"})

SuiteInit ==
    \/ component \in {"starts", "edits"} /\ I!InstallationInit /\ AuthorityIdle /\ Init
    \/ component = "snapshots" /\ K!InstallationInit /\ AuthorityIdle /\ Init
    \/ component \in {"lives", "references"} /\ AuthorityInit /\ InstallationIdle /\ Init
    \/ component = "drafts" /\ Init /\ InstallationIdle /\ AuthorityIdle

StartsStep ==
    /\ component = "starts" /\ I!InstallationNext
    /\ UNCHANGED <<component, authorityVars, vars>>
EditsStep ==
    /\ component = "edits" /\ J!InstallationNext
    /\ UNCHANGED <<component, authorityVars, vars>>
SnapshotsStep ==
    /\ component = "snapshots" /\ K!InstallationNext
    /\ UNCHANGED <<component, authorityVars, vars>>
LivesStep ==
    /\ component = "lives" /\ L!AuthorityNext
    /\ UNCHANGED <<component, installationVars, vars>>
ReferencesStep ==
    /\ component = "references" /\ R!AuthorityNext
    /\ UNCHANGED <<component, installationVars, vars>>
DraftsStep ==
    /\ component = "drafts" /\ Next
    /\ UNCHANGED <<component, installationVars, authorityVars>>

SuiteNext == StartsStep \/ EditsStep \/ SnapshotsStep \/ LivesStep \/ ReferencesStep
    \/ DraftsStep
SuiteSpec == SuiteInit /\ [][SuiteNext]_suiteVars

-----------------------------------------------------------------------------
ASSUME InstanceAssumption ==
    /\ InstallationAssumption /\ I!InstallationAssumption /\ J!InstallationAssumption
    /\ K!InstallationAssumption
    /\ AuthorityAssumption /\ L!AuthorityAssumption /\ R!AuthorityAssumption
=============================================================================
