------------------------------ MODULE Registry ------------------------------
(***************************************************************************)
(* The account registry of an installation (Registry in                    *)
(* src/service/state.rs): the identity of every account ever configured    *)
(* and the generations of its settings.  A reference or a draft operation  *)
(* names an account and a generation; what that generation stands for must *)
(* never change.                                                           *)
(***************************************************************************)
EXTENDS Integers, Sequences

CONSTANTS
    Keys,        \* AccountConfig.key
    Routes,      \* server, port, TLS mode, username and Drafts mailbox
    Secrets,     \* CredentialSource
    NoSecret     \* a generation whose credential is not kept

\* AccountConfig, as far as the registry looks at it.  A configuration is a
\* function from some of the keys to these.
Settings == [route : Routes, secret : Secrets, retain : BOOLEAN]

\* Generation::matches
Matches(generation, account) ==
    /\ generation.route = account.route
    /\ generation.secret = account.secret

Forgotten(generations, kept) ==
    [i \in DOMAIN generations |->
        IF i \in kept THEN generations[i]
        ELSE [generations[i] EXCEPT !.secret = NoSecret]]

\* The history of one account after Registry::reconcile with config.
Reconciled(history, key, config) ==
    IF key \notin DOMAIN config THEN Forgotten(history, {})
    ELSE LET account == config[key]
             current == [route |-> account.route, secret |-> account.secret]
             longer == IF history # <<>> /\ Matches(history[Len(history)], account)
                       THEN history ELSE Append(history, current)
         IN IF account.retain THEN longer ELSE Forgotten(longer, {Len(longer)})

\* Registry::reconcile; accounts maps the keys the registry knows to histories.
Reconcile(accounts, config) ==
    [key \in DOMAIN accounts \cup DOMAIN config |->
        Reconciled(IF key \in DOMAIN accounts THEN accounts[key] ELSE <<>>, key, config)]

\* Initialization::acquire: the persisted registry does not fit config.
Outdated(accounts, config) ==
    \E key \in DOMAIN config \cap DOMAIN accounts :
        ~Matches(accounts[key][Len(accounts[key])], config[key])

\* AccountRegistry::draft_route: where a draft operation of a generation goes,
\* and with which credential.
DraftRoute(accounts, config, key, generation) ==
    LET history == accounts[key]
    IN IF generation \notin DOMAIN history THEN {}
       ELSE IF Matches(history[generation], config[key]) THEN {history[generation]}
       ELSE {g \in {history[generation]} : g.secret # NoSecret}
=============================================================================
