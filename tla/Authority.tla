----------------------------- MODULE Authority ------------------------------
(***************************************************************************)
(* Who may reach what (src/service.rs, src/policy.rs,                      *)
(* src/service/tokens.rs, authorize_mailbox and authorize_message).  The   *)
(* operator grants; a session narrows its grant to a context; discovery    *)
(* hands out references; any reference, of any age, grant or installation, *)
(* may be presented in any context.  Between lives of the service the      *)
(* operator changes accounts and grants, and the registry numbers the      *)
(* settings of each account (module Registry).                             *)
(***************************************************************************)
EXTENDS Registry, FiniteSets

CONSTANTS
    Boxes,        \* mailbox identities (INBOX in one spelling)
    Grants,       \* names of access grants
    Configurations, \* configurations the operator may run the service with
    DraftsBox,    \* the Drafts mailbox a route names
    MaxLives,     \* bound: times the service is started
    MaxTokens,    \* bound: references handed out
    MaxContexts,  \* bound: contexts in hand
    NoExchange    \* nothing has reached a provider

Profiles == {"ReadOnly", "DraftsOnly", "ReadAndDrafts"}

AuthorityAssumption ==
    /\ MaxLives \in Nat /\ MaxTokens \in Nat /\ MaxContexts \in Nat
    /\ \A c \in Configurations :
          /\ \A k \in DOMAIN c.accounts :
                k \in Keys /\ c.accounts[k] \in Settings /\ c.boxes[k] \subseteq Boxes
          /\ \A g \in DOMAIN c.grants :
                /\ g \in Grants /\ c.grants[g].profile \in Profiles
                /\ c.grants[g].keys \subseteq DOMAIN c.accounts
                /\ c.grants[g].boxes \subseteq Boxes
                /\ c.grants[g].historical \subseteq [key : Keys, generation : Nat, box : Boxes]

VARIABLES
    config,     \* Service.config
    registry,   \* Service.registry: the generations of every account
    life,       \* Service.context_id
    contexts,   \* contexts in hand
    tokens,     \* references handed out, with the route they were made for
    health,     \* Service.observations
    last        \* the last request that reached a provider, or NoExchange

authorityVars == <<config, registry, life, contexts, tokens, health, last>>

\* Profile::permissions
PermissionsOf(profile, readOnly) ==
    {"ListAccounts"}
    \cup (IF profile # "DraftsOnly"
          THEN {"ListMailboxes", "SearchMessages", "ReadMessage", "ReadAttachment"} ELSE {})
    \cup (IF profile # "ReadOnly" /\ ~readOnly
          THEN {"AppendDraft", "InspectDraftOperation"} ELSE {})

Generation(k) == Len(registry[k])
AuthorityInit ==
    /\ config \in Configurations
    /\ registry = Reconcile(<<>>, config.accounts)
    /\ life = 1
    /\ contexts = {}
    /\ tokens = {}
    /\ health = [k \in Keys |-> "unknown"]
    /\ last = NoExchange

----------------------------------------------------------------------------
(* Sessions                                                                *)

\* Service::context: a grant, narrowed to some accounts and to reading.
NewContext(grant, keys, readOnly) ==
    /\ grant \in DOMAIN config.grants /\ Cardinality(contexts) < MaxContexts
    /\ LET granted == config.grants[grant]
       IN contexts' = contexts \cup
             {[life |-> life, grant |-> grant, readOnly |-> readOnly,
               keys |-> granted.keys \cap keys,
               permissions |-> PermissionsOf(granted.profile, readOnly)]}
    /\ UNCHANGED <<config, registry, life, tokens, health, last>>

\* Service::grant: a context of another Service is denied.
Admits(context, permission) ==
    /\ context.life = life
    /\ context.grant \in DOMAIN config.grants
    /\ permission \in context.permissions

\* The service stops, and starts again with what the operator wrote.
Restart ==
    /\ life < MaxLives
    /\ life' = life + 1
    /\ \E c \in Configurations :
          /\ config' = c
          /\ registry' = Reconcile(registry, c.accounts)
    /\ health' = [k \in Keys |-> "unknown"]
    /\ UNCHANGED <<contexts, tokens, last>>

----------------------------------------------------------------------------
(* Requests                                                                *)

Scope(context, k) == config.boxes[k] \cap config.grants[context.grant].boxes

\* Service::visible_accounts
Visible(context) == context.keys

\* authorize_mailbox: the account must be visible to
\* the context, of the generation the reference names, and the mailbox within
\* what the account and the grant allow now.
AuthorizeGrantOnly(context, token) ==
    /\ token.key \in Visible(context)
    /\ token.generation = Generation(token.key)
    /\ token.box \in config.grants[context.grant].boxes

Authorize(context, token) ==
    /\ token.key \in Visible(context)
    /\ token.generation = Generation(token.key)
    /\ token.box \in Scope(context, token.key)

\* authorize_message
AuthorizeMessage(context, token) == Authorize(context, token)

Reference(kind, k, box) ==
    [kind |-> kind, key |-> k, generation |-> Generation(k), box |-> box,
     route |-> config.accounts[k].route, ours |-> TRUE]

\* Service::decode: the kind asked for, under this installation's key.
Decode(token, kind) == token.kind = kind /\ token.ours

\* authorize_draft: an operation of the current generation needs the mailbox
\* within scope and configured for drafts; one of an older generation needs a
\* historical scope in the grant.
AuthorizeDraft(context, draft) ==
    /\ draft.key \in Visible(context)
    /\ IF draft.generation = Generation(draft.key)
       THEN /\ draft.box \in Scope(context, draft.key)
            /\ draft.box = DraftsBox[config.accounts[draft.key].route]
       ELSE [key |-> draft.key, generation |-> draft.generation, box |-> draft.box]
               \in config.grants[context.grant].historical

\* What a provider's answer tells about its account (observed).  A timeout, an
\* answer that is too large or a message that is gone tells nothing.
Observed(k, outcome) ==
    [health EXCEPT ![k] = CASE outcome = "ok" -> "available"
                            [] outcome = "unreachable" -> "unavailable"
                            [] OTHER -> @]

\* The request reaches the server of route and comes back.
Reaches(context, permission, token, route, observes, made) ==
    \E outcome \in {"ok", "unreachable", "other"} :
        /\ health' = IF observes THEN Observed(token.key, outcome) ELSE health
        /\ last' = [grant |-> context.grant, readOnly |-> context.readOnly,
                    permission |-> permission, key |-> token.key, box |-> token.box,
                    generation |-> token.generation,
                    route |-> route, meant |-> token.route, outcome |-> outcome]
        /\ tokens' = IF outcome = "ok" THEN tokens \cup made ELSE tokens
        /\ Cardinality(tokens') <= MaxTokens
        /\ UNCHANGED <<config, registry, life, contexts>>

\* list_mailboxes lists what the account and the grant allow.
ListMailboxes(context, k, box) ==
    /\ Admits(context, "ListMailboxes")
    /\ k \in Visible(context)
    /\ box \in Scope(context, k)
    /\ LET reference == Reference("mb", k, box)
       IN Reaches(context, "ListMailboxes", reference, config.accounts[k].route, TRUE, {reference})

\* search_messages takes a mailbox reference and makes message references.
SearchMessages(context, token) ==
    /\ Admits(context, "SearchMessages")
    /\ Decode(token, "mb") /\ Authorize(context, token)
    /\ Reaches(context, "SearchMessages", token, config.accounts[token.key].route, TRUE,
               {Reference("ms", token.key, token.box)})

\* get_message, list_attachments and get_attachment take a message reference.
ReadOperations == {"ReadMessage", "ReadAttachment"}

Read(context, permission, token) ==
    /\ Admits(context, permission)
    /\ Decode(token, "ms") /\ AuthorizeMessage(context, token)
    /\ Reaches(context, permission, token, config.accounts[token.key].route, TRUE, {})

\* save_draft of a new operation, which the journal then holds.
SaveDraft(context, k, box) ==
    /\ Admits(context, "AppendDraft")
    /\ LET draft == Reference("draft", k, box)
       IN /\ k \in Visible(context) /\ AuthorizeDraft(context, draft)
          /\ \E route \in DraftRoute(registry, config.accounts, k, draft.generation) :
                /\ DraftsBox[route.route] = box
                /\ Reaches(context, "AppendDraft", draft, route.route, TRUE, {draft})

\* save_draft of an operation the journal holds, and draft_status with
\* reconcile: the route is that of the operation's own generation, and only
\* the current generation counts for health.
ResumeDraft(context, permission, draft) ==
    /\ Admits(context, "AppendDraft") /\ Admits(context, permission)
    /\ draft.kind = "draft" /\ AuthorizeDraft(context, draft)
    /\ \E route \in DraftRoute(registry, config.accounts, draft.key, draft.generation) :
          /\ DraftsBox[route.route] = draft.box
          /\ Reaches(context, permission, draft, route.route,
                     permission = "AppendDraft" /\ draft.generation = Generation(draft.key), {})

\* A reference of another installation, which the caller also has.
Foreign ==
    /\ Cardinality(tokens) < MaxTokens
    /\ \E k \in DOMAIN config.accounts, box \in Boxes, kind \in {"mb", "ms"}, route \in Routes :
          tokens' = tokens \cup {[kind |-> kind, key |-> k, generation |-> 1, box |-> box,
                                  route |-> route, ours |-> FALSE]}
    /\ UNCHANGED <<config, registry, life, contexts, health, last>>

AuthorityNext ==
    \/ \E grant \in Grants, keys \in SUBSET Keys, readOnly \in BOOLEAN :
          NewContext(grant, keys, readOnly)
    \/ Restart \/ Foreign
    \/ \E context \in contexts :
          \/ \E k \in Keys : \/ \E box \in Boxes : ListMailboxes(context, k, box)
                             \/ \E box \in Boxes : SaveDraft(context, k, box)
          \/ \E token \in tokens :
                \/ SearchMessages(context, token)
                \/ \E permission \in ReadOperations : Read(context, permission, token)
                \/ \E permission \in {"AppendDraft", "InspectDraftOperation"} :
                      ResumeDraft(context, permission, token)

AuthoritySpec == AuthorityInit /\ [][AuthorityNext]_authorityVars

----------------------------------------------------------------------------
(* Properties                                                              *)

\* Every request that reaches a server is one that its context's grant allows
\* in the configuration of this life: the account, the mailbox and the
\* operation, whichever grant the reference came from and however long ago.
\* What an old draft operation reaches is granted by name.
WithinGrant ==
    last' # last =>
     LET granted == config.grants[last'.grant]
     IN /\ last'.key \in granted.keys
        /\ \/ last'.box \in granted.boxes \cap config.boxes[last'.key]
           \/ [key |-> last'.key, generation |-> last'.generation, box |-> last'.box]
                 \in granted.historical
        /\ last'.permission \in PermissionsOf(granted.profile, FALSE)

\* A session that asked to only read never appends and never sees drafts, in
\* any grant.
ReadOnlyIsKept ==
    last # NoExchange /\ last.readOnly
        => last.permission \notin {"AppendDraft", "InspectDraftOperation"}

\* A reference leads to the server it was made for, or nowhere: after an
\* account's settings change, references to it are stale, and a draft operation
\* goes on at the server, user and mailbox it began with.
LeadsWhereMade == last # NoExchange => last.meant = last.route

\* What health reports of an account is the outcome of the latest exchange
\* with the server it has now that said something about the account; refusals,
\* time-outs, messages that are gone and old draft routes leave it as it was.
HealthIsEvidence ==
    \A k \in Keys : (health'[k] # health[k] /\ life' = life) =>
       /\ last'.key = k /\ last'.generation = Generation(k)
       /\ <<last'.outcome, health'[k]>> \in
             {<<"ok", "available">>, <<"unreachable", "unavailable">>}

(* Service: whatever reference a context presents, from whichever grant and
   life, a request that reaches a server is within its grant (WithinGrant), of a
   reading session only to read (ReadOnlyIsKept), at the server the reference was
   made for (LeadsWhereMade); and health is evidence of the account as it is now
   (HealthIsEvidence). *)
AuthorityHeld ==
    [][WithinGrant /\ ReadOnlyIsKept' /\ LeadsWhereMade' /\ HealthIsEvidence]_authorityVars
=============================================================================
