# A TLA+ verification of mailctl

mailctl gives agents and scripts bounded access to email accounts: a command
line, an MCP server and an isolated-host protocol in front of one service, which
talks IMAP to providers. This directory models the parts of the program in which
several processes, threads, failures or untrusted peers meet and the algorithms
that are easy to get wrong, model-checks them with TLC and proves the most
important results with TLAPS. Paths below are relative to the
crate's root; `src/x.rs` is the file `src/src/x.rs` in `PROJECT.json`.

`PROJECT.json` holds the machine-readable side: the components, the runs, the
mutants that show each property can fail, the map from definitions to source
lines, the hazards, and the theorems.

## 1. Inventory

| Component | State | Operations | Interacts with |
|---|---|---|---|
| Draft journal (`draft_journal.rs`) | SQLite rows: frozen facts and a state `prepared`, `in_flight`, `created`, `duplicate`, `rejected`, `outcome_unknown` | `prepare_with_limit`, `reencode_prepared`, `begin_dispatch`, `record_*`, `check_capacity`, `verify_for_dispatch` | shared by all processes of an installation |
| Draft service (`service/drafts.rs`, `service/state/drafts.rs`) | per-account writer lock file, recovery fence (`drafts.suspended`), the call in progress | `save_draft`, `draft_status`, reconciliation | journal, locks, IMAP `EXAMINE`/`APPEND`/search, deadlines |
| State maintenance (`service/state/maintenance.rs`) | backups | backup, verify, restore | needs the exclusive maintenance lock; replaces journal and registry |
| Request admission (`service/requests.rs`) | counters and the waiting queue of a process | `reserve`, `admit`, drop of a reservation or an admission | every service operation |
| Authentication runtime (`authentication.rs`, `cleanup.rs`) | two kinds of gate, flights, idle connections, expiry tasks | `Gate::reserve/wait/drop`, `work`, `acquire`, `doctor`, `discover`, `Lease::release`, expiry | secret sources, IMAP login, Tokio executors |
| Installation registry (`service/state.rs`, `service/state/storage.rs`, `file_storage.rs`) | account generations, revision, initialization lock | initialization, reconciliation with the configuration, `check_revision`, `draft_route` | every request; maintenance |
| Service dispatch and policy (`service.rs`, `policy.rs`, `service/tokens.rs`) | grants, contexts, tokens, account health | dispatch, narrowing, binding of tokens, fitting of replies | front ends |
| Attachment transfers (`service/attachments*`) | transfer slots, cached expiry bound, continuation tokens | reserve, checkout, deliver, retain, expiry | leases, memory budget |
| Mailbox and search paging (`service/mailboxes.rs`, `service/search*`, `search.rs`, `imap/search.rs`) | cursors | page | IMAP |
| MCP transport (`frontends/mcp_transport.rs`) | staged, deferred, rejected and pending requests, semaphores | receive loop, cancellation | MCP library, service |
| Isolation (`isolation.rs`, `host.rs`) | one stream per session; singleton lock, socket, permits | exchange, serve, start, stop | front ends |
| IMAP client (`imap.rs`, `imap/*`) | connection and protocol state | login, fetch, search, append, reconcile | provider |
| MIME, bodies, headers (`imap/body*`, `imap/mime.rs`, `imap/header.rs`, `imap/projection.rs`, `imap/attachment*`) | none beyond the data | parse, decode, project | IMAP client |
| Draft composition (`draft.rs`, `domain/draft.rs`, `encoding.rs`) | none | compose, hash | draft service |
| Credential sources (`credentials*`) | operating-system stores, helper processes | resolve, set, delete, availability | authentication runtime |
| Export (`export*`) | files | atomic creation | attachments |
| Configuration, domain types, command line | none | parse, validate, present | all |

What is hard in this code:

- **A draft must not be sent twice.** IMAP `APPEND` is not idempotent and its
  reply can be lost. Several processes retry the same operation; each can die,
  time out or fail to write the journal at any step; the journal can be replaced
  by an older backup; a mailbox can be recreated; two builds can encode the same
  draft differently; a cancelled call can leave a blocking worker behind that
  holds the writer lock. And whatever happened has to reach the caller through
  five layers, each of which may be interrupted or find the answer too large.
- **Queues with hand-made wakeups.** Both admission queues choose whom to wake
  under a mutex and notify after releasing it, while the chosen waiter may be
  cancelled, overtaken by a request with other limits, or already running.
- **Futures that are dropped at any await.** The MCP transport's `receive`, the
  isolated client's `exchange` and every request under a deadline: what they had
  begun must be kept, or be known to be lost.
- **Sharing with reference counts.** A flight is kept by the task and its
  waiters, closed when nobody observes it, and found through a weak pointer.
- **Things that expire.** Idle connections and idle transfers belong to expiry
  tasks of executors that come and go; a task sleeps for the earliest deadline
  it knew.
- **References that outlive what they refer to.** Cursors, message references,
  transfer tokens and draft identities come back at any later time, in another
  context, after the mailbox, the account or the grant has changed.
- **Bytes from anybody.** IMAP responses pass an admission layer before a
  recursive parser; both have to agree on where a response ends, wherever the
  network cuts it and whatever was said before TLS.
- **Files and processes of others.** Exports, helper commands and the desktop's
  secret store race with other programs, and with the death of any of them.

Each hazard is listed with its line and the properties that cover it in
`PROJECT.json`.

## 2. Modules

| Module | Models | Uses |
|---|---|---|
| `DraftJournal` | the journal's transactions, as guards (`Can…`) and resulting journals | |
| `DraftService` | calls, locks, fence, maintenance, the IMAP server and its users | extends `DraftJournal`, instantiates `DraftOnce` |
| `DraftOnce` | abstract specification: an at-most-once draft with truthful verdicts | |
| `Registry` | reconciliation of account generations with a configuration, as operators | |
| `Installation` | processes starting, set up, serving, dying; locks, marker, registry, snapshots | extends `Registry` |
| `Authority` | grants, contexts, references and tokens over lives of the service | extends `Registry` |
| `Queues` | what is left of a queue at a set of places, as operators | |
| `Requests` | the rotating admission queue of a process | extends `Queues` |
| `FifoGate` | abstract specification: a fair FIFO semaphore with a bounded line and a limit per client | |
| `Gate` | the gate as it is built, with notifications | instantiates `FifoGate` |
| `CredentialWork` | single-flight credential work | instantiates `FifoGate` for the workers |
| `ConnectionPool` | an account's leases, idle connections and expiry tasks | extends `FifoGate`, `Queues` |
| `HelperCommand` | a helper program that prints a secret | |
| `SecretStore` | the Linux Secret Service and several processes using it | |
| `Transfers` | attachment transfers between requests | |
| `AttachmentDecoder` | slices, incremental decoding and pages of a part | |
| `Export` | publication of an attachment as a file | |
| `MailboxPaging` | mailbox lists in pages | |
| `SearchPaging` | message searches in pages | |
| `BodySelection` | which part is the body, which headers that needs, which parts are attachments | |
| `BodyPages` | the text of a message in pages | |
| `ImapClient` | a connection from TCP to the end of its operation, and the peer | |
| `Admission` | complete-frame admission of a byte stream | |
| `McpTransport` | the bounded stdio transport under the MCP library | |
| `McpBounds` | the division of its memory | |
| `IsolationSession` | calls sharing the stream of an isolated session | |
| `IsolationServer` | server processes, singleton lock, socket, permits | |
| `Replies` | what each layer makes of one operation's outcome | |
| `DraftServiceProofs`, `GateProofs` | proofs about `DraftService`, `Gate` | extend it |
| `AdmissionProofs` | proofs | extends `Requests`, `ConnectionPool` |
| `AttachmentProofs` | proofs | extends `Transfers`, `Export`, `BodyPages` |
| `CredentialProofs` | proofs | extends `HelperCommand`, `CredentialWork`, `SecretStore` |
| `FrontendProofs` | proofs | extends `McpTransport`, `McpBounds`, `IsolationSession`, `IsolationServer`, `Replies` |
| `ImapProofs` | proofs | extends `ImapClient`, `Admission`, `SearchPaging`, `MailboxPaging` |
| `StateProofs` | proofs | extends `Installation`, `Authority` |
| `MCDraftService`, `MCInstallation` | instances of one component | extend it |
| `MCAdmissionControl`, `MCCredentials`, `MCAttachments`, `MCFrontends`, `MCImap`, `MCReading`, `MCState`, `MCProgress` | suites, see below | extend or instantiate their components |

`Gate` is proved to implement `FifoGate` as to safety, for every value of the
constants, and model-checked to do so fairness included; `CredentialWork` and
`ConnectionPool` use `FifoGate` in place of `Gate`, so their state has no
wakeups in it. `DraftService` is shown to implement `DraftOnce`. `Replies` takes
over where `DraftService` ends: its service answers what `HonestReply` permits.

**Suites.** Most `MC…` modules hold several components that share a subject. The
variable `component` says whose behaviour a behaviour is; it is chosen in the
initial state and never changes. A suite is thus the disjoint union of its
instances, explored in one run. Components come into a suite in two ways:

- A component with a theorem about a property that the suite checks is extended.
  The cfg gives it its constants and names its own property, the definition the
  theorem states. In the behaviours of the other components it rests in an
  initial state, where all its properties hold. Where it is to be looked at
  under other constants too, the suite instantiates its next-state relation with
  those, over the same variables: `SecretStore`, `Installation`, `Authority`,
  `SearchPaging`, `MailboxPaging` and `BodyPages`.
- The others are instantiated, some of them several times, and their variables
  keep the value `Unused` when they are not at work. A property of the suite is
  then the conjunction of the named properties of its components, each guarded
  by `component`; the parts are defined, with a comment each, in the component's
  own module.

To be extended side by side, most of them name their `Init`, `Next` and `Spec`
after themselves: `RequestsSpec`, `PoolSpec`, `HelperSpec`, `StoreSpec`,
`ExportSpec`, `BoundsSpec`, `SessionSpec`, `ServerSpec`, `RepliesSpec`,
`InstallationSpec`, `AuthoritySpec`, `SearchSpec`, `MailboxSpec`, `BodySpec`. One
of each suite keeps plain names: `CredentialWork`, `Transfers`, `McpTransport`,
`ImapClient`, `DraftService`.

Components that act on the same state are composed in one module instead:
`DraftService` with the journal, locks and maintenance; `Installation` and
`Authority` with `Registry`; `ConnectionPool` and `CredentialWork` with the gate;
`ImapClient` with its peer.

Definitions named as mutants ("Mutant: …", or listed in `PROJECT.json`) are never
part of a specification. Each is a plausible mistake in the definition that
follows it; put in its place, it makes TLC find the property it is paired with
violated.

### DraftService and DraftJournal

A row is `[state, input, validity, encoder]`. Hashes and MIME bytes are
abstracted to what they distinguish: the caller's input, the UIDVALIDITY the row
was frozen for, and the build whose encoding the content hash covers. A call is
one `save_draft` or `draft_status` request in any process; `pc` is where it
stands, and a step ends where the code awaits, releases a lock or commits:

| Action | Code |
|---|---|
| `Start`, `AcquireWriter`, `WriterContended`, `PeekContended` | authorization, `draft_writer`, the look at a row whose lock is taken |
| `OpenJournal`, `JournalFault` | `wait_for_draft_journal`, `authorized_operation` and every way these accesses fail |
| `RecoverInFlight` | the lock owner finds a row in flight |
| `AnswerStatus`, `DecideSave`, `RefuseLocally` | the decisions on the row that was read |
| `VerifyHistory`, `ExamineTarget` | `verify_for_dispatch` on a blocking worker; `EXAMINE` |
| `FreezeOperation` | the incarnation and fence checks with `prepare_with_limit` or `reencode_prepared` |
| `StartDispatch`, `WriteAppend`, `CompleteDispatch` | `Dispatch::start`, the command, `Dispatch::complete` and `drop` |
| `BeginReconcile`, `ReconcileDraft` | `draft_status` with `reconcile` |
| `Cancel`, `WorkerEnds`, `Crash` | deadlines, the orphaned verification worker, process death |
| `Retire`, `Backup`, `MaintenanceFault`, `Restore…` | reconfiguration and `maintenance.rs` |
| `Server…`, `CommandLost`, `UserChanges`, `MailboxRecreated` | external: the provider and other mail clients |

`sent`, `accepted`, `bytes` and `restored` are history variables: what really
happened, against which the properties judge what is recorded and answered.

Choices worth knowing:

- A commit that fails is modelled as rolled back. A commit that is durable but
  reported as failed looks like a crash right after it, which is modelled.
- The fence can be raised by another account's call between a call's last look
  at it and `begin_dispatch`; that call still dispatches. Only a restore strictly
  excludes dispatching, because it takes the maintenance lock exclusively. The
  model has this window; `NothingSentAfterRestore` is about restores only.
- After a restore a row that is `prepared` in the older journal may have been
  sent. It is answered as prepared by `draft_status`, and never dispatched.
- The initial backup is that of the empty installation. `RestoreRegistry` right
  after the fence is a backup without draft history.
- Rows of the older schema without reconstruction data, and the comparison of
  the UID in `APPENDUID`, are left out: no property depends on them.

### Requests

State is `reserved`, `active`, `accounts` and `queue` of the code, with a place
(`pc`) per request. `owed` holds waiters whose notification was chosen under the
mutex and not yet sent, `permit` those whose `Notify` holds a permit. `passed`
is a history variable for `TakesTurns`. A waiter that has been pushed is checked
in the same poll, so it is cancelled only once it awaits.

Turns belong to requests and not to accounts: when the first request of an
account is cancelled, its place in the rotation goes with it. And a request with
a narrow grant can wait until its deadline while broader grants keep the process
above its limit; that is why `QueuedIsServed` is checked under equal limits only.

### Gate and FifoGate

`Gate` has the counter, the queue and the notifications; a step is a critical
section, a `notify_one` or a wakeup. `owed` and `permit` are as in `Requests`. A
ticket is in the queue once, so what `retain` leaves after a cancellation is the
queue without its place (`PlaceOf`, `Retained`). `FrontIsCalled` says that
whoever is first in a line while a place is free has been, or is about to be,
called, or is checking by itself. `FifoGate` has holders and a line; the mapping
is `holders <- Admitted, line <- waiting`.

### CredentialWork

A flight is `[key, task, result, open, count, permit]`: `open` and `count` are
`waiters` (`None` when closed), `permit` that of `abandoned`. `flights` is the
map of weak pointers; a flight lives while its task or a waiter does. Publishing
the result and the end of the task are one step: nothing looks at the flight in
between except callers, who pass it over for its result. Keys are (account,
generation, kind of work) triples.

### ConnectionPool

`idle` is the vector of the code with its order (`swap_remove` and `truncate`
are modelled); `tasks` is the expiry task of each executor. Time is a counter.
Registering the task for notifications and its scan of the pool are one step:
`enable` precedes the scan, so nothing between them is missed. `Lease::release`
is public; the service itself gives its connections to `with_connection`, which
consumes them (`Drop`).

### Installation and Registry

A step is one access to a file or a lock: the initialization lock, the marker,
the maintenance lock (exclusive, then given up, then shared), the configuration,
`accounts.json`. Processes die at every step and the operating system frees their
locks. `issued` is a history variable: what each generation stood for when a
service used it. Whether the draft history has to be initialized is folded into
the question whether the registry has changed: both lead to the same steps.

### Authority

A configuration has accounts, their mailboxes and grants. A context is a grant
narrowed to accounts and perhaps to reading. Every reference carries what the
code's tokens carry (installation, generation, mailbox, scope fingerprint) and,
as history, the route it was made for; `Foreign` is a token of another
installation. A request is modelled up to the moment it reaches a provider
(`last`).

### Transfers

`slots`, `idle`, `nextExpiry` and `hasIdle` are the store's own fields, the last
three of them caches that five critical sections maintain. Tokens are never
forgotten: any of them may be sent again at any time, by two requests at once.
`received` is a history variable.

### AttachmentDecoder

Wire bytes are symbols for the classes the decoder tells apart, and a decoded
byte is the tuple of wire bytes it comes from, so that a byte decoded from the
wrong ones is visible. The reference decoders (`WholeBase64`, `WholeQp`) see the
whole part at once. Non-canonical base64 padding is left out.

### Export

The partial file and the numbered names are directory entries; `durable` and
`synced` are what a power loss is certain to keep. Other programs may take a
name, remove the partial file or move the directory between any two steps. The
random partial name is assumed never to be reused by somebody else. This is the
Linux implementation.

### MailboxPaging, SearchPaging, BodyPages

Cursors are kept in a set: each may be sent again, and more than once, after the
server, the configuration or the body has changed. Hashes are injective: a
fingerprint is what it is computed from.

`SearchPaging`: a request alternates between a window search and a fetch, and
messages arrive, vanish and change between any two round trips; a server that is
in `Faults` answers anything. A call carries, for the properties, what its
traversal has told so far (`seen`) and which messages have been there and matched
all the time (`owed`).

`MailboxPaging`: the inventory of a request is a set of identities with marks,
and its pages are pieces of the one sequence of it that is in the order of a
`BTreeMap` (`Sorted`, `Precedes`).

`BodyPages`: a body is read in bounded slices against declared sizes that may be
wrong. A text is a sequence of characters, each with the byte offset behind it,
one to four bytes after the one before; a cursor's offset is in bytes, and
`FloorCharBoundary` is the last character that ends at or before an offset.

### BodySelection

Structures are trees of up to three levels with `alternative`, `related` and
`mixed` nodes, attached and embedded messages, Content-IDs that are present,
absent or malformed, and header sections that end properly or not. The choice
made from the planned headers is compared with the choice all headers would give.

### ImapClient and Admission

The client is a script of commands (`todo`), one response read at a time. Before
the handshake the peer says anything; behind TLS it is the provider, which may
chatter and answer in any order but means what it says about `APPEND` and
announces a changed selection before it sends data of it. A search sends its
text as a literal once the continuation has come (`SearchText`), and is an
ordinary `SEARCH` from then on. What the peer says unasked (`Noise`) contains no
continuation: the client takes one as the answer to what it sent, and so does
the program. `Admission` works on
symbols for the bytes and tokens its scanner tells apart. The references it is
compared with are in `MCImap`: `Reference` is what a stream comes to if it is not
cut, `ParserEnd` is where the parser above ends a response, and `Meaning` what a
response says.

### McpTransport and McpBounds

`staged`, `deferred`, `rejected` and `pending` are the transport's fields. A step
is what `receive` does between two awaits: dropping and restarting the future is
no step, because everything it has begun is in those fields. Clocks count down.
`McpBounds` is the arithmetic of `Bounds::new` with one step per halving.

### IsolationSession, IsolationServer, Replies

A call takes the stream out of the client; only an answer puts it back. Server
processes race for the singleton lock, and the socket of one that died stays.
`Replies` follows one operation through service, isolation, MCP or command line,
and its output; whether an answer fits a bound is a free choice at every layer.
A command that is interrupted answers and then exits with the code of what it
said (`Interrupt`, `Report`, `ReportFails`). An MCP server is different:
cancelling a call, or shutting the session down, makes `call_tool` answer
(`CancelCall`), but the exit code is the whole session's. `first` is the
`OnceLock` of `mcp_transport.rs`, which the ingress, other answers and this one
race to set; `SignalEnds`, `LifetimeEnds` and `SessionOver` are the ways
the process ends, with or without an answer to this call.

What the exit code of an MCP server tells of a draft is limited accordingly, and
`ExitTells` claims no more than this. It is 7 when the failed output of a draft's
answer is the first recorded failure and the server ends by itself. It is not when

- a signal ends the server: `execute_application` returns `Cancelled`, drops
  `mcp::run` with the failure it holds, and the process exits with 130;
- a failure was recorded before, such as an invalid frame: the first one stays
  and gives the code;
- the call had no answer yet, or the answer was withheld from a client that
  cancelled it, which is no failure: the lifetime gives 5, an orderly end 0.

In these cases a client without an answer has to ask for the operation's status.

### HelperCommand and SecretStore

The helper is a leader and a descendant that may keep pipes open, outlive the
leader and leave the process group (then it is not killed: the code promises the
group). The process ID is free for a stranger once the leader is reaped and the
group empty. In `SecretStore` each step is one D-Bus round trip; the daemon may
be replaced by one with the same items or others, never getting its bus name
back, and one account is looked at. An item is found by its object path. A
service may give the path of a deleted item to the next one, so a `resolve` that
found the old item can be handed the secret that a `set` is staging there:
`ResolvedWasStored` asks for a secret that was the account's at some moment of
the call, or staged at that very path.

## 3. Runs

| Run | Components and instances | Shows |
|---|---|---|
| `draft_retries` | `DraftService`: one operation, two calls at a time, two inputs, two encoders, restores | `DispatchInvariant` and with it `AtMostOneAppend` and `OwnerUndisturbed`; `WireMatchesJournal`; `HistoryExtended` |
| `draft_evidence` | `DraftService`: all kinds of request, two mailbox incarnations, up to two copies, reconfiguration, restores | `TruthfulHistory`, `HonestReply`, `NothingSentAfterRestore`, `RetiredNotCreated`; `ImplementsOnce`: every behaviour is one of `DraftOnce` |
| `draft_liveness` | `DraftService`: all kinds of request, no maintenance, fair | `CallsComplete` (`EveryCallAnswers`, `WriterReleased`) |
| `admission_control` | `Requests`: four requests under a broad and a narrow grant; `ConnectionPool`: three clients on two executors; `CredentialWork`: three callers, two secrets, one worker | `QueueConsistent`, `AdmissionIsFair`, `PoolConsistent`, `WorkIsShared` |
| `credentials` | `HelperCommand`; `SecretStore` with three operations, whose daemon is replaced once, or stays beside an item of another program | `HelperContained`, `StoreConsistent` |
| `attachments` | `Transfers` with three transfers in two scopes; `AttachmentDecoder` for quoted-printable, base64 and two endpoints; `Export` | `TransfersConsistent`, `AttachmentSteps`, `PagesAreTheAttachment`, `ExportIsAtomic` |
| `frontends` | `McpTransport` with four ids for two slots; `McpBounds`; `IsolationSession` with three calls; `IsolationServer` with two processes and three connections under two grants; `Replies` | `RequestsKept`, `TransportSteps`, `StorageBounded`, `AnswersMatch`, `OneServer`, `RepliesTruthful` |
| `imap` | `ImapClient` in both TLS modes with every operation; `Admission` at its limits, and within them | `ConversationSafe`, `FramesAdmitted`, `FramesKeepMeaning` |
| `reading` | `SearchPaging` three times (fuzzy criteria, a changing mailbox, a faulty server); `MailboxPaging` twice; `BodySelection` twice; `BodyPages` twice | `TraversalsExact`, `MailboxListExact`, `SelectionSound`, `BodyPagesExact` |
| `state` | `Installation` three times (two processes and two edits; one process and three; snapshots); `Authority` twice; `DraftService` with two accounts | `InstallationSound`, `AuthorityHeld`, `AccountsShareJournal` |
| `progress` | everything that waits: `Requests`, `Gate`, `CredentialWork`, `ConnectionPool`, `Transfers` on one executor and handed from one to another, `McpTransport`, `IsolationSession`, `HelperCommand`, `McpBounds`; fair | `EveryoneAnswered`, `NothingOutlivesItsTime`, `ImplementsFifoGate` |
| `installation_restore` | `Installation`: one account moves away and back around a snapshot | **violates** `NeverRedirected`, see below |

**The finding.** A snapshot is taken at generation 1 of an account; the
configuration moves to another server (generation 2) and back (generation 3, the
same settings as 1 but a new number); then the snapshot is restored. `restore`
requires that the snapshot's `configuration_revision` and installation fit, which
they do, and writes the old registry back: generations 2 and 3 are forgotten and
their numbers will be given to other routes later. ADR 0003 says that the binding
"prevents account or Drafts-mailbox reconfiguration from redirecting an old
operation". A draft is still not sent wrongly, because after a restore nothing is
dispatched (`NothingSentAfterRestore`); references to messages are affected.

Why these bounds reach the cases that matter:

- *Two calls* are enough for a race of a retry with its predecessor, and since
  calls return and start again, also for any sequence of retries. The proofs
  remove the bound for the central results.
- *Two inputs and two encoders* let a replay differ from the frozen row in either.
- *One record* makes the journal full as soon as one account prepares.
- *Two incarnations, two copies* produce every class of evidence: none, one
  exact, several, altered, and a mailbox that is not the original.
- *Requests:* two requests of one account make a head and a follower, the other
  two accounts make rotation visible, and the two grants differ in every limit.
- *Gate:* with two broad and two narrow clients the front can be too narrow for
  a capacity that someone behind it would fit.
- *Credentials:* more flights than secrets let a secret be asked for again while
  an earlier flight for it is still being resolved or abandoned. Three operations
  on the store: a `set`, the `delete` it follows and a `resolve` between them.
- *Pool and transfers:* with `MaxNow = 1` a connection of lifetime 1 expires and
  one of lifetime 2 is shortened by reuse; with `MaxNow = 2` a transfer of
  `Duration` 2 expires between two requests, also after a later-begun one has
  been put back; a transfer of three chunks leaves a token behind that is too old
  while the reader is still in its slot.
- *Decoder:* slices of two or nine symbols and pages of one or four cut every
  construct of an encoding at every place; parts are all sequences of up to four
  pieces, so that a construct can meet the limits with any other before it.
- *Admission:* all streams of a start, two pieces, an end and a second response,
  with limits that the longest of them exceed; and responses full of strings within
  the limits, with some whose last literal just fits, or just does not. Chunks are
  arbitrary.
- *Search and lists:* a window and a page of two over three or four UIDs give
  windows that are empty, full and half taken; three requests make a chain of
  pages with one repeated; one change is enough to shift what follows.
- *Body selection:* the planner's early stop depends on a sibling and on one
  level below it; structures have three levels and up to three siblings.
- *MCP:* four ids for two slots: two run, one waits and one is rejected, and any
  of them is cancelled while the others are where they are.
- *Isolation:* three calls: the one that lost its stream, one that waited for it
  and one that comes later. Two processes: an owner and a rival, or one that died
  and its successor.
- *IMAP:* two messages under way, nine responses, two incarnations of the mailbox:
  an answer can cross an announcement, plaintext can be waiting when TLS comes
  up, and the budget runs out before and behind TLS.
- *McpBounds:* 1440 configurations around each of the formula's minima and maxima.
- *Installation:* two starts race; three edits move an account away, back, and
  lose the registry. *Authority:* three lives move it away and back with one
  reference, two lives with two references from two grants.
- *Export:* two names, so that the first can be taken, and two disturbances.

`Max…` constants named as bounds in their modules, `Flights`, `Kinds`,
`Maintained`, `Retirable`, `Losses`, `Restores`, `Faults`, `Ids` and the sets of
streams, trees, parts and limits belong to the instances. Limits of grants,
`MaxRecords`, `Workers`, `Queued`, windows and pages are parameters of the
program. Symmetry is used in the draft safety runs, over calls, in
`frontends`, over the ids of MCP requests, in `credentials`, over the operations
on the store, and in `attachments`, over requests, transfers and scopes: no
definition tells them apart.

The suites do not look for deadlock: their components may stop (executors shut
down, streams end, edits run out). The draft runs do.

### Fairness

Nothing is ever assumed of servers, users, clients, helpers or other programs.

- `DraftService`: weak fairness of each call's own steps and of the blocking
  worker. Tokio polls ready futures, every request runs under a deadline (the
  step `Cancel` is one of the call's own), lock waits end after
  `initialization_seconds`, and the verification scan is finite.
- `Requests`: threads leave critical sections, notifications are sent, woken
  futures are polled, and admitted operations end (at the latest by deadline).
  No waiting request has to be cancelled, so service does not rest on timeouts.
- `Gate`: the same, without assuming that holders leave.
- `CredentialWork`: tasks are polled, blocking work ends (sources run under
  `ResolutionLimits`), results are received; no caller has to give up.
- `ConnectionPool`, `Transfers`: executors poll their expiry tasks, and one that
  shuts down drops its tasks to the end. `NothingOutlivesItsTime` asks for
  transfers only while some executor keeps the timer.
- `McpTransport`: time passes, `receive` is polled, timeouts fire and the
  session is closed once it has ended; handlers, client and output may block.
- `IsolationSession`: only the client's own deadlines.
- `HelperCommand`: only the resolver's own steps; the deadline and the helper's
  exit are what the two parts of the property are conditional on.

`MCProgress` restates each module's fairness for its component: `Of…(A)` is the
step `A` with everything else unchanged.

## 4. Proofs

Every theorem holds for all values of the constants that satisfy the named
assumption of its module; no bound of a run enters. The property of a theorem is
the definition that a run checks, so the run is a small instance of the theorem.

| Module | Theorem | Statement |
|---|---|---|
| `DraftServiceProofs` | `TypeCorrect` | `Spec => []TypeOK` |
| | `DispatchInvariantHolds` | `Spec => []DispatchInvariant` |
| | `AppendOnce` | `Spec => []AtMostOneAppend` |
| | `OwnerKeepsRow` | `Spec => []OwnerUndisturbed` |
| | `RestoreSeals` | `Spec => NothingSentAfterRestore` |
| | `HistoryInvariantHolds` | `Spec => []HistoryInvariant` |
| | `RecordedIsTrue` | `Spec => []TruthfulHistory` |
| | `AnswersAreHonest` | `Spec => []HonestReply` |
| | `WireCarriesRow` | `Spec => []WireMatchesJournal` |
| | `HistoryOnlyGrows` | `Spec => HistoryExtended` |
| | `RetiredStaysAbsent` | `Spec => RetiredNotCreated` |
| | `SharedJournalHolds` | `Spec => []AccountsShareJournal` |
| | `RefinesOnce` | `Spec => ImplementsOnce` |
| `AdmissionProofs` | `QueueStaysConsistent` | `RequestsSpec => []QueueConsistent` |
| | `AdmissionStaysFair` | `RequestsSpec => AdmissionIsFair` |
| | `PoolStaysConsistent` | `PoolSpec => []PoolConsistent` |
| `GateProofs` | `GateStaysAccounted` | `Spec => []Accounted` |
| | `NoWakeupLost` | `Spec => []FrontIsCalled` |
| | `GateImplementsFifo` | `Spec => FifoInit /\ [][FifoStep]_vars` |
| `CredentialProofs` | `HelperIsContained` | `HelperSpec => []HelperContained` |
| | `WorkStaysShared` | `Spec => []WorkIsShared` |
| | `StoreStaysConsistent` | `StoreSpec => StoreConsistent` |
| `StateProofs` | `InstallationStaysSound` | `InstallationSpec => []InstallationSound` |
| | `AuthorityStaysHeld` | `AuthoritySpec => AuthorityHeld` |
| `ImapProofs` | `ConversationStaysSafe` | `Spec => []ConversationSafe` |
| | `FramesStayAdmitted` | `AdmissionSpec => []FramesAdmitted` |
| | `TraversalsStayExact` | `SearchSpec => TraversalsExact` |
| | `MailboxListStaysExact` | `MailboxSpec => []MailboxListExact` |
| `AttachmentProofs` | `TransfersStayConsistent` | `Spec => []TransfersConsistent` |
| | `BytesInOrderInTime` | `Spec => AttachmentSteps` |
| | `ExportStaysAtomic` | `ExportSpec => ExportIsAtomic` |
| | `BodyPagesStayExact` | `BodySpec => []BodyPagesExact` |
| `FrontendProofs` | `RequestsAreKept` | `Spec => []RequestsKept` |
| | `OrderAndSilence` | `Spec => TransportSteps` |
| | `StorageStaysBounded` | `BoundsSpec => []StorageBounded` |
| | `AnswersReachTheirCalls` | `SessionSpec => []AnswersMatch` |
| | `OneServerHolds` | `ServerSpec => []OneServer` |
| | `RepliesStayTruthful` | `RepliesSpec => []RepliesTruthful` |

Every proof has the same plan: an invariant that the actions preserve by
themselves, one lemma per action, and the property from the invariant. What
follows says why each invariant has the parts it has.

### Drafts

For any sets of operations, accounts, calls, inputs and encoders, any number of
records, mailbox incarnations and copies, and any assignment of operations to
accounts. Assumptions: `JournalAssumption` and `ServiceAssumption` (non-empty
sets, a total assignment of operations to accounts, lock states that are not
calls).

*Nothing is sent twice.* `AtMostOneAppend` is not inductive: nothing in it says
that a call about to write is the first to do so. `DispatchInvariant` adds

- `LocksHeld`: between reading the row under the lock and finishing, a call
  owns its account's writer lock (so two calls are never dispatching the same
  operation);
- `WireFollowsRow`: a row that is absent or prepared, in a journal that was
  never rolled back, has not been sent; a call past `Dispatch::start` has its
  row in flight; and one that has not yet written finds nothing written;
- `RestoreFenced`: once a restore has begun, the fence is up for good and no
  call is on the way to creation (so the exception for rolled-back journals is
  harmless).

Most steps of a call change only that call, its lock and its own row. The lemma
`CallFrame` says once that such a step preserves the invariant if the call ends
in a settled place (`Touches`, `Settled`); each action then only shows that it
is of this kind. `WriteAppend`, maintenance and the environment are handled by
themselves.

*What is recorded and said is true.* A restore brings an older journal back and
a call answers from a row it read earlier, so truth of the journal alone is not
preserved. `HistoryInvariant` carries truth wherever a fact can rest:
`OperationHistory` for the journal, the last backup, the wire and the mailbox
(with: never more stored and under way than was sent, and only a restore makes
the journal older than the backup), `CallHistory` for what a call has read,
received and answered (with: the lock's holder has read the row as it still is,
and a save on its way sends what the row was frozen for). From it follow
`TruthfulHistory`, `HonestReply`, `WireMatchesJournal` and the action properties
`HistoryExtended` and `RetiredNotCreated`.

*One journal, several accounts.* For `AccountsShareJournal` the number of records
is shown to stay within `MaxRecords` in the journal and in the backup a restore
brings back (`Bounded`): a step adds at most one record, and only below the
limit.

*Refinement.* The mapping takes `verdict` from the row, `attempts` from `sent`,
`stored` from `accepted` and `sealed` from `restored`. Initial states map to
initial states; under `HistoryInvariant` each step maps to a step of `DraftOnce`
or a stutter.

### Admission

- `RequestsInvariant`: the counters are the numbers of requests in the places they
  count (`Counted`, `Queued`). Rotation and removal keep the order within an
  account and between the others, so heads are first of their account (`Heads`)
  and a request that an account has passed stays before all of it
  (`PassedStand`). Every step that could make somebody the next eligible one
  tells him, or finds him still checking (`NoLostWakeup`). Grants differ, so
  admitted requests may exceed the limit of one of them; but of any set of them
  the last one admitted saw all the others (`Narrow`). What is left of a queue is
  defined by counting places (`Queues`), and the lemmas on `Nth` and `Kept` say
  that it is the same entries in the same order. Assumption `RequestsAssumption`:
  finitely many requests, each of an account and with its grant's limits.
- `PoolInvariant`: connections in use are held by holders of a place
  (`Connected`), whose number a holder's limit allows (`Places`); a client that
  takes its connection first closes what its limit leaves no room for, so idle and
  used ones together stay within what some client may have
  (`ConnectionsBounded`). Assumptions `GateAssumption`, `PoolAssumption`: limits
  and times are numbers, lifetimes positive, and every client has an executor.
- `GateInvariant`: the queue holds every waiter once (`Lined`); the counter is the
  number of the admitted (`Counted`), because a client that is dropped knows by
  its ticket which of the two it gives back; and `FrontIsCalled`. The mapping to
  `FifoGate` is then shown step by step: a try, an arrival, an admission from the
  front, a cancellation and a return are the steps of that name, sent and
  received notifications are stutters. No assumption is needed, not even that
  limits are numbers.

### State

- `InstallationInvariant`: the step a process is at says which locks it holds
  (`Locked`), so at most one is between taking the initialization lock and
  serving, and nobody serves while another may write; what that one has read
  stays what is on disk, or the disk has lost it (`Working`); the marker, once
  whole, names the installation of everything that was ever handed out
  (`Marked`); and a registry only grows, so it covers what it ever stood for
  (`Covered`). `Covered` rests on lemmas about `Registry`: reconciliation extends
  every history and never changes an entry of one. Assumption
  `InstallationAssumption`: the mark for "nobody" is no process, and
  configurations are made of the keys and settings there are. The theorem
  includes snapshots; what they break (the finding of section 3) is not part of
  `InstallationSound`.
- `AuthorityInvariant`: a context of this life is what its grant allows, narrowed
  (`Narrowed`); a reference of this installation names a generation whose route
  is the one it was made for (`Traced`), because of the same lemmas. Assumption
  `AuthorityAssumption`: grants and mailboxes of a configuration are of its
  accounts, which the configuration's validation establishes.

### IMAP

- `ClientInvariant` follows everything that is on its way to the client. Nothing
  of it is plaintext once TLS is up (`Channel`), and capabilities believed behind
  TLS were received there (`LoginReady`). A completion with the client's tag means
  that the provider is done with the command (`Tags`). Before `EXAMINE` has pinned
  a selection no row is on its way (`Unpinned`); afterwards a row of any other
  selection has the announcement of the change before it, which ends the operation
  (`Selection`). `Position` says which commands can have been sent from where the
  script stands, `Literal` and `Appending` what a message that is sent in two parts
  can have become, and `Budget` that the response budget only shrinks. Assumption
  `ClientAssumption`: positive limits, modes and operations are those of the code,
  and `Noise` contains no continuation.
- `AdmissionInvariant` adds to `FramesAdmitted` only that what is compared with a
  limit is a number. An iteration takes no more than each of the three limits leaves
  (`AllowanceFits`), a literal is announced only within what the frame has left
  (`LiteralFits`), and the output of a frame is measured before it is handed up, its
  work charged (`FinishFits`), whatever the scanner makes of the bytes. Assumption
  `AdmissionAssumption`: limits are numbers, streams are sequences of symbols.
- `SearchInvariant`: the UIDs a traversal has told, those of the page in the
  making, those about to be fetched and those not yet looked at lie below each
  other in this order (`Layered`), so none comes twice; a message that is owed is
  in one of the last three, and matches (`Owing`), so at the end none is left
  unless the server lied; and a request has gone below where it began, or has all
  its windows left (`Moving`), so a page moves the cursor. Assumption
  `SearchAssumption`: windows and pages are positive, and queries that can be
  fuzzy are queries.
- `MailboxInvariant`: a cursor stands in the sorted list of its inventory where
  the pages of its traversal end (`PagesSoFar`). An inventory has one sorted list
  (`OneList`: two would differ in a least place), so the pages of cursors that were
  used add up to it. That a name passes exactly when account and
  grant both mean its mailbox, however the scopes spell it, is `ScopeIsMeant`.
  Assumption `MailboxAssumption`: `Order` has every identity once, and the limits
  are positive.

### Front ends

- `SessionInvariant`: `AnswersMatch` only speaks of answers that were given; the
  reason they are the right ones is `OneExchange`: the stream that is in use is
  clean or carries exactly the exchange of the call that owns it. `ToldOnce` ties
  what a call was told to what may have been executed. Assumption
  `IsolationSessionAssumption`: each call has a kind, and the mark for "nobody"
  is no call.
- `ServerInvariant`: from `singleton_lock` to the end a process holds the lock
  (`HoldersHold`), so only one is in between; every session belongs to a process
  that serves (`Served`), and its permits add up, as a whole and per grant
  (`Accounted`). Assumption `IsolationServerAssumption`: limits are positive and
  no grant has more than the whole.
- `TransportInvariant`: an answer is dropped and its id leaves the request map
  without one, which is right only because the client had cancelled that id
  (`CancelledEntries`) and a cancellation in hand is of an id it no longer waits
  for (`CancelForgets`). Assumption `McpTransportAssumption`: at least one slot, a
  positive deadline, and `None` is no id, item or state.
- `BoundsInvariant`: each search keeps a value that fits and, above it, one that
  does not (`Progressed`); what is reserved grows with the input and with the
  envelope, so a later search never goes below what an earlier one has reserved
  (`Reserved`). The products and divisions of the formula are covered by lemmas
  on monotony. Assumption `BoundsAssumption`: limits are numbers, and the counts
  of requests are positive, as validation demands.
- `RepliesInvariant`: once the front end has an answer, the operation is over, or
  cannot begin any more, or the answer already says that a draft may exist
  (`FrontSettled`, after `ServiceSettled`); every later layer keeps what makes it
  say so (`DeliveredFollows`). A failure recorded for this answer is what
  `output_failure` leaves of it, and a server that ends by itself exits with the
  code of the failure it holds (`FirstFollows`).

### Attachments

- `TransfersInvariant`: the reader of a transfer stands where its caller's bytes
  end, in its slot or checked out (`Positions`), so a token for another offset
  finds nothing; slots and requests know only transfers that were begun
  (`OnlyBegun`). The cached bound is the least expiry of the idle slots, which
  exists because a non-empty set of naturals has a least element (`LeastNumber`,
  from the library's `WFMin`). Assumption `TransfersAssumption`: finitely many
  transfer ids, positive sizes and durations, and one session whose quota is the
  widest.
- `ExportInvariant`: nothing is published before it is verified and synced
  (`SyncedFirst`); the exporter knows whether its partial file is there
  (`PartialKnown`) and whether a destination is its own (`DestinationKnown`);
  when only `Drop` is left to clean up, silence means that there is nothing
  (`CleanSilence`). Assumption `ExportAssumption`: among others that the last
  chunk's digest is that of the attachment, which is what `AttachmentDecoder`
  checks as `IntegrityIsWhole`.
- `BodyInvariant`: a cursor stands at the end of a character, and what was given
  under it is the text up to there, of every body its fingerprint fits
  (`Placed`); an injective fingerprint fits one body, so pages of two never mix.
  `PageFacts` has the arithmetic of `floor_char_boundary`: with four bytes at least
  a page gets across the next character. A read has never more than its ceiling
  nor its section, and what is rendered is the whole section (`GetSound`), so a
  refusal for the size means that a declared size was too small. Assumption
  `BodyAssumption`: texts are UTF-8, chunks are positive, and sizes are numbers.

### Credentials

- `HelperInvariant`: while it reads, the resolver has lost no byte
  (`NothingLost`), it sees the end of stdout only when it has come
  (`EndOfStdout`) and finishes only after that (`FinishedWell`); the leader keeps
  its process ID until it is reaped (`LeaderKept`), so that the group that is
  signalled is its own, and nothing of it runs afterwards (`Killed`). Assumption
  `HelperAssumption`: limits are numbers, and a read takes at least a byte.
- `WorkInvariant`: a flight that takes callers in is the one the map has for its
  key (`OpenIsMapped`, `MapIsTrue`), so a second one is started only when the first
  takes nobody in; a place in line is one, and not a worker place too
  (`LineSound`). Assumption `WorkAssumption`: some secret, finitely many callers,
  at least one worker.
- `StoreInv`: only the call that has the account's bus name changes items
  (`NameHeld`), so what it found stays found while the daemon that it asked is
  there (`FoundFit`), and no request of it that writes reaches another daemon
  (`SessionsFit`); an item that mailctl publishes was staged by the call that
  publishes it, with its secret, when the account had none (`StagedFit`,
  `OursIsOne`). Assumption `StoreAssumption`: finitely many object paths, and the
  calls are none of the strings for items' secrets and attributes.

### Only model-checked

- All liveness (`CallsComplete`, `EveryoneAnswered`, `NothingOutlivesItsTime`) and
  the fairness part of `ImplementsFifoGate`: fairness and `ENABLED` are beyond
  the prover.
- `PagesAreTheAttachment`, `SelectionSound`, `FramesKeepMeaning`: what a decoder,
  a scanner or a planner, and the reference it is compared with, compute for every
  input is a matter of induction over data. `AttachmentDecoder` and `BodySelection`
  declare recursive operators besides, which the prover's SMT backend does not take.

## 5. What is not modelled

- Conversions without state: MIME composition, HTML rendering, charsets, header
  grammar, envelope projection, row encodings and checksums, frame and JSON
  encoding, tool schemas. Where a journal or a backup can turn out invalid, the
  model has a fault; where two values differ only in what they encode, they are
  different model values. A TLA+ text of these would repeat the code.
- Parsing and validation of configuration, arguments and domain types, and
  presentation. What a configuration selects is a parameter.
- Evaluation of a search criterion on one message: which messages match is given.
- Operating-system adapters that are single calls: the macOS, Windows and systemd
  secret sources, prompts, the macOS and Windows exporters, peer credentials,
  file permissions.
- File-level steps of backup and restore other than their order, the fence and
  the registry.
- The map from accounts to connection pools (each pool is independent), and a
  runtime that is shut down with credential work in flight: flights are
  modelled on a runtime that stays.
- The parser library under `Admission` and the MCP library above `McpTransport`
  are external: modelled by how the code uses them.

## 6. Plan

Every property of a run that is within reach of the prover is stated by a theorem.
What is left, most important first:

1. `RepliesTruthful` meeting `HonestReply`: one module in which the service of
   `Replies` is that of `DraftService`.
2. Composition of `Transfers` with leases of `ConnectionPool`, and of `Requests`
   with `Replies`.
3. A second account in `SecretStore`, and several pools in one process.
