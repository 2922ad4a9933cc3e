----------------------------- MODULE MCProgress -----------------------------
(* What must happen in the end, in each part of the system that waits: the
   request queue, the gate, shared credential work, expiry of idle
   connections and transfers, the MCP transport, the isolated client, a
   helper command and the searches of TransportBounds. They are independent
   of each other here: component says whose behaviour it is. *)
EXTENDS Naturals

CONSTANTS None

VARIABLES
    component,  \* whose behaviour this is
    reserved, active, accounts, queue, pc, owed, permit, passed,
    admitted, waiting, stage, due, notified,
    flights, flight, wait, workers, backlog,
    holders, line, idle, doctorAt, lease, fresh, conn, tasks, alarm, told, now,
    slots, idleCount, nextExpiry, hasIdle, reading, at, held, asked, tokens, closed, begun,
    received, timers, timerAlarm, timerTold, clock,
    free, controlFree, pendingRequests, cancelled, staged, deferred, rejected, notifying,
    initializing, receiveLeft, shutdown, failure, sessionClosed, unanswered,
    phaseOf, owner, kept, open, requests, answers, session, current, executed, given,
    running, group, holds, exit, pid, out, err, written, noise, resolver, output, stderr_bytes,
    eof, progressed, result, expired, strangers_killed,
    limits, phase, lower, upper, found

requestVars == <<reserved, active, accounts, queue, pc, owed, permit, passed>>
gateVars == <<admitted, waiting, stage, due, notified>>
workVars == <<flights, flight, wait, workers, backlog>>
poolVars == <<holders, line, idle, doctorAt, lease, fresh, conn, tasks, alarm, told, now>>
transferVars == <<slots, idleCount, nextExpiry, hasIdle, reading, at, held, asked, tokens,
        closed, begun, received, timers, timerAlarm, timerTold, clock>>
mcpVars == <<free, controlFree, pendingRequests, cancelled, staged, deferred, rejected,
        notifying, initializing, receiveLeft, shutdown, failure, sessionClosed, unanswered>>
sessionVars == <<phaseOf, owner, kept, open, requests, answers, session, current, executed,
        given>>
helperVars == <<running, group, holds, exit, pid, out, err, written, noise, resolver, output,
        stderr_bytes, eof, progressed, result, expired, strangers_killed>>
boundsVars == <<limits, phase, lower, upper, found>>
suiteVars == <<component, requestVars, gateVars, workVars, poolVars, transferVars, mcpVars,
        sessionVars, helperVars, boundsVars>>

(* Two requests of account a1 and one of a2, of one grant: one at a time, two may
   wait. *)
Grant(atOnce, queued, connections, pending) ==
    [active_requests |-> atOnce, queued_requests |-> queued,
     account_connections |-> connections, account_pending_requests |-> pending]
RequestClients == {"c1", "c2", "c3"}
RequestAccount == [c1 |-> "a1", c2 |-> "a1", c3 |-> "a2"]
EqualLimits == [c \in RequestClients |-> Grant(1, 2, 1, 2)]

(* The gate: two clients of a broad grant, two of a narrow one. *)
GateClients == {"c1", "c2", "c3", "c4"}
GateLimit == [c1 |-> 2, c2 |-> 2, c3 |-> 1, c4 |-> 1]
GatePending == [c1 |-> 3, c2 |-> 2, c3 |-> 3, c4 |-> 2]

(* A default and a small configuration of the MCP transport, with drafts. *)
ConfiguredLimits ==
    [buffered_bytes : {600 * 1024, 9 * 1024 * 1024}, envelope_bytes : {200 * 1024},
     response_bound : {64 * 1024}, draft_mime_bytes : {16 * 1024}, drafts : {TRUE},
     accounts : {1}, schema_bytes : {20 * 1024}, token_bytes : {2048},
     active_requests : {16}, queued_requests : {64}]

R == INSTANCE Requests WITH Requesters <- RequestClients, Accounts <- {"a1", "a2", "local"},
        Local <- "local", AccountOf <- RequestAccount, Limits <- EqualLimits
G == INSTANCE Gate WITH Clients <- GateClients, Limit <- GateLimit, Pending <- GatePending,
        pc <- stage, active <- admitted, owed <- due, permit <- notified
W == INSTANCE CredentialWork WITH Callers <- {"c1", "c2"}, Keys <- {"k1", "k2"},
        Flights <- {"f1", "f2"}, Workers <- 1, Queued <- 1, NoFlight <- None
P == INSTANCE ConnectionPool WITH Clients <- {"c1", "c3"}, Limit <- [c1 |-> 2, c3 |-> 1],
        Pending <- [c1 |-> 1, c3 |-> 1], GenerationOf <- [c1 |-> 2, c3 |-> 2],
        Lifetime <- [c1 |-> 2, c3 |-> 1], Runtimes <- {"r1"},
        RuntimeOf <- [c1 |-> "r1", c3 |-> "r1"], Interval <- 1, MaxNow <- 1
O == INSTANCE Transfers WITH Sessions <- {"s1"}, Accounts <- {"a1"}, Scopes <- {"p1"},
        Quota <- [s1 |-> 2], Size <- 2, Chunk <- 1, Calls <- {"c1", "c2"}, Ids <- {"i1"},
        Duration <- 1, Runtimes <- {"r1", "r2"}, RuntimeOf <- [c1 |-> "r1", c2 |-> "r2"],
        MaxNow <- 2, pc <- reading, idle <- idleCount, tasks <- timers, alarm <- timerAlarm,
        told <- timerTold, now <- clock
T == INSTANCE Transfers WITH Sessions <- {"s1"}, Accounts <- {"a1"}, Scopes <- {"p1"},
        Quota <- [s1 |-> 2], Size <- 2, Chunk <- 1, Calls <- {"c1", "c2"}, Ids <- {"i1", "i2"},
        Duration <- 2, Runtimes <- {"r1"}, RuntimeOf <- [c1 |-> "r1", c2 |-> "r1"],
        MaxNow <- 3, pc <- reading, idle <- idleCount, tasks <- timers, alarm <- timerAlarm,
        told <- timerTold, now <- clock
M == INSTANCE McpTransport WITH Ids <- {"i1", "i2"}, Requests <- 1, Deadline <- 1,
        closed <- sessionClosed, pending <- pendingRequests
C == INSTANCE IsolationSession WITH Calls <- {"c1", "c2"},
        Kind <- [c1 |-> "save", c2 |-> "status"], pc <- phaseOf, told <- given,
        retained <- kept, Nothing <- None
H == INSTANCE HelperCommand WITH SecretBytes <- 1, StderrBytes <- 0, ReadBytes <- 2,
        Bytes <- {"s"}, PipeBytes <- 1, MaxWritten <- 2, MaxNoise <- 0, pc <- resolver
B == INSTANCE McpBounds WITH LimitSets <- ConfiguredLimits

-----------------------------------------------------------------------------
(* A component that is not the one at work has no state. *)
Unused == "unused"
RequestsIdle == reserved = Unused /\ active = Unused /\ accounts = Unused /\ queue = Unused
        /\ pc = Unused /\ owed = Unused /\ permit = Unused /\ passed = Unused
GateIdle == G!Init
WorkIdle == flights = Unused /\ flight = Unused /\ wait = Unused /\ workers = Unused
        /\ backlog = Unused
PoolIdle == holders = Unused /\ line = Unused /\ idle = Unused /\ doctorAt = Unused
        /\ lease = Unused /\ fresh = Unused /\ conn = Unused /\ tasks = Unused
        /\ alarm = Unused /\ told = Unused /\ now = Unused
TransfersIdle == slots = Unused /\ idleCount = Unused /\ nextExpiry = Unused
        /\ hasIdle = Unused /\ reading = Unused /\ at = Unused /\ held = Unused
        /\ asked = Unused /\ tokens = Unused /\ closed = Unused /\ begun = Unused
        /\ received = Unused /\ timers = Unused /\ timerAlarm = Unused /\ timerTold = Unused
        /\ clock = Unused
McpIdle == free = Unused /\ controlFree = Unused /\ pendingRequests = Unused
        /\ cancelled = Unused /\ staged = Unused /\ deferred = Unused /\ rejected = Unused
        /\ notifying = Unused /\ initializing = Unused /\ receiveLeft = Unused
        /\ shutdown = Unused /\ failure = Unused /\ sessionClosed = Unused
        /\ unanswered = Unused
SessionIdle == phaseOf = Unused /\ owner = Unused /\ kept = Unused /\ open = Unused
        /\ requests = Unused /\ answers = Unused /\ session = Unused /\ current = Unused
        /\ executed = Unused /\ given = Unused
HelperIdle == running = Unused /\ group = Unused /\ holds = Unused /\ exit = Unused
        /\ pid = Unused /\ out = Unused /\ err = Unused /\ written = Unused /\ noise = Unused
        /\ resolver = Unused /\ output = Unused /\ stderr_bytes = Unused /\ eof = Unused
        /\ progressed = Unused /\ result = Unused /\ expired = Unused
        /\ strangers_killed = Unused
BoundsIdle == limits = Unused /\ phase = Unused /\ lower = Unused /\ upper = Unused
        /\ found = Unused

SuiteInit ==
    \/ component = "requests" /\ R!RequestsInit /\ GateIdle /\ WorkIdle /\ PoolIdle /\ TransfersIdle
          /\ McpIdle /\ SessionIdle /\ HelperIdle /\ BoundsIdle
    \/ component = "gate" /\ G!Init /\ RequestsIdle /\ WorkIdle /\ PoolIdle /\ TransfersIdle
          /\ McpIdle /\ SessionIdle /\ HelperIdle /\ BoundsIdle
    \/ component = "work" /\ W!Init /\ RequestsIdle /\ GateIdle /\ PoolIdle /\ TransfersIdle
          /\ McpIdle /\ SessionIdle /\ HelperIdle /\ BoundsIdle
    \/ component = "pool" /\ P!PoolInit /\ RequestsIdle /\ GateIdle /\ WorkIdle /\ TransfersIdle
          /\ McpIdle /\ SessionIdle /\ HelperIdle /\ BoundsIdle
    \/ component = "handover" /\ O!Init /\ RequestsIdle /\ GateIdle /\ WorkIdle /\ PoolIdle
          /\ McpIdle /\ SessionIdle /\ HelperIdle /\ BoundsIdle
    \/ component = "transfers" /\ T!Init /\ RequestsIdle /\ GateIdle /\ WorkIdle /\ PoolIdle
          /\ McpIdle /\ SessionIdle /\ HelperIdle /\ BoundsIdle
    \/ component = "mcp" /\ M!Init /\ RequestsIdle /\ GateIdle /\ WorkIdle /\ PoolIdle
          /\ TransfersIdle /\ SessionIdle /\ HelperIdle /\ BoundsIdle
    \/ component = "session" /\ C!SessionInit /\ RequestsIdle /\ GateIdle /\ WorkIdle /\ PoolIdle
          /\ TransfersIdle /\ McpIdle /\ HelperIdle /\ BoundsIdle
    \/ component = "helper" /\ H!HelperInit /\ RequestsIdle /\ GateIdle /\ WorkIdle /\ PoolIdle
          /\ TransfersIdle /\ McpIdle /\ SessionIdle /\ BoundsIdle
    \/ component = "bounds" /\ B!BoundsInit /\ RequestsIdle /\ GateIdle /\ WorkIdle /\ PoolIdle
          /\ TransfersIdle /\ McpIdle /\ SessionIdle /\ HelperIdle

RequestsStep ==
    /\ component = "requests" /\ R!RequestsNext
    /\ UNCHANGED <<component, gateVars, workVars, poolVars, transferVars, mcpVars, sessionVars,
                   helperVars, boundsVars>>
GateStep ==
    /\ component = "gate" /\ G!Next
    /\ UNCHANGED <<component, requestVars, workVars, poolVars, transferVars, mcpVars,
                   sessionVars, helperVars, boundsVars>>
WorkStep ==
    /\ component = "work" /\ W!Next
    /\ UNCHANGED <<component, requestVars, gateVars, poolVars, transferVars, mcpVars,
                   sessionVars, helperVars, boundsVars>>
PoolStep ==
    /\ component = "pool" /\ P!PoolNext
    /\ UNCHANGED <<component, requestVars, gateVars, workVars, transferVars, mcpVars,
                   sessionVars, helperVars, boundsVars>>
HandoverStep ==
    /\ component = "handover" /\ O!Next
    /\ UNCHANGED <<component, requestVars, gateVars, workVars, poolVars, mcpVars, sessionVars,
                   helperVars, boundsVars>>
TransfersStep ==
    /\ component = "transfers" /\ T!Next
    /\ UNCHANGED <<component, requestVars, gateVars, workVars, poolVars, mcpVars, sessionVars,
                   helperVars, boundsVars>>
McpStep ==
    /\ component = "mcp" /\ M!Next
    /\ UNCHANGED <<component, requestVars, gateVars, workVars, poolVars, transferVars,
                   sessionVars, helperVars, boundsVars>>
SessionStep ==
    /\ component = "session" /\ C!SessionNext
    /\ UNCHANGED <<component, requestVars, gateVars, workVars, poolVars, transferVars, mcpVars,
                   helperVars, boundsVars>>
HelperStep ==
    /\ component = "helper" /\ H!HelperNext
    /\ UNCHANGED <<component, requestVars, gateVars, workVars, poolVars, transferVars, mcpVars,
                   sessionVars, boundsVars>>
BoundsStep ==
    /\ component = "bounds" /\ B!BoundsNext
    /\ UNCHANGED <<component, requestVars, gateVars, workVars, poolVars, transferVars, mcpVars,
                   sessionVars, helperVars>>

SuiteNext == RequestsStep \/ GateStep \/ WorkStep \/ PoolStep \/ HandoverStep \/ TransfersStep
    \/ McpStep \/ SessionStep \/ HelperStep \/ BoundsStep

SuiteSpec == SuiteInit /\ [][SuiteNext]_suiteVars

(* Each component's own fairness, while it is at work. *)
OfHandover(A) ==
    component = "handover" /\ A /\ UNCHANGED <<component, requestVars, gateVars, workVars,
        poolVars, mcpVars, sessionVars, helperVars, boundsVars>>
OfRequest(A) ==
    component = "requests" /\ A /\ UNCHANGED <<component, gateVars, workVars, poolVars,
        transferVars, mcpVars, sessionVars, helperVars, boundsVars>>
OfGate(A) ==
    component = "gate" /\ A /\ UNCHANGED <<component, requestVars, workVars, poolVars,
        transferVars, mcpVars, sessionVars, helperVars, boundsVars>>
OfWork(A) ==
    component = "work" /\ A /\ UNCHANGED <<component, requestVars, gateVars, poolVars,
        transferVars, mcpVars, sessionVars, helperVars, boundsVars>>
OfPool(A) ==
    component = "pool" /\ A /\ UNCHANGED <<component, requestVars, gateVars, workVars,
        transferVars, mcpVars, sessionVars, helperVars, boundsVars>>
OfTransfer(A) ==
    component = "transfers" /\ A /\ UNCHANGED <<component, requestVars, gateVars, workVars,
        poolVars, mcpVars, sessionVars, helperVars, boundsVars>>
OfMcp(A) ==
    component = "mcp" /\ A /\ UNCHANGED <<component, requestVars, gateVars, workVars, poolVars,
        transferVars, sessionVars, helperVars, boundsVars>>
OfSession(A) ==
    component = "session" /\ A /\ UNCHANGED <<component, requestVars, gateVars, workVars,
        poolVars, transferVars, mcpVars, helperVars, boundsVars>>
OfHelper(A) ==
    component = "helper" /\ A /\ UNCHANGED <<component, requestVars, gateVars, workVars,
        poolVars, transferVars, mcpVars, sessionVars, boundsVars>>
OfBounds(A) ==
    component = "bounds" /\ A /\ UNCHANGED <<component, requestVars, gateVars, workVars,
        poolVars, transferVars, mcpVars, sessionVars, helperVars>>
Fairness ==
    /\ \A c \in RequestClients :
          /\ WF_suiteVars(OfRequest(R!Admit(c) \/ R!Check(c) \/ R!Wake(c) \/ R!ReleaseAdmission(c)
                                        \/ R!DropReservation(c)))
          /\ WF_suiteVars(OfRequest(R!Notify(c)))
    /\ \A c \in GateClients :
          /\ WF_suiteVars(OfGate(G!Check(c) \/ G!Wake(c)))
          /\ WF_suiteVars(OfGate(G!Notify(c)))
    /\ \A f \in {"f1", "f2"} :
          /\ WF_suiteVars(OfWork(W!PollAbandoned(f) \/ W!Depart(f) \/ W!Park(f)
                                     \/ W!Notified(f)))
          /\ WF_suiteVars(OfWork(W!Placed(f)))
          /\ WF_suiteVars(OfWork(W!Resolve(f) \/ W!Resolved(f) \/ W!Publish(f)))
    /\ \A c \in {"c1", "c2"} : WF_suiteVars(OfWork(W!Receive(c)))
    /\ WF_suiteVars(OfPool(P!Scan("r1") \/ P!WakeUp("r1")))
    /\ WF_suiteVars(OfPool(P!CleanUp("r1")))
    /\ WF_suiteVars(OfTransfer(T!Scan("r1") \/ T!WakeUp("r1")))
    /\ \A r \in {"r1", "r2"} : WF_suiteVars(OfHandover(O!Scan(r) \/ O!WakeUp(r)))
    /\ WF_suiteVars(OfMcp(M!Receive))
    /\ WF_suiteVars(OfMcp(M!RejectionTimeout))
    /\ WF_suiteVars(OfMcp(M!Close))
    /\ WF_suiteVars(OfMcp(M!Tick))
    /\ \A c \in {"c1", "c2"} :
          /\ WF_suiteVars(OfSession(C!WaitTimeout(c)))
          /\ WF_suiteVars(OfSession(C!Interrupted(c)))
    /\ WF_suiteVars(OfHelper(H!Resolver))
    /\ WF_suiteVars(OfBounds(B!BoundsNext))

FairSpec == SuiteSpec /\ Fairness

-----------------------------------------------------------------------------
ASSUME InstanceAssumption ==
    /\ R!RequestsAssumption /\ G!GateAssumption /\ W!WorkAssumption /\ P!PoolAssumption
    /\ T!TransfersAssumption /\ O!TransfersAssumption
    /\ M!McpTransportAssumption /\ C!IsolationSessionAssumption
    /\ H!HelperAssumption /\ B!BoundsAssumption

(* Who waits in the component at work. *)
Waits(w) ==
    \/ component = "requests" /\ pc[w] \in {"checking", "waiting"}
    \/ component = "work" /\ w \in DOMAIN wait /\ wait[w] # None
    \/ component = "session" /\ w \in DOMAIN phaseOf /\ phaseOf[w] # "outside" /\ ~C!Finished(w)
    \/ component = "mcp" /\ ~sessionClosed
          /\ CASE w = "c1" -> deferred # None [] w = "c2" -> rejected # None [] OTHER -> notifying
    \/ component = "helper" /\ resolver # "done"
          /\ CASE w = "c1" -> expired
               [] w = "c2" -> exit # "none" /\ ~H!Held("stdout") /\ ~H!Held("stderr")
               [] OTHER -> FALSE
    \/ component = "bounds" /\ w = "c1" /\ phase \notin {"done", "refused"}

(* Whoever waits is answered: a queued request is admitted under equal limits or
   leaves (QueuedIsServed), a waiter for credentials gets its result without
   having to time out (EveryWaiterAnswered), nothing in the MCP transport waits
   for ever whatever handlers, client and output do (NothingHangs), a call of the
   isolated client ends whatever the server does (CallsEnd), a helper command
   returns at its deadline and when the helper has ended (ReturnsAtDeadline,
   ReturnsWhenHelperEnds), and the searches for storage bounds end (Ends). *)
EveryoneAnswered == \A w \in {"c1", "c2", "c3"} : Waits(w) ~> ~Waits(w)

(* Expiry tasks: neither an idle connection (ExpiredIsClosed) nor, while an
   executor keeps the timer, an idle transfer (OverdueIsClosed) stays open past
   its time, although tasks sleep and are told of earlier deadlines. *)
Outlives ==
    \/ component = "pool" /\ P!Expired
    \/ component = "transfers" /\ T!Overdue /\ T!Kept
    \/ component = "handover" /\ O!Overdue /\ O!Kept
NothingOutlivesItsTime == Outlives ~> ~Outlives

(* Gate: it implements the fair first-come-first-served semaphore of FifoGate,
   liveness included: a wakeup that is chosen under the mutex and sent after it
   is never lost to a cancellation, a narrower limit at the front or a second
   release in between. *)
ImplementsFifoGate ==
    /\ G!FifoInit
    /\ [][G!FifoStep]_suiteVars
    /\ G!FifoFairness
=============================================================================
