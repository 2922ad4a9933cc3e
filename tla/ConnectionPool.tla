--------------------------- MODULE ConnectionPool ---------------------------
(***************************************************************************)
(* The connection pool of one account (Pool, Lease and acquire_inner in    *)
(* src/authentication.rs) with its expiry tasks (src/cleanup.rs).  Clients *)
(* pass the account's gate (FifoGate, which Gate implements), reuse an     *)
(* idle connection or open one, and give it back or drop it.  Every        *)
(* runtime (Tokio executor) that opens connections runs one expiry task,   *)
(* which owns them while they are idle and dies with its runtime.          *)
(*                                                                         *)
(* A step is one critical section of the pool's mutex, one gate step, or   *)
(* one poll of an expiry task.  Time is a counter; a connection opened at  *)
(* time t under lifetime n expires at t + n.                               *)
(***************************************************************************)
EXTENDS FifoGate, Queues

CONSTANTS
    GenerationOf,   \* the account generation a client asks for
    Lifetime,       \* limits.connection_lifetime_seconds of its grant
    Runtimes,       \* executors
    RuntimeOf,      \* the executor a client runs on
    Interval,       \* 60 / limits.doctor_checks_per_minute
    MaxNow,         \* bound: time
    None

PoolAssumption ==
    /\ DOMAIN GenerationOf = Clients
    /\ Lifetime \in [Clients -> Nat \ {0}]
    /\ RuntimeOf \in [Clients -> Runtimes]
    /\ Interval \in Nat
    /\ MaxNow \in Nat

VARIABLES
    idle,       \* PoolState.idle
    doctorAt,   \* when PoolState.last_doctor allows the next check
    lease,         \* where each client stands
    fresh,      \* whether it insists on a new connection
    conn,       \* the connection it holds
    tasks,      \* the expiry task of each runtime
    alarm,      \* the expiry time its task sleeps for
    told,       \* runtimes whose sleeping task was notified
    now

idleVars == <<idle, doctorAt>>
clientVars == <<lease, fresh, conn>>
taskVars == <<tasks, alarm, told>>
poolVars == <<gateVars, idleVars, clientVars, taskVars, now>>

Connection == [generation : {GenerationOf[c] : c \in Clients}, born : 0..MaxNow,
               expires : Nat, owner : Runtimes]

(* CleanupOwner::is_alive *)
Alive(r) == tasks[r] \in {"scanning", "asleep"}
Dead(r) == tasks[r] \in {"stopped", "gone"}

(* CleanupTasks::start: one task per runtime; on an executor that is shutting
   down it is dropped at once and its owner is dead. *)
Started(r) == IF tasks[r] = "none" THEN [tasks EXCEPT ![r] = "scanning"] ELSE tasks

PoolInit ==
    /\ GateInit
    /\ idle = <<>>
    /\ doctorAt = 0
    /\ lease = [c \in Clients |-> "outside"]
    /\ fresh = [c \in Clients |-> FALSE]
    /\ conn = [c \in Clients |-> None]
    /\ tasks = [r \in Runtimes |-> "none"]
    /\ alarm = [r \in Runtimes |-> None]
    /\ told = {}
    /\ now = 0

-----------------------------------------------------------------------------
(* acquire and discover_inventory up to the gate. *)
Acquire(c) ==
    /\ lease[c] = "outside"
    /\ ~Dead(RuntimeOf[c])
    /\ tasks' = Started(RuntimeOf[c])
    /\ \/ /\ Enter(c)
          /\ \E f \in BOOLEAN : fresh' = [fresh EXCEPT ![c] = f]
          /\ lease' = [lease EXCEPT ![c] = "admitting"]
       \/ Refused(c) /\ UNCHANGED <<gateVars, fresh, lease>>
    /\ UNCHANGED <<idleVars, conn, alarm, told, now>>

(* doctor_borrowed: the check is counted even if the gate then refuses it. *)
Doctor(c) ==
    /\ lease[c] = "outside"
    /\ ~Dead(RuntimeOf[c])
    /\ doctorAt <= now
    /\ doctorAt' = now + Interval
    /\ tasks' = Started(RuntimeOf[c])
    /\ \/ /\ Enter(c)
          /\ fresh' = [fresh EXCEPT ![c] = TRUE]
          /\ lease' = [lease EXCEPT ![c] = "admitting"]
       \/ Refused(c) /\ UNCHANGED <<gateVars, fresh, lease>>
    /\ UNCHANGED <<idle, conn, alarm, told, now>>

GrantPlace(c) ==
    /\ Grant(c)
    /\ UNCHANGED <<idleVars, clientVars, taskVars, now>>

(* Connections a client may find in the pool. *)
Usable(c) == Kept(idle, {i \in DOMAIN idle :
    Alive(idle[i].owner) /\ idle[i].expires > now /\ now - idle[i].born < Lifetime[c]})

(* rposition: the last one of the client's generation. *)
Candidates(c, q) == {p \in DOMAIN q : ~fresh[c] /\ q[p].generation = GenerationOf[c]}

SwapRemove(q, p) == [i \in 1..(Len(q) - 1) |-> IF i = p THEN q[Len(q)] ELSE q[i]]

Truncate(q, n) == SubSeq(q, 1, IF n < Len(q) THEN n ELSE Len(q))

Spare(c) == IF Limit[c] > Cardinality(holders) THEN Limit[c] - Cardinality(holders) ELSE 0

(* A narrower grant shortens the life of the connection for good. *)
Reused(c, i) ==
    [i EXCEPT !.expires = IF i.born + Lifetime[c] < @ THEN i.born + Lifetime[c] ELSE @]

(* The critical section of acquire_inner, once the client has its place. *)
Take(c) ==
    /\ lease[c] = "admitting"
    /\ c \in holders
    /\ LET usable == Usable(c)
           found == Candidates(c, usable)
           last == CHOOSE p \in found : \A q \in found : q <= p
       IN  IF found # {}
           THEN /\ conn' = [conn EXCEPT ![c] = Reused(c, usable[last])]
                /\ idle' = Truncate(SwapRemove(usable, last), Spare(c))
                /\ lease' = [lease EXCEPT ![c] = "leased"]
           ELSE /\ idle' = Truncate(usable, Spare(c))
                /\ lease' = [lease EXCEPT ![c] = "connecting"]
                /\ UNCHANGED conn
    /\ UNCHANGED <<gateVars, doctorAt, fresh, taskVars, now>>

(* Credential work and login succeed. *)
Connect(c) ==
    /\ lease[c] = "connecting"
    /\ tasks' = Started(RuntimeOf[c])
    /\ conn' = [conn EXCEPT ![c] =
           [generation |-> GenerationOf[c], born |-> now,
            expires |-> now + Lifetime[c], owner |-> RuntimeOf[c]]]
    /\ lease' = [lease EXCEPT ![c] = "leased"]
    /\ UNCHANGED <<gateVars, idleVars, fresh, alarm, told, now>>

(* Dropped: before admission, while connecting, or with a lease, whose
   connection closes before its place is free. *)
Drop(c) ==
    /\ lease[c] \in {"admitting", "connecting", "leased", "returned"}
    /\ GiveUp(c) \/ Leave(c)
    /\ lease' = [lease EXCEPT ![c] = "outside"]
    /\ conn' = [conn EXCEPT ![c] = None]
    /\ fresh' = [fresh EXCEPT ![c] = FALSE]
    /\ UNCHANGED <<idleVars, taskVars, now>>

(* Mutant: a lease outlives its runtime. *)
KeepsOwnerless(c) ==
    conn[c].expires > now /\ Len(idle) + Cardinality(holders) <= Limit[c]

(* What Lease::release asks of a connection that is to be kept. *)
Keeps(c) ==
    /\ Alive(conn[c].owner)
    /\ conn[c].expires > now
    /\ Len(idle) + Cardinality(holders) <= Limit[c]

Asleep == {r \in Runtimes : tasks[r] = "asleep"}

(* Mutant: the expiry tasks do not hear of it. *)
ReleaseSilently(c) ==
    /\ lease[c] = "leased"
    /\ ~fresh[c]
    /\ idle' = IF Keeps(c) THEN Append(idle, conn[c]) ELSE idle
    /\ conn' = [conn EXCEPT ![c] = None]
    /\ lease' = [lease EXCEPT ![c] = "returned"]
    /\ UNCHANGED <<gateVars, doctorAt, fresh, tasks, alarm, told, now>>

(* Lease::release; the place is given back afterwards (Drop). *)
ReleaseLease(c) ==
    /\ lease[c] = "leased"
    /\ ~fresh[c]
    /\ idle' = IF Keeps(c) THEN Append(idle, conn[c]) ELSE idle
    /\ told' = IF Keeps(c) THEN told \cup Asleep ELSE told
    /\ conn' = [conn EXCEPT ![c] = None]
    /\ lease' = [lease EXCEPT ![c] = "returned"]
    /\ UNCHANGED <<gateVars, doctorAt, fresh, tasks, alarm, now>>

-----------------------------------------------------------------------------
(* One turn of expire_idle: listen for changes, drop what has expired, sleep
   until the next expiry. *)
Scan(r) ==
    /\ tasks[r] = "scanning"
    /\ idle' = Kept(idle, {i \in DOMAIN idle : idle[i].expires > now})
    /\ LET times == {idle'[i].expires : i \in DOMAIN idle'}
       IN  alarm' = [alarm EXCEPT ![r] =
               IF times = {} THEN None
               ELSE CHOOSE t \in times : \A u \in times : t <= u]
    /\ tasks' = [tasks EXCEPT ![r] = "asleep"]
    /\ told' = told \ {r}
    /\ UNCHANGED <<gateVars, doctorAt, clientVars, now>>

WakeUp(r) ==
    /\ tasks[r] = "asleep"
    /\ r \in told \/ (alarm[r] # None /\ alarm[r] <= now)
    /\ tasks' = [tasks EXCEPT ![r] = "scanning"]
    /\ UNCHANGED <<gateVars, idleVars, clientVars, alarm, told, now>>

(* The executor shuts down and drops its task, which first declares its owner
   dead ... *)
StopOwner(r) ==
    /\ Alive(r)
    /\ tasks' = [tasks EXCEPT ![r] = "stopped"]
    /\ told' = told \ {r}
    /\ alarm' = [alarm EXCEPT ![r] = None]
    /\ UNCHANGED <<gateVars, idleVars, clientVars, now>>

(* ... and then removes what it owned (PoolExpiry::drop). *)
CleanUp(r) ==
    /\ tasks[r] = "stopped"
    /\ idle' = Kept(idle, {i \in DOMAIN idle : idle[i].owner # r})
    /\ told' = told \cup Asleep
    /\ tasks' = [tasks EXCEPT ![r] = "gone"]
    /\ UNCHANGED <<gateVars, doctorAt, clientVars, alarm, now>>

Tick ==
    /\ now < MaxNow
    /\ now' = now + 1
    /\ UNCHANGED <<gateVars, idleVars, clientVars, taskVars>>

PoolNext ==
    \/ \E c \in Clients :
          \/ Acquire(c) \/ Doctor(c) \/ GrantPlace(c) \/ Take(c) \/ Connect(c)
          \/ Drop(c) \/ ReleaseLease(c)
    \/ \E r \in Runtimes : Scan(r) \/ WakeUp(r) \/ StopOwner(r) \/ CleanUp(r)
    \/ Tick

PoolSpec == PoolInit /\ [][PoolNext]_poolVars

(* Executors poll their expiry tasks, and drop them to the end. *)
PoolFairSpec ==
    PoolSpec /\ \A r \in Runtimes : WF_poolVars(Scan(r) \/ WakeUp(r)) /\ WF_poolVars(CleanUp(r))

-----------------------------------------------------------------------------
PoolTyped ==
    /\ holders \subseteq Clients
    /\ line \in Seq(Clients)
    /\ idle \in Seq(Connection)
    /\ doctorAt \in Nat
    /\ lease \in [Clients -> {"outside", "admitting", "connecting", "leased", "returned"}]
    /\ fresh \in [Clients -> BOOLEAN]
    /\ conn \in [Clients -> Connection \cup {None}]
    /\ tasks \in [Runtimes -> {"none", "scanning", "asleep", "stopped", "gone"}]
    /\ alarm \in [Runtimes -> Nat \cup {None}]
    /\ told \subseteq Runtimes
    /\ now \in 0..MaxNow

Connected == {c \in Clients : lease[c] \in {"connecting", "leased"}}

(* Connections of the account that are open or being opened, idle ones included,
   never exceed the widest account_connections, although idle connections hold
   no place at the gate and places are taken before idle ones are closed. *)
ConnectionsBounded ==
    Len(idle) + Cardinality(Connected) > 0 =>
        \E c \in Clients : Len(idle) + Cardinality(Connected) <= Limit[c]

(* Every idle connection has an expiry task that will close it, also when it is
   given back while its runtime shuts down. *)
IdleOwned == \A i \in DOMAIN idle : tasks[idle[i].owner] \in {"scanning", "asleep", "stopped"}

(* A client works on a connection that was authenticated for the generation it
   asked for and that expires no later than its own grant allows, whoever had
   it before. *)
LeaseFits ==
    \A c \in Clients : lease[c] = "leased" =>
        /\ conn[c].generation = GenerationOf[c]
        /\ conn[c].expires <= conn[c].born + Lifetime[c]

(* The pool: connections open or being opened stay within the widest grant
   (ConnectionsBounded), every idle one has an expiry task that will close it
   (IdleOwned), and a lease is of the generation and the lifetime its client may
   have, whoever had the connection before (LeaseFits). *)
PoolConsistent == PoolTyped /\ ConnectionsBounded /\ IdleOwned /\ LeaseFits

(* An idle connection does not stay open past its expiry: the task that sleeps
   for another time, or for none, hears of it. *)
Expired == \E i \in DOMAIN idle : idle[i].expires <= now
ExpiredIsClosed == Expired ~> ~Expired
=============================================================================
