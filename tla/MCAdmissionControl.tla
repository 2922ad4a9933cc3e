------------------------- MODULE MCAdmissionControl -------------------------
(* Who may run, on which connection and with whose secret: the request queue
   under grants of different width, the connection pool of an account and the
   shared credential work, which this module extends. They are independent of
   each other here: component says whose behaviour it is. *)
EXTENDS Requests, ConnectionPool, CredentialWork

VARIABLES
    component   \* whose behaviour this is

suiteVars == <<component, requestVars, poolVars, vars>>

(* Requests: two of account a1, one of a2 and one that needs no account.  A
   broad and a narrow grant share the process; the queue is short. *)
Granted(running, queued, connections, pending) ==
    [active_requests |-> running, queued_requests |-> queued,
     account_connections |-> connections, account_pending_requests |-> pending]
RequestClients == {"c1", "c2", "c3", "c4"}
RequestAccount == [c1 |-> "a1", c2 |-> "a1", c3 |-> "a2", c4 |-> "local"]
MixedLimits == [c \in RequestClients |-> IF c \in {"c1", "c3"} THEN Granted(3, 3, 2, 2)
                                         ELSE Granted(1, 2, 1, 1)]

(* The pool: c1 has a broad grant, c2 and c3 have a narrow one; c2 asks for the
   generation before and waits if it must, and c3 runs on another executor. *)
PoolLimit == [c1 |-> 2, c2 |-> 1, c3 |-> 1]
PoolPending == [c1 |-> 0, c2 |-> 1, c3 |-> 0]
PoolGeneration == [c1 |-> 2, c2 |-> 1, c3 |-> 2]
PoolLifetime == [c1 |-> 2, c2 |-> 2, c3 |-> 1]
PoolRuntime == [c1 |-> "r1", c2 |-> "r1", c3 |-> "r2"]

-----------------------------------------------------------------------------
(* While one of them is at work, nobody has come to the others. *)
SuiteInit ==
    /\ RequestsInit /\ PoolInit /\ Init
    /\ component \in {"requests", "pool", "work"}

RequestsStep ==
    /\ component = "requests" /\ RequestsNext
    /\ UNCHANGED <<component, poolVars, vars>>
PoolStep ==
    /\ component = "pool" /\ PoolNext
    /\ UNCHANGED <<component, requestVars, vars>>
WorkStep ==
    /\ component = "work" /\ Next
    /\ UNCHANGED <<component, requestVars, poolVars>>

SuiteNext == RequestsStep \/ PoolStep \/ WorkStep
SuiteSpec == SuiteInit /\ [][SuiteNext]_suiteVars

-----------------------------------------------------------------------------
ASSUME InstanceAssumption ==
    RequestsAssumption /\ GateAssumption /\ PoolAssumption /\ WorkAssumption
=============================================================================
