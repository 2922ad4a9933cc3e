\* Four requests of two grants; three clients of a pool on two executors;
\* three callers and two secrets at one credential worker.
\* The components may stop: once every executor is shut down nothing happens any more.
CHECK_DEADLOCK FALSE
SPECIFICATION SuiteSpec
CONSTANTS
    Requesters <- RequestClients
    Accounts = {"a1", "a2", "local"}
    Local = "local"
    AccountOf <- RequestAccount
    Limits <- MixedLimits
    Clients = {"c1", "c2", "c3"}
    Limit <- PoolLimit
    Pending <- PoolPending
    GenerationOf <- PoolGeneration
    Lifetime <- PoolLifetime
    Runtimes = {"r1", "r2"}
    RuntimeOf <- PoolRuntime
    Interval = 1
    MaxNow = 1
    None = None
    Callers = {"c1", "c2", "c3"}
    Keys = {"k1", "k2"}
    Flights = {"f1", "f2", "f3"}
    Workers = 1
    Queued = 1
    NoFlight = NoFlight
INVARIANTS
    QueueConsistent
    PoolConsistent
    WorkIsShared
PROPERTIES
    AdmissionIsFair
