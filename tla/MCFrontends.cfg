\* Four ids for two slots, so that two run, one waits and one is rejected; three calls
\* over one stream; two server processes and three connections; configured limits
\* around every minimum and maximum; one operation through every layer.
\* The components may stop: a closed session, calls that are not repeated, a
\* computation that ends, an answered request.
CHECK_DEADLOCK FALSE
SPECIFICATION SuiteSpec
CONSTANTS
    Ids = {i1, i2, i3, i4}
    Requests = 2
    Deadline = 1
    None = None
    Calls = {"c1", "c2", "c3"}
    Kind <- CallKind
    Nothing = Nothing
    Servers = {"p1", "p2"}
    Connections = {"k1", "k2", "k3"}
    Grants = {"g1", "g2"}
    Cap = 2
    GrantCap <- GrantSessions
    MaxConfig = 1
    Nobody = Nobody
    LimitSets <- ConfiguredLimits
SYMMETRY IdSymmetry
INVARIANTS
    RequestsKept
    StorageBounded
    AnswersMatch
    OneServer
    RepliesTruthful
PROPERTIES
    TransportSteps
