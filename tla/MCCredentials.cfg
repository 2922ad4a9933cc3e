\* A helper whose output comes in one or more reads; three operations on a secret
\* store whose daemon is replaced once, and on one where another program makes an
\* item.  A resolution or an operation that is over takes no step.
CHECK_DEADLOCK FALSE
SPECIFICATION SuiteSpec
CONSTANTS
    SecretBytes = 1
    StderrBytes = 0
    ReadBytes = 2
    Bytes = {"s", "r", "n"}
    PipeBytes = 2
    MaxWritten = 3
    MaxNoise = 1
    Calls = {s1, s2, s3}
    Paths = {1, 2}
    MaxDaemon = 2
    MaxForeign = 0
SYMMETRY AlikeCalls
INVARIANTS
    HelperContained
PROPERTIES
    StoreConsistent
