\* Two processes with two edits, one with three, snapshots among them; three lives
\* of a service with two grants and one reference, two with two; two accounts
\* that save drafts.
\* The components may stop: edits run out and processes may stay stopped.
CHECK_DEADLOCK FALSE
SPECIFICATION SuiteSpec
CONSTANTS
    NoSecret = NoSecret
    None = None
    Keys = {"k1"}
    Routes = {"r1", "r2", "r3"}
    Secrets = {"s1", "s2"}
    Procs = {"p1", "p2"}
    Configs <- AllSettings
    MaxEdits = 2
    MaxInstalls = 2
    Losses = TRUE
    Restores = FALSE
    NoExchange = NoExchange
    Boxes = {"b1", "b2"}
    Grants = {"g1", "g2"}
    Configurations <- AllConfigurations
    DraftsBox <- MCDraftsBox
    MaxContexts = 2
    MaxLives = 2
    MaxTokens = 2
    Ops = {"o1", "o2"}
    Inputs = {"i1"}
    Encoders = {"e1"}
    MaxRecords = 1
    Calls = {"c1", "c2"}
    Accounts = {"a1", "a2"}
    AccountOf <- MCAccountOf
    Kinds = {"save"}
    Maintained = FALSE
    Retirable = {}
    MaxValidity = 1
    MaxCopies = 1
    Free = "free"
    Worker = "worker"
INVARIANTS
    InstallationSound
    AccountsShareJournal
PROPERTIES
    AuthorityHeld
