\* What is recorded and answered against what the server and its users did.
SPECIFICATION Spec
CONSTANTS
    Ops = {o1}
    Inputs = {i1}
    Encoders = {e1}
    MaxRecords = 1
    Calls = {c1, c2}
    Accounts = {a1}
    AccountOf <- MCAccountOf
    Kinds = {"save", "status", "reconcile"}
    Maintained = TRUE
    Retirable = {o1}
    MaxValidity = 2
    MaxCopies = 2
    Free = Free
    Worker = Worker
SYMMETRY CallSymmetry
INVARIANTS
    TruthfulHistory
    HonestReply
PROPERTIES
    NothingSentAfterRestore
    RetiredNotCreated
    ImplementsOnce
