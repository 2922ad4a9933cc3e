\* Retries of one operation: two calls at a time, two inputs, two builds.
SPECIFICATION Spec
CONSTANTS
    Ops = {o1}
    Inputs = {i1, i2}
    Encoders = {e1, e2}
    MaxRecords = 1
    Calls = {c1, c2}
    Accounts = {a1}
    AccountOf <- MCAccountOf
    Kinds = {"save", "reconcile"}
    Maintained = TRUE
    Retirable = {}
    MaxValidity = 1
    MaxCopies = 1
    Free = Free
    Worker = Worker
SYMMETRY CallSymmetry
INVARIANTS
    DispatchInvariant
    AtMostOneAppend
    OwnerUndisturbed
    WireMatchesJournal
PROPERTIES
    HistoryExtended
