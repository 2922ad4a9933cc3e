\* Calls are answered and locks released under fair scheduling.
SPECIFICATION FairSpec
CONSTANTS
    Ops = {o1}
    Inputs = {i1}
    Encoders = {e1}
    MaxRecords = 1
    Calls = {c1, c2}
    Accounts = {a1}
    AccountOf <- MCAccountOf
    Kinds = {"save", "status", "reconcile"}
    Maintained = FALSE
    Retirable = {}
    MaxValidity = 1
    MaxCopies = 1
    Free = Free
    Worker = Worker
PROPERTIES
    CallsComplete
