\* A snapshot is restored after the account has moved away and back.
\* The system may stop: edits run out and processes may stay stopped.
CHECK_DEADLOCK FALSE
SPECIFICATION InstallationSpec
CONSTANTS
    p1 = p1
    k1 = k1
    r1 = r1
    r2 = r2
    r3 = r3
    s1 = s1
    Keys = {k1}
    Routes = {r1, r2, r3}
    Secrets = {s1}
    NoSecret = NoSecret
    Procs = {p1}
    Configs <- MCMoves
    MaxEdits = 3
    MaxInstalls = 2
    Losses = FALSE
    Restores = TRUE
    None = None
INVARIANTS
    NeverRedirected
