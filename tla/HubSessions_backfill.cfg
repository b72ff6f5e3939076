SPECIFICATION Spec
CONSTANTS
    Worker = worker
    Supervisor = supervisor
    Refreshes = {refresh}
    Others = {poll}
    NoTask = nobody
    Sessions = {s1, s2, s3, s4}
    NoSession = none
    EnableBackfill = TRUE
    ResolveObjectNames = FALSE
    OverflowAttempt = 5
SYMMETRY SessionNames
INVARIANTS KeepsSubscribing
CHECK_DEADLOCK FALSE
