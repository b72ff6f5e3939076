SPECIFICATION FairSpec
CONSTANTS
    Worker = worker
    Supervisor = supervisor
    Refreshes = {}
    Others = {poll}
    NoTask = nobody
    Sessions = {s1, s2, s3}
    NoSession = none
    EnableBackfill = TRUE
    ResolveObjectNames = FALSE
    OverflowAttempt = 1
INVARIANTS TypeOK NoOrphanWhileRunning
PROPERTIES LiveCommandKept LockIsGranted ShutdownReturns Resubscribes
CHECK_DEADLOCK FALSE
