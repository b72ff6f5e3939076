SPECIFICATION FairSpec
CONSTANTS
    Worker = worker
    Supervisor = supervisor
    Refreshes = {}
    Others = {}
    NoTask = nobody
    Sessions = {s1, s2, s3}
    NoSession = none
    EnableBackfill = FALSE
    ResolveObjectNames = TRUE
    OverflowAttempt = 1
PROPERTIES StopsEveryTask
CHECK_DEADLOCK FALSE
