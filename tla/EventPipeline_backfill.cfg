SPECIFICATION FairSpec
CONSTANTS
    ClassicKinds = {"pass"}
    UndocumentedKinds = {"other"}
    LiveKinds = {"door"}
    QueueSize = 2
    DedupWindow = 2
    BackfillSeconds = 1
    EnableBackfill = TRUE
    BackfillOnFirstStart = FALSE
    MaxEvents = 3
    MaxOthers = 1
    MaxTime = 2
    MaxDrops = 1
    MaxRestarts = 1
    MaxFailures = 1
INVARIANTS NoReplayInWindow MergedHasTwin LastCoversPublished EveryEventAccounted NoGapInWindow
PROPERTIES StoredNeverRewinds WorkerGoesOn
CHECK_DEADLOCK FALSE
