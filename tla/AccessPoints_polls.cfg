SPECIFICATION FairSpec
CONSTANTS
    Points = {p1, p2}
    InitialPoints = {p1}
    Selected = {p1, p2}
    Modes = {"NORMAL", "LOCKED"}
    Absent = absent
    QueueSize = 1
    MaxChanges = 2
    MaxDrops = 1
    MaxFailures = 1
INVARIANTS TypeOK AnnouncedOnce
PROPERTIES Converges NewPointsAppear
CHECK_DEADLOCK FALSE
