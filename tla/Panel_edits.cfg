SPECIFICATION Spec
CONSTANTS
    gate = gate
    door = door
    hall = hall
    PresetIds = {i1, i2}
    Users = {u1}
    Points = {gate, door}
    Zones = {hall}
    NoZone = noZone
    Absent = absent
    Cameras = {c1, c2}
    None = none
    Modes = {"both", "in"}
    Selections <- MCSelections
    Targets <- MCTargets
    Answers <- MCAnswers
    NoPoint = noPoint
    MaxEdits = 2
    MaxAnswers = 1
INVARIANTS UsersSeeTheirOwn PanelIsTold BindingsFollowRegistry ButtonsMatchDirection
SYMMETRY Exchanges
CHECK_DEADLOCK FALSE
