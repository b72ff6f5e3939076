SPECIFICATION Spec
CONSTANTS
    Entries = {e1, e2}
    Addresses = {a1, a2}
    Free = free
    Dialogs = {d1, d2}
    Points = {p1, p2}
    MaxFlows = 2
    MaxSetups = 3
    MaxFaults = 1
INVARIANTS PanelFollowsEntries OptionsReachHub ServersKeptApart
PROPERTIES DevicesKept
SYMMETRY Exchanges
CHECK_DEADLOCK FALSE
