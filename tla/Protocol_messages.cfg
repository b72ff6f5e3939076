SPECIFICATION Spec
CONSTANTS
    None = none
    Symbols <- MCSymbols
    Numbers = {0, 1, 2, 3, 4, 5, 6, 7, 10, 123, 223, 249, 259}
    Times = {"t1"}
    Chars <- MCChars
    MaxText = 3
    MaxEvents = 2
    MaxBoth = 4
    Kinds <- MCKinds
    Objects = {0, 6}
    Keys <- MCKeys
    DirectionCodes = {0, 1, 2}
INVARIANTS TextsArrive TwinsAgree NobodyNamed
CHECK_DEADLOCK FALSE
