SPECIFICATION Spec
CONSTANTS
    h1 = h1
    h2 = h2
    Handlers = {h1}
    Launch = 5
    Horizon = 6
    MaxClaims = 1
    Cycle = 2
    Week = 2
    Requirement = 2
    Period = 2
    Required = 2
    Grace = 1
    Window = 3
    DayCap = 2
    WeekCap = 1
INVARIANT RampRepeats
CHECK_DEADLOCK FALSE
