SPECIFICATION Spec
CONSTANTS
    h1 = h1
    h2 = h2
    Handlers = {h1, h2}
    Launch = 4
    Horizon = 6
    MaxClaims = 2
    Cycle = 2
    Week = 2
    Requirement = 2
    Period = 4
    Required = 3
    Grace = 1
    Window = 5
    DayCap = 2
    WeekCap = 1
INVARIANTS
    TypeOK
    PaidOnce
    AppliedIsPaid
    RungIsEarned
    WeeklyIsEarned
    MonthlyIsEarned
    EarnedPeriodIsOffered
    MirrorIsBacked
PROPERTIES
    AppliedUndoneOnlyByARacingRun
    CapRefusesOnlyAcrossABoundary
SYMMETRY Symmetry
CHECK_DEADLOCK FALSE
