SPECIFICATION FairSpec
CONSTANTS
    p1 = p1
    p2 = p2
    NONE = NONE
    Events = {1}
    Pods = {p1, p2}
    Windows <- WindowsOne
    JobTimeout = 1
    Grace = 2
    MaxTime = 4
    MaxEdits = 2
    Faults = {"lostAnswer", "slowUnit", "editRace"}
INVARIANTS TypeOK OnIsCovered
PROPERTY EffectEnds
