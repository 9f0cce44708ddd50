SPECIFICATION Spec
CONSTANTS
    p1 = p1
    p2 = p2
    NONE = NONE
    Events = {1}
    Pods = {p1}
    Windows <- WindowsTwo
    JobTimeout = 1
    Grace = 2
    MaxTime = 5
    MaxEdits = 2
    Faults = {"passOverlap"}
INVARIANT OnIsCovered
