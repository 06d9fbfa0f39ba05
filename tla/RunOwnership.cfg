SPECIFICATION FairSpec
CONSTANTS
    None = None
    p1 = p1
    p2 = p2
    Pods = {p1, p2}
    MaxAttempts = 3
    MaxStalled = 2
    MaxAccidents = 2
    CutCosts = 2
    Keyed = TRUE
INVARIANTS
    RunnerOwns
PROPERTIES
    WorkOnce
    JobEnds
CHECK_DEADLOCK FALSE
