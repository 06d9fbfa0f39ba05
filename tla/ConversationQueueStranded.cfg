SPECIFICATION Spec
CONSTANTS
    None = None
    NoClaim = NoClaim
    m1 = m1
    m2 = m2
    p1 = p1
    ann = ann
    bob = bob
    Messages = {m1, m2}
    Plans = {}
    Users = {ann, bob}
    UserOf <- OwnerOf
    MaxRuns = 3
    Cap = 2
    MaxAccidents = 0
INVARIANTS
    QueuedIsHeard
CHECK_DEADLOCK FALSE
