SPECIFICATION FairSpec
CONSTANTS
    None = None
    NoClaim = NoClaim
    m1 = m1
    m2 = m2
    p1 = p1
    ann = ann
    bob = bob
    Messages = {m1, m2}
    Plans = {p1}
    Users = {ann, bob}
    UserOf <- OwnerOf
    MaxRuns = 3
    Cap = 1
    MaxAccidents = 1
INVARIANTS
    TypeOK
    NoPhantomSlot
    OneRunAtATime
    NothingLost
PROPERTIES
    HolderDrains
    ClaimsEnd
CHECK_DEADLOCK FALSE
