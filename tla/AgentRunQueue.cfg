SPECIFICATION AgentFairSpec
CONSTANTS
    Null = Null
    r1 = r1
    r2 = r2
    r3 = r3
    a = a
    b = b
    Tasks = {r1, r2, r3}
    Scheduled = {r3}
    Processes = {a, b}
    MaxConcurrent = 1
    QueueCap = 1
    MaxTries = 2
    Mishaps = {"outage", "unanswered", "unrecorded", "lapse", "resend", "crash"}
    MaxMishaps = 1
INVARIANTS
    AgentTypeOK
    CapHeld
    InOnePlace
PROPERTIES
    WaitingServed
CHECK_DEADLOCK FALSE
