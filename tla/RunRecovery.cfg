SPECIFICATION FairSpec
CONSTANTS
    None = None
    Kinds = {"conversation", "scheduled"}
    MaxRetries = 1
    MaxDeferrals = 1
    MaxAttempts = 3
    MaxRestarts = 1
INVARIANTS
    AnswersOnce
    AttemptsBounded
PROPERTIES
    StopHolds
    
CONSTRAINT UntilOverwritten
CHECK_DEADLOCK FALSE
