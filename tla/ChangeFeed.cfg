SPECIFICATION FairSpec
CONSTANTS
    Kinds <- AllKinds
    MaxLsn = 3
    QueueCapacity = 1
    WaitingAliases = 1
    MaxAccidents = 2
    Accidents = {"crash", "unconfirmed", "startup"}
INVARIANTS
    ClientsMeetTheChange
PROPERTIES
    EveryCommitApplied
    EveryChangeReachesClients
    ImplementsDelivery
