SPECIFICATION Spec
CONSTANTS
    t1 = t1
    t2 = t2
    NoTab = NoTab
    NoKey = NoKey
    Tabs = {t1}
    Keys = {"k", "l"}
    Queries = {"p", "q"}
    Values = {"a","b"}
    Shows <- Overlapping
    Earlier <- RowEarlier
    MaxLsn = 2
    MaxWires = 1
    MaxAsks = 2
    MaxLines = 1
    LogPokes = 0
    Writers = {"outside"}
    Faults = {"refuse", "unplanned"}
INVARIANTS
    CaughtUpTabsCurrent
    SubscriptionsOwned
    WholeCommits
CHECK_DEADLOCK FALSE
