SPECIFICATION FairSpec
CONSTANTS
    t1 = t1
    t2 = t2
    NoTab = NoTab
    NoKey = NoKey
    Tabs = {t1}
    Keys = {"k"}
    Queries = {"p"}
    Values = {"a"}
    Shows <- OneQuery
    Earlier <- NoneEarlier
    MaxLsn = 1
    MaxWires = 2
    MaxAsks = 2
    MaxLines = 1
    LogPokes = 1
    Writers = {"mutation", "refusal"}
    Faults = {"drop", "unplanned"}
INVARIANTS
    RowsBringTheirIds
    RefusedNeverTrusted
PROPERTIES
    EveryAskAnswered
CHECK_DEADLOCK FALSE
