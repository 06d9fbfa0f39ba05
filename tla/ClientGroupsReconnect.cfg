SPECIFICATION Spec
CONSTANTS
    t1 = t1
    t2 = t2
    NoTab = NoTab
    NoKey = NoKey
    Tabs = {t1, t2}
    Keys = {}
    Queries = {}
    Values = {"a"}
    Shows <- OneQuery
    Earlier <- NoneEarlier
    MaxLsn = 2
    MaxWires = 3
    MaxAsks = 1
    MaxLines = 2
    LogPokes = 1
    Writers = {"refusal"}
    Faults = {"drop", "unread", "race"}
SYMMETRY SymmetricTabs
INVARIANTS
    PokesContinue
PROPERTIES
    IdsNeverGoBack
CHECK_DEADLOCK FALSE
