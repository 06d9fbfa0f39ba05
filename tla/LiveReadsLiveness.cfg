SPECIFICATION FairSpec
CONSTANTS
    k1 = k1  k2 = k2  a = a  b = b  x = x  y = y
    s1 = s1  s2 = s2  r1 = r1
    Keys = {k1}
    Slots = {r1}
    SubIds = {s1}
    Small = {a, b}
    Large = {x}
    Omitted = Omitted
    NoRow = NoRow
    NoQuery = NoQuery
    Queries <- MixedQueries
    Transactions <- FewTransactions
    Initial <- AllRows
    MaxLsn = 2
    WaitingAliases = 1
    Faults = {"failed", "refused", "mint"}
PROPERTIES
    EventuallyHydrated
    BufferDrains
