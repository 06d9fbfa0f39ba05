SPECIFICATION Spec
CONSTANTS
    k1 = k1  k2 = k2  a = a  b = b  x = x  y = y
    s1 = s1  s2 = s2  r1 = r1
    Keys = {k1, k2}
    Slots = {r1}
    SubIds = {s1, s2}
    Small = {a, b}
    Large = {x, y}
    Omitted = Omitted
    NoRow = NoRow
    NoQuery = NoQuery
    Queries <- SmallQueries
    Transactions <- TwoKeyTransactions
    Initial <- AllRows
    MaxLsn = 3
    WaitingAliases = 1
    Faults = {}
SYMMETRY SymmetricSubs
INVARIANTS
    TypeOK
    ReadsWithinReach
    BufferCoversReads
    ShownRowsCurrent
PROPERTIES
    ImplementsLiveQuery
