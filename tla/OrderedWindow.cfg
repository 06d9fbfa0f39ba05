SPECIFICATION Spec
CONSTANTS
    None = None
    Keys = {1, 2, 3}
    Values = {0, 1}
    Orders = {"unique", "tied"}
    Nulls <- NullsByOrder
    Limit = 1
    MaxWrites = 3
INVARIANTS
    TypeOK
    FrontierCovers
    PageIsBest
PROPERTIES
    RefillsEnd
CHECK_DEADLOCK FALSE
