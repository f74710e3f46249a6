CONSTANTS
    Paths = {p1}
    Values = {v1, v2}
    Absent = Absent
    NoRow = NoRow
    NoEntry = NoEntry
    Features <- DrainFeatures
    MaxHead = 2
    MaxWork = 2
    MaxOrder = 8
    MaxRecoveries = 1
    MaxTrouble = 1
SPECIFICATION FairSpec
CHECK_DEADLOCK FALSE
PROPERTIES
    Drains
