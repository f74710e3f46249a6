CONSTANTS
    Paths = {p1, p2}
    Values = {v1, v2}
    Absent = Absent
    NoRow = NoRow
    NoEntry = NoEntry
    Features <- RollbackFeatures
    MaxHead = 2
    MaxWork = 2
    MaxOrder = 4
    MaxRecoveries = 1
    MaxTrouble = 1
SYMMETRY Symmetry
SPECIFICATION Spec
CHECK_DEADLOCK FALSE
INVARIANTS
    CommittedIsPending
