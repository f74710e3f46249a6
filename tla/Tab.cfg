CONSTANTS
    Paths = {p1}
    Values = {v1, v2}
    Absent = Absent
    NoRow = NoRow
    NoEntry = NoEntry
    Features <- TabFeatures
    MaxHead = 2
    MaxWork = 2
    MaxOrder = 5
    MaxRecoveries = 1
    MaxTrouble = 2
SYMMETRY Symmetry
SPECIFICATION Spec
CHECK_DEADLOCK FALSE
INVARIANTS
    TypeOK
    RowsWellFormed
    CleanWasPublished
PROPERTIES
    RollbackTakesOnlyItsOwn
