CONSTANTS
    Paths = {p1}
    Values = {v1, v2}
    Absent = Absent
    NoRow = NoRow
    NoEntry = NoEntry
    Features <- OverwriteFeatures
    MaxHead = 2
    MaxWork = 2
    MaxOrder = 4
    MaxRecoveries = 1
    MaxTrouble = 0
SYMMETRY Symmetry
SPECIFICATION Spec
CHECK_DEADLOCK FALSE
PROPERTIES
    LocalWorkKept
