CONSTANTS
    Paths = {p1, p2}
    Values = {v1, v2}
    Absent = Absent
    NoRow = NoRow
    NoEntry = NoEntry
    Features <- SyncFeatures
    MaxHead = 2
    MaxWork = 2
    MaxOrder = 5
    MaxRecoveries = 1
    MaxTrouble = 1
SYMMETRY Symmetry
SPECIFICATION Spec
CHECK_DEADLOCK FALSE
INVARIANTS
    BaseAtKnownHead
    CommittedIsPending
    CleanWasPublished
PROPERTIES
    NoBlindOverwrite
    LocalWorkKept
