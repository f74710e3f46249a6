CONSTANTS
    Paths = {p1}
    Values = {v1, v2}
    Absent = Absent
    NoRow = NoRow
    NoEntry = NoEntry
    Features <- PullPushFeatures
    MaxHead = 3
    MaxWork = 2
    MaxOrder = 4
    MaxRecoveries = 1
    MaxTrouble = 1
SYMMETRY Symmetry
SPECIFICATION Spec
CHECK_DEADLOCK FALSE
INVARIANTS
    BaseAtKnownHead
    CommittedIsPending
    ChangedIsTrue
    CheckingIsOwned
PROPERTIES
    NoBlindOverwrite
    LocalWorkKept
