CONSTANTS
    t1 = t1
    t2 = t2
    Tabs = {t1, t2}
    Writers = {t1}
    None = None
    MaxLeases = 2
    MaxWrites = 2
    MaxClaims = 2
    MaxBeats = 1
    MaxTrouble = 1
SPECIFICATION Spec
CHECK_DEADLOCK FALSE
INVARIANTS
    TypeOK
    DeletedIsGone
PROPERTIES
    NoWriteIntoDeletion
    LaterWritesKept
    DeletionEnds
