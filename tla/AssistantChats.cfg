CONSTANTS
    Chats = {c1, c2}
    Kept = {c1}
    None = None
    MaxRetries = 1
    MaxEdits = 1
    MaxAsks = 2
    MaxFailures = 2
SPECIFICATION Spec
CHECK_DEADLOCK FALSE
INVARIANTS
    TypeOK
    QuietMeansSaved
    BeliefIsTrue
    DeletedStaysDeleted
    ArchivedBeforeDeleted
PROPERTIES
    StoredEditsStay
    EditsSettle
