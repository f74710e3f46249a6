CONSTANTS
    a1 = a1
    a2 = a2
    p1 = p1
    Actors = {a1, a2}
    Paths = {p1}
    None = None
    Branch = Branch
    MaxCopies = 2
    MaxWork = 2
    MaxReceipts = 1
    MaxTrouble = 2
SPECIFICATION Spec
CHECK_DEADLOCK FALSE
INVARIANTS
    TypeOK
    CompleteIsWhole
    RewritesHaveTheirCopy
PROPERTIES
    WorkKept
    RemovalEnds
    Recovers
