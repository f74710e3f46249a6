CONSTANTS
    d1 = d1
    d2 = d2
    t1 = t1
    t2 = t2
    google = google
    github = github
    None = None
    Failed = Failed
    Unasked = Unasked
    Devices = {d1, d2}
    Tabs = {t1, t2}
    DeviceOf <- TwoDevices
    Order <- DriveAndGitHub
    Drives = {google}
    Duplicating = {google}
    MaxEdits = 2
    Budgets <- FewFaultsAndActs
    Restless = {t1}
SPECIFICATION Spec
CHECK_DEADLOCK FALSE
INVARIANTS
    TypeOK
    ConfirmedIsStored
PROPERTIES
    ImplementsReplicas
    ChangeIsAnswered
