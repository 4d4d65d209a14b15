SPECIFICATION Spec
CONSTANTS
    MaxApps = 2
    MaxPods = 2
    Admissions = {a1}
    Dumps = {d1}
    MaxFaults = 1
CHECK_DEADLOCK FALSE
INVARIANTS
    CleanedBeforeGone
    NothingElseLeft
    InjectedHasApp
PROPERTIES
    OnlyOwnDeleted
    DeletionEnds
    AppGetsPod
