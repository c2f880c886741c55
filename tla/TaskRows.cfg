SPECIFICATION Spec
CONSTANTS
    k1 = k1
    t1 = t1
    t2 = t2
    Tasks = {t1, t2}
    Keys = {k1}
    KeyOf <- OneKey
    ResetKey = k1
    DefaultPage = 1
    MaxPage = 2
    Outcomes = {"completed", "canceled"}
    MaxCrashes = 1
    None = None
SYMMETRY AnyTask
INVARIANTS
    TypeOK
    RowFollowsTask
    ListingComplete
    ResetEndsTasks
CHECK_DEADLOCK FALSE
