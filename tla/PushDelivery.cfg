SPECIFICATION FairSpec
CONSTANTS
    a1 = a1
    a2 = a2
    a3 = a3
    d1 = d1
    t1 = t1
    t2 = t2
    i1 = i1
    Creates = {a1, a2, a3}
    Deletes = {d1}
    Workers = {w1, w2}
    Tasks = {t1, t2}
    Ids = {i1}
    IdOf <- SharedId
    TaskOf <- TwoTasks
    MaxAttempts = 2
    Threshold = 2
    MaxCrashes = 1
    None = None
INVARIANTS
    TypeOK
    AcknowledgedIsFound
    DeletedIsGone
PROPERTIES
    EveryJobDecided
CHECK_DEADLOCK FALSE
