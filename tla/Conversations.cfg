SPECIFICATION Spec
CONSTANTS
    r1 = r1
    r2 = r2
    r3 = r3
    c1 = c1
    k1 = k1
    k2 = k2
    s1 = s1
    s2 = s2
    Requests = {r1, r2, r3}
    Resets = {c1}
    Keys = {k1, k2}
    Sessions = {s1, s2}
    KeyOf <- NamedKeys
    ModeOf <- AskedModes
    MaxActive = 1
    MaxCrashes = 1
    Reaper = Reaper
    None = None
SYMMETRY AlikeRequestsAndSessions
INVARIANTS
    TypeOK
    CapacityKept
    ContinueKeepsContext
    LockNotLeaked
    RowNamesSession
    OneTurnPerKey
    TurnIsGuarded
PROPERTIES
    EntryNeverReplaced
CHECK_DEADLOCK FALSE
