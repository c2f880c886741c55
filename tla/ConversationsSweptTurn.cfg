SPECIFICATION Spec
CONSTANTS
    r1 = r1
    r2 = r2
    r3 = r3
    c1 = c1
    k1 = k1
    k2 = k2
    s1 = s1
    s2 = s2
    Requests = {r1, r2}
    Resets = {}
    Keys = {k1}
    Sessions = {s1, s2}
    KeyOf <- OneKey
    ModeOf <- AutoModes
    MaxActive = 1
    MaxCrashes = 0
    Reaper = Reaper
    None = None
INVARIANT OneTurnPerConversation
CHECK_DEADLOCK FALSE
