SPECIFICATION FairSpec
CONSTANTS
    a1 = a1
    a2 = a2
    q = q
    i1 = i1
    i2 = i2
    i3 = i3
    Calls = {a1, a2, q}
    Sends = {a1, a2}
    Reporting = {a1}
    Cancelable = {a1}
    Ids = {i1, i2, i3}
    IdOf <- OwnIds
    MaxBeats = 2
    NoCall = NoCall
INVARIANTS
    TypeOK
    RegistryExact
    NoAnswerLost
    AtMostOneLateBeat
PROPERTIES
    EveryCallAnswered
    LoopEnds
CHECK_DEADLOCK FALSE
