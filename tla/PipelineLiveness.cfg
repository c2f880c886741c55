SPECIFICATION FairSpec
CONSTANTS
    r1 = r1
    r2 = r2
    s1 = s1
    c1 = c1
    Requests = {r1, r2}
    Streaming = {r2}
    Cancels = {c1}
    Sessions = {s1}
    SessionOf <- OneSession
    UpdateKinds = {"chunk", "thought"}
    StopReasons = {"end_turn", "error"}
    MaxUpdates = 1
    MaxStrays = 0
    ClientsLeave = TRUE
    AgentDies = FALSE
    NoReq = NoReq
PROPERTIES
    EveryRequestAnswered
    PermitsReturned
    StreamsClose
CHECK_DEADLOCK FALSE
