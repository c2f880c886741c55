SPECIFICATION Spec
CONSTANTS
    r1 = r1
    r2 = r2
    s1 = s1
    c1 = c1
    Requests = {r1}
    Streaming = {r1}
    Cancels = {}
    Sessions = {s1}
    SessionOf <- LoneRequest
    UpdateKinds = {"chunk"}
    StopReasons = {"end_turn"}
    MaxUpdates = 1
    MaxStrays = 0
    ClientsLeave = FALSE
    AgentDies = FALSE
    NoReq = NoReq
INVARIANT SinkOpenAtSubscribe
CHECK_DEADLOCK FALSE
