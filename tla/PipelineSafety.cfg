SPECIFICATION Spec
CONSTANTS
    r1 = r1
    r2 = r2
    s1 = s1
    c1 = c1
    Requests = {r1, r2}
    Streaming = {r2}
    Cancels = {c1}
    Sessions = {s1}
    SessionOf <- OneSession
    UpdateKinds = {"chunk"}
    StopReasons = {"end_turn", "cancelled", "error"}
    MaxUpdates = 2
    MaxStrays = 1
    ClientsLeave = TRUE
    AgentDies = TRUE
    NoReq = NoReq
INVARIANTS
    TypeOK
    PermitOwned
    OnePumpPerSession
    FinalFrameAgrees
    NoStaleRoute
    AnswerIsOwn
    BridgeErrorExplained
PROPERTIES
    FirstTurnLosesNothing
    ImplementsLifecycle
CHECK_DEADLOCK FALSE
