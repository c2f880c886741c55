SPECIFICATION FairSpec
CONSTANTS
    owner = owner
    s1 = s1
    Owner = owner
    Subscribers = {s1}
    Messages <- SomeMessages
    Blocks <- SomeBlocks
    Stops = {"end_turn", "ended"}
    Capacity = 2
    MaxItems = 3
    None = None
INVARIANTS
    TypeOK
    PromptCarriesMessage
    FramesFollowRegistry
    FinalNotLost
    AnswerIsRebuilt
PROPERTIES
    ClosedStreamsEnd
CHECK_DEADLOCK FALSE
