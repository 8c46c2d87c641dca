CONSTANTS
    NoTask = NoTask
    NoId = NoId
    Request = {1, 2}
    Kind <- MultiKind
    Ids <- MultiIds
    IdSlot <- AnySlot
    Lora <- OwnLora
    BadGrammar = {}
    MayClose = {}
    NSlots = 2
    MaxTokens = 1
    MaxFailures = 0
    Task <- ServerTask
SPECIFICATION FairSpec
PROPERTIES AllServed SlotsAreFreed
CHECK_DEADLOCK FALSE
