CONSTANTS
    NoTask = NoTask
    NoId = NoId
    Request = {1, 2}
    Kind <- MultiKind
    Ids <- MultiIds
    IdSlot <- AnySlot
    Lora <- OneLora
    BadGrammar = {}
    MayClose = {1}
    NSlots = 2
    MaxTokens = 2
    MaxFailures = 0
    Task <- ServerTask
SPECIFICATION Spec
INVARIANTS TypeOK TaskOnce BusyServerIsAwake NoStrandedTask OneAnswer
CHECK_DEADLOCK FALSE
