CONSTANTS
    NoTask = NoTask
    NoId = NoId
    Request = {1, 2, 3, 4}
    Kind <- MixedKind
    Ids <- MixedIds
    IdSlot <- FirstSlot
    Lora <- OneLora
    BadGrammar = {2}
    MayClose = {2}
    NSlots = 1
    MaxTokens = 1
    MaxFailures = 1
    Task <- ServerTask
SPECIFICATION Spec
INVARIANTS NoTaskForgotten SleeperHasNoResult ResultsHaveWaiter
CHECK_DEADLOCK FALSE
