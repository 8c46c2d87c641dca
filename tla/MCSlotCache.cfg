SPECIFICATION Spec
CONSTANTS
    Slot <- TwoSlots
    Tokens = {1}
    Prompts <- ShortPrompts
    Loras = {0}
    NKeep <- All
    NCtx = 4
    NBatch = 2
    NReuse = 0
    CtxShift = TRUE
    AddBos = 0
    MaxDraft = 1
    Saves = FALSE
    CleanFirst = TRUE
    Fails = {"full","exceeded","compute"}
INVARIANTS CacheInMemory SamplesOwnToken
PROPERTIES CallsEnd
CHECK_DEADLOCK FALSE
