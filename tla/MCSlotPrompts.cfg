SPECIFICATION Spec
CONSTANTS
    Slot <- OneSlot
    Tokens = {1}
    Prompts <- ManyPrompts
    Loras = {0,1}
    NKeep <- All
    NCtx = 5
    NBatch = 3
    NReuse = 1
    CtxShift = TRUE
    AddBos = 1
    MaxDraft = 0
    Saves = TRUE
    CleanFirst = FALSE
    Fails = {"compute"}
INVARIANTS TypeOK CacheInMemory
CHECK_DEADLOCK FALSE
