SPECIFICATION Spec
CONSTANTS
    NCells = 4
    SeqId = {0, 1}
    MaxMoves = 2
    Contexts <- Unified
    MaxPos = 4
    MaxBatch = 3
    CanFail = {"compute"}
    Copies = TRUE
    Shared = FALSE
    WholeAgain = FALSE
    AnyShift = FALSE
INVARIANTS
    TypeOK
    SplitsCover
    FindSlotComplete
    ComputeSeesTokens
PROPERTIES
    MemorySpec
