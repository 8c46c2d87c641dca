SPECIFICATION Spec
CONSTANTS
    NCells = 6
    SeqId = {0, 1}
    MaxMoves = 2
    Contexts <- Window
    MaxPos = 8
    MaxBatch = 3
    CanFail = {}
    Copies = FALSE
    Shared = FALSE
    WholeAgain = FALSE
    AnyShift = FALSE
INVARIANTS
    ComputeSeesTokens
    BaseIsSuperset
