SPECIFICATION DistinctSpec
CONSTANTS
    Cell = {0, 1, 2}
    SeqId = {0, 1}
    MaxPos = 2
    MaxShift = 1
    Divisor = {2}
INVARIANTS
    TypeOK
    SeqPosExact
    ShiftAnnounced
