SPECIFICATION Spec
CONSTANTS
    ALIGN = 2
    SIZEOF_HEADER = 3
    MINIMUM_PAYLOAD_SIZE = 2
    CHUNK_SIZE = 14
    Word = 128
    Base = 2
    Limit = 33
    Sizes = {0, 1, 5, 11, 64}
    Counts = {2, 26}
    SharedBreak = FALSE
    MaxForeign = 1
INVARIANTS TypeOK HeapTiled NoFreeNeighbours NoLeak EnoughRoom
PROPERTY IsArena
CHECK_DEADLOCK FALSE
