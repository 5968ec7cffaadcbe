SPECIFICATION Spec
CONSTANTS
    ALIGN = 2
    SIZEOF_HEADER = 3
    MINIMUM_PAYLOAD_SIZE = 2
    CHUNK_SIZE = 14
    Word = 128
    Base = 2
    Limit = 33
    Sizes = {1, 5, 127}
    Counts = {2, 64}
    SharedBreak = FALSE
    MaxForeign = 1
INVARIANT EnoughRoom
CHECK_DEADLOCK FALSE
