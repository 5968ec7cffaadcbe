SPECIFICATION Spec
CONSTANTS
    Lines = 3
    PipeSize = 2
INVARIANT WaitsForBoth
CHECK_DEADLOCK FALSE
