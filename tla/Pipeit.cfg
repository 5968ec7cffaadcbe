SPECIFICATION FairSpec
CONSTANTS
    Lines = 3
    PipeSize = 2
INVARIANTS SuccessIsComplete TypeOK IndInv
PROPERTY AllEnd
CHECK_DEADLOCK FALSE
