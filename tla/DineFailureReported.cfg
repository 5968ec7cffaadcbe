SPECIFICATION FairSpec
CONSTANTS
    N = 3
    MaxCycles = 1
    MaxFailures = 1
PROPERTY FailureReported
CHECK_DEADLOCK FALSE
