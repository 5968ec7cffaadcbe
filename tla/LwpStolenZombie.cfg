SPECIFICATION Spec
CONSTANTS
    Thread = {t1, t2, t3, t4}
    NULL = NULL
    Sched = {"rr"}
    MaxTid = 4
    ExitVals = {263}
INVARIANT WokenHasZombie
CHECK_DEADLOCK FALSE
