SPECIFICATION FairSpec
CONSTANTS
    Thread = {t1, t2, t3}
    NULL = NULL
    Sched = {"rr"}
    MaxTid = 4
    ExitVals = {263}
PROPERTIES RunnableRuns WaiterReturns
CHECK_DEADLOCK FALSE
