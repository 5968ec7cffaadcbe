SPECIFICATION Spec
CONSTANTS
    Thread = {t1, t2, t3, t4}
    NULL = NULL
    Sched = {"rr", "alt"}
    MaxTid = 5
    ExitVals = {263}
SYMMETRY Addresses
INVARIANTS QueuesPartition NoLostWaiter CurrentIsRunnable IdsAreExact SystemWaiterHasZombie TypeOK AuxInv
PROPERTIES TransferKeepsOrder ReapOldestFirst
CHECK_DEADLOCK FALSE
