SPECIFICATION Spec
CONSTANTS
    Thread = {t1, t2, t3, t4}
    NULL = NULL
INVARIANTS TypeOK WellLinked
PROPERTY IsReadyQueue
