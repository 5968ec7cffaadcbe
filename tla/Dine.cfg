SPECIFICATION FairSpec
CONSTANTS
    N = 3
    MaxCycles = 2
    MaxFailures = 2
INVARIANTS ForksConserved NeighboursNeverEat DeadlockFree ExitHonest TypeOK IndInv
PROPERTIES Termination ShownSpec
CHECK_DEADLOCK FALSE
