SPECIFICATION Spec
CONSTANTS
    Fd = {f1, f2}
    Uid = {0, 13}
    Request <- TwoBytes
    SECRET_SIZE = 3
    NONE = NONE
    MaxReplacements = 2
SYMMETRY Files
INVARIANTS TypeOK CursorInBounds CounterIsExact StoreAgrees ReadersOwned
PROPERTY IsVault
CHECK_DEADLOCK FALSE
