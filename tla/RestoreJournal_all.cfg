SPECIFICATION Spec
CONSTANTS
    Requests = {r1, r2}
    Keys = {k1}
    Connections = {c1}
    Txs = {t1, t2}
    BackupIds = {b1, b2, b3}
    MaxCrashes = 1
    None = None
SYMMETRY RestoreSymmetry
INVARIANTS
    NothingLost
    RestoredExactly
    SwapsOnce
CHECK_DEADLOCK FALSE
