SPECIFICATION UploadSpec
CONSTANTS
    a = a
    b = b
    single = single
    again = again
    double = double
    r1 = r1
    r2 = r2
    r3 = r3
    k1 = k1
    k2 = k2
    Requests = {r1, r2, r3}
    Keys = {k1, k2}
    Bodies = {single, again, double}
    Contents = {a, b}
    Files <- MCFiles
    Limits = {1, 2}
    MaxCrashes = 1
    Legacy = Legacy
    None = None
SYMMETRY UploadSymmetry
INVARIANTS
    RowsHaveFiles
PROPERTIES
    ImplementsOnce
CHECK_DEADLOCK FALSE
