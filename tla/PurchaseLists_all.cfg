SPECIFICATION Spec
CONSTANTS
    Lists = {l1, l2}
    Books = {k1, k2}
    Rows <- TheRows
    Operations = {p1}
    RequestIds = {q1}
    Imports = {i1}
    Paths = {f1, f2}
    Restorers = {r1}
    MaxBackups = 1
    None = None
    w1 = w1
    o1 = o1
    o2 = o2
    MaxWrites = 3
SYMMETRY ListsSymmetry
INVARIANTS UndoLosesNothing DocumentsHaveFiles
CHECK_DEADLOCK FALSE
