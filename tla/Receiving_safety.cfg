SPECIFICATION Spec
CONSTANTS
    b1 = b1
    b2 = b2
    Books = {b1, b2}
    MaxQty = 2
    MaxReceived = 3
    MaxLoose = 1
SYMMETRY BookSymmetry
INVARIANTS
    CompletedIsAccountedFor
    ShortagesAreTrue
PROPERTIES
    CompletedIsFinal
    DispositionIsForItsCount
CHECK_DEADLOCK FALSE
