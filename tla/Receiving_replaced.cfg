SPECIFICATION Spec
CONSTANTS
    b1 = b1
    Books = {b1}
    MaxQty = 1
    MaxReceived = 2
    MaxLoose = 1
INVARIANTS
    GapsCanBeScanned
CHECK_DEADLOCK FALSE
