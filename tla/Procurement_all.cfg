SPECIFICATION ProcurementSpec
CONSTANTS
    c1 = c1
    c2 = c2
    u1 = u1
    u2 = u2
    Candidates = {c1, c2}
    Users = {u1, u2}
    MaxQty = 1
    Prices = {1}
    Budgets = {1}
    MaxRev = 2
    SingleOperator = FALSE
    MaxReceived = 1
    MaxLoose = 1
SYMMETRY ProcurementSymmetry
INVARIANTS
    StageMatchesVerdict
    PendingIsWhatIsReviewed
    ListWithinApproval
    OrderWithinApproval
    ReceivedIsApproved
PROPERTIES
    ImplementsReceiving
CHECK_DEADLOCK FALSE
