SPECIFICATION Spec
CONSTANTS
    w1 = w1
    w2 = w2
    Workers = {w1, w2}
    NumJobs = 1
    NumItems = 2
    MaxRetries = 1
    MaxFaults = 2
SYMMETRY WorkerSymmetry
INVARIANTS
    OneOwner
    EndsOnOwnResults
    CancelStopsAtBoundary
PROPERTIES
    FencedWrites
    ImplementsLifecycle
CHECK_DEADLOCK FALSE
