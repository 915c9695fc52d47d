SPECIFICATION FairSpec
CONSTANTS
    w1 = w1
    Workers = {w1}
    NumJobs = 2
    NumItems = 1
    MaxRetries = 1
    MaxFaults = 1
PROPERTIES
    CancelSettles
    QueuedJobSettles
CHECK_DEADLOCK FALSE
