SPECIFICATION FairSpec
CONSTANTS
    Versions = {1, 2}
    AutoVersions = {2}
INVARIANTS
    OperationsCanBeStopped
    NoRequestIsLost
    AnnouncedIsPrepared
    HandoverIsWanted
PROPERTIES
    NothingStartsWhileClosing
    BusyEnds
    ManualEnds
    InstallerLeadsToExit
CHECK_DEADLOCK FALSE
