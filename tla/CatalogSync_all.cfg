SPECIFICATION Spec
CONSTANTS
    Books = {b1, b2}
    VersionIds = {v1_, v2_}
    Documents = {d1, d2}
    Overlap = 1
    FullEvery = 3
    StagingDelay = 1
    MaxDay = 2
    MaxPerRole = 1
    MaxRevision = 2
    None = None
SYMMETRY CatalogSymmetry
CONSTRAINT VersionsLeft
INVARIANTS
    NothingMissed
PROPERTY WatermarkStands
CHECK_DEADLOCK FALSE
