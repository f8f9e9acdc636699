SPECIFICATION FairSpec
CONSTANTS
    Episodes = {1, 2}
    LastPoint = 1
    Grid = 1
    Window = 1
    Grace = 1
    BatchSize = 2
    StopsAt = 2
    MayLoseRaw = TRUE
    MaxTime = 3
    MaxCrashes = 1
INVARIANT OneRequestPerSlot
INVARIANT OneRowPerSlot
INVARIANT RowsAreHonest
PROPERTY EverySlotIsPublished
CHECK_DEADLOCK FALSE
