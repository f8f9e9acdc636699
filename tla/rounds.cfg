SPECIFICATION FairSpec
CONSTANTS
    Acts = {x, y}
    NoAct = NoAct
    Mints = {1, 2, 3}
    Bodies <- OverlapBodies
    NSources = 1
    Period = 3
    Slack = 0
    StopsAt = 2
    RoundQuota = 2
    DayCeiling = 2
    ActiveCap = 2
    Life = 2
    WitnessAge = 1
    CanPause = TRUE
    MaxTime = 2
    MaxCrashes = 1
    MaxChanges = 1
INVARIANT MatureIsSelected
INVARIANT LineageBoundsHold
INVARIANT OneRequestPerSource
PROPERTY EveryRoundResolves
CHECK_DEADLOCK FALSE
