SPECIFICATION Spec
CONSTANTS
    Activations <- TwoActivations
    Episodes <- OneEpisode
    LocalDay = 2
    LocalLife = 3
    Limits <- TwoLimits
    LastDay = 1
    MaxRevisions = 2
    MaxCrashes = 1
INVARIANT SharedBoundsHold
INVARIANT ReservedBeforeSent
INVARIANT EveryDebtIsShared
