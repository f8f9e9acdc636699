SPECIFICATION PanelFairSpec
CONSTANTS
    b1 = b1
    b2 = b2
    b3 = b3
    NoBatch = NoBatch
    Batches <- ThreeBatches
    MaxPanelCrashes = 4
INVARIANT VisibleIsComplete
PROPERTY ImplementsPanelBatches
PROPERTY EveryOpenJobCompletes
