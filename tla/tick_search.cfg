SPECIFICATION FairSpec
CONSTANTS
    Rows <- SearchPanel
    BatchSize = 2
    MaxClaims = 2
    TickCap = 2
    CallCap = 2
    Eligible <- BothEligible
    CensorMissing = TRUE
    CensorDisappeared = TRUE
    Horizon = 3
    MaxCrashes = 2
INVARIANT OneCallPerOccurrence
INVARIANT PublishedMatchesStore
INVARIANT SearchPolicyIsComplete
PROPERTY TerminalIsFinal
PROPERTY EveryRowSettles
