SPECIFICATION FairSpec
CONSTANTS
    Positions <- Pair
    LastEpoch = 2
    Size = 2
    MaxLeg <- Legs
    MaxOutstanding = 2
    MaxFaults = 1
    MaxCommands = 1
INVARIANT OneOpenEntry
INVARIANT BooksMatchEffects
INVARIANT StoppedIsFlat
PROPERTY DrainEnds
