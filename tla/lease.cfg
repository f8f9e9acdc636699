SPECIFICATION LeaseSpec
CONSTANTS
    w1 = w1
    w2 = w2
    None = None
    Writers <- TwoWriters
    Lease = 4
    Wall = 2
    Beat = 1
    Prompt = FALSE
    Horizon = 5
    MaxTokens = 2
INVARIANT HeldForOneLease
INVARIANT AtMostOneStaleWrite
SYMMETRY WriterSymmetry
CHECK_DEADLOCK FALSE
