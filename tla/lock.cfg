SPECIFICATION LockFairSpec
CONSTANTS
    p1 = p1
    p2 = p2
    p3 = p3
    NoProc = NoProc
    Procs <- ThreeProcs
    MaxInodes = 2
    MaxDeaths = 2
INVARIANT OneOwnerUnlessStray
PROPERTY DeadLeaseIsReclaimed
CHECK_DEADLOCK FALSE
