SPECIFICATION Spec
CONSTANTS
    a1 = a1
    a2 = a2
    o1 = o1
    o2 = o2
    Acts = {a1, a2}
    NoAct = NoAct
    Operators = {o1, o2}
    Tickers = {t1}
    NoProc = NoProc
    Families <- Handovers
    MaxTime = 2
    PauseBelow = 2
    MaxFaults = 1
INVARIANT LogMatchesStore
INVARIANT CompleteIsProven
INVARIANT LateSuccessorIsProven
INVARIANT HandoverIsExclusive
CHECK_DEADLOCK FALSE
