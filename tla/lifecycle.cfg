SPECIFICATION FairSpec
CONSTANTS
    a1 = a1
    a2 = a2
    o1 = o1
    o2 = o2
    Acts = {a1}
    NoAct = NoAct
    Operators = {o1}
    Tickers = {t1}
    NoProc = NoProc
    Families <- Singles
    MaxTime = 1
    PauseBelow = 2
    MaxFaults = 1
PROPERTY AdmitsOnlyWhenLive
PROPERTY ProvenDrainEnds
PROPERTY StopIntakeIsRepaired
CHECK_DEADLOCK FALSE
