SPECIFICATION Spec
CONSTANTS
    Txns <- TwoTxns
    Contents <- TwoContents
    RecordIds <- IdsOf
    Day <- DayOf
    MaxCrashes = 2
    MaxForeign = 1
INVARIANT NoFalseAbsence
INVARIANT ReaderMissesNothing
PROPERTY ImplementsResearchLog
