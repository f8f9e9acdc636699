SPECIFICATION Spec
CONSTANTS
    Rows <- QuotePanel
    BatchSize = 2
    MaxClaims = 4
    TickCap = 3
    CallCap = 3
    Eligible <- BothEligible
    CensorMissing = FALSE
    CensorDisappeared = TRUE
    Horizon = 3
    MaxCrashes = 1
INVARIANT DebitsAccountForCalls
INVARIANT SellFollowsItsBuy
INVARIANT EligibilityIsSealed
