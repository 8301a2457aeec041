SPECIFICATION Spec
CONSTANTS
    Procs = {p1, p2}
    Free = Free
    Equities <- MCEquities
    UnparsableReads <- MCNoUnparsable
    BaselineEquity = 100
    MaxDailyLossPercent = 3
    MaxDrawdownFromPeakPercent = 10
    MaxDrawdownFromBaselinePercent = 15
SYMMETRY Symmetry
INVARIANTS HolderOnly TripSticks ApprovedBuyIsUntripped BuysRespectPeakDrawdown
PROPERTIES LatchNeverDeescalates
