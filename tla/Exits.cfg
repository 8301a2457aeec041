SPECIFICATION FairSpec
CONSTANTS
    A = A
    B = B
    Symbols = {A, B}
    Prices = {1, 2, 4}
    EntryPrice = 2
    StopLossPercent = 50
    TakeProfitPercent = 100
    TrailingStopPercent = 40
    maxDailyTradeCount = 1
    Gateable = {B}
    MaxPlans <- MCMaxPlans
    MaxFaults = 1
PROPERTIES TrailingStopRemembers OutageNeverLiquidates ExitGoesOut
