SPECIFICATION FairSpec
CONSTANTS
    b1 = b1
    s1 = s1
    Buys = {b1}
    Sells = {s1}
    Q = 100
    FillSteps <- MCFillSteps
    HandQuantities <- MCHandQuantities
    MaxCrashes = 1
    Faults = {"pollFails", "fetchFails", "alertFails"}
INVARIANTS SilencedOnlyByDelivery
PROPERTIES MismatchHaltsBuys  DriftIsCaught OperatorIsTold
