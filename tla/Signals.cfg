SPECIFICATION Spec
CONSTANTS
    zip1 = zip1
    burry1 = burry1
    zip = zip
    burry = burry
    Mails <- MCMails
    Symbols = {"X"}
    Sources <- MCSources
    SourceOf <- MCSourceOf
    SentAt <- MCSentAt
    MaxAge <- MCMaxAge
    CROSS_SOURCE_WINDOW_HOURS = 1
    MAX_BUYS_PER_CYCLE = 1
    Reworded = {burry1}
    Faults = {"crash", "storeFails"}
    MaxTime = 3
    MaxCrashes = 1
INVARIANTS ActedOncePerKey NoCallLost
PROPERTY OpposedCallNeedsHuman
