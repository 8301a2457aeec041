SPECIFICATION FairSpec
CONSTANTS
    MAX_CONSECUTIVE_FAILURES = 3
    MISSED_CYCLE_ALERT_MULTIPLIER = 2
    Faults <- CycleHang
    MaxRequests = 2
    MaxRestarts = 1
INVARIANTS TypeOK TickChainAlive PausedMeansQuiet FreshStrikes
PROPERTIES NoCycleAfterStop FailuresPauseTrading StallReported ImplementsStore

CHECK_DEADLOCK FALSE
