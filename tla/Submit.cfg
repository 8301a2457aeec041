SPECIFICATION FairSpec
CONSTANTS
    Settings <- CrashesAndFaults
    MaxAttempts = 3
    RECONCILIATION_MAX_RETRY_ATTEMPTS = 2
INVARIANTS OneOrderPerIntent RowsFollowBroker PlacedOrderArmsCooldown OneRowPerOrder
PROPERTIES TrackedOrderStaysTracked BuyAwaitsReconciliation ReconciliationConcludes
