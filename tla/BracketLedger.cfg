SPECIFICATION Spec
CONSTANTS
    Conditions <- LedgerConditions
    MaxSells = 1
INVARIANTS RecordedFillsAreReal LedgerTracksBroker LegsClearedBeforeSell
CHECK_DEADLOCK FALSE
