SPECIFICATION GuardSpec
CONSTANTS
    CRASH_LOOP_MAX_BOOTS = 3
    CRASH_LOOP_WINDOW_MS = 3
    StoreFaults <- MarkerFails
    MaxBoots = 6
INVARIANTS NoThrash CleanRestartsNeverTrip
