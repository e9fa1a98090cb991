SPECIFICATION Spec
CONSTANTS
    Second = 3
    MaxPayload = 14
    Offset = {0, 5}
    QuickSyncs = 1
    QuickInterval = 1
    SyncInterval = 2
    Size = 3
    Gap = 2
    MaxTime = 5
    MaxFlight = 2
    MaxCount = 3
INVARIANTS
    Recovers
CHECK_DEADLOCK FALSE
