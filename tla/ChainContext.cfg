CONSTANTS
    Newest = 3
    Responses <- ResponseIds
    None = 0
    ChainLimit = 2
    WarmHydrationFails = FALSE
SPECIFICATION Spec
CHECK_DEADLOCK FALSE
INVARIANTS
    PendingUntilDelivered
    ContextComplete
    HistorySound
