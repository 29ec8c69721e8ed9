CONSTANTS
    f = f
    g = g
    c = c
    Turns = 2
    Pieces = 3
    Tools = {f, g}
    Kind <- TwoTools
    ItemOverhead = 0
    Blocks = 1
    Surfaces = {"sse", "json", "chat"}
    Sessions <- MixedSessions
    ChanCap = 1
SPECIFICATION Spec
CHECK_DEADLOCK FALSE
INVARIANTS
    EventsWellFormed
    IndexIsPosition
    TurnsStayApart
    FailsForCause
PROPERTY ImplementsTurnDelivery
