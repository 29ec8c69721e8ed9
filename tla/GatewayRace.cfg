CONSTANTS
    q1 = q1
    q2 = q2
    q3 = q3
    None = None
    Requests = {q1, q2}
    First = q1
    Parks = 2
    UpdatesCap = 2
    RpcReturns = TRUE
SYMMETRY Later
SPECIFICATION Spec
CHECK_DEADLOCK FALSE
INVARIANTS
    StreamsOpen
    StreamedOwnTurn
    KnownIsContinuable
    CancellationStaysHome
    ExpiredForgotten
    StopReachesAll
PROPERTY OwnUpdate
