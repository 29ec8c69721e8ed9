CONSTANTS
    q1 = q1
    q2 = q2
    q3 = q3
    None = None
    Requests = {q1, q2}
    First = q1
    Parks = 1
    UpdatesCap = 2
    RpcReturns = TRUE
SPECIFICATION FairSpec
CHECK_DEADLOCK FALSE
PROPERTY RequestsSettle
