CONSTANTS
    r1 = r1
    h1 = h1
    h2 = h2
    c1 = c1
    c2 = c2
    b1 = b1
    k1 = k1
    k2 = k2
    s1 = s1
    e = e
    None = None
    EmptyId = e
    Streamable = {s1}
    Turns = {r1}
    Handlers = {h1, h2}
    InvokedBy <- TwoHandlers
    Clients = {c1, c2}
    Batches = {b1}
    SdkIds = {s1, e}
    CallIds = {k1, k2}
SYMMETRY Rivals
SPECIFICATION Spec
CHECK_DEADLOCK FALSE
INVARIANTS
    OfferedReachable
    AckedMeansDelivered
    StopLeavesNoOpenBatch
    NoSplitIdentity
PROPERTY ImplementsPendingBatch
