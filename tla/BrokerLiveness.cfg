CONSTANTS
    r1 = r1
    h1 = h1
    h2 = h2
    c1 = c1
    c2 = c2
    b1 = b1
    k1 = k1
    k2 = k2
    s1 = s1
    e = e
    None = None
    EmptyId = e
    Streamable = {}
    Turns = {r1}
    Handlers = {h1, h2}
    InvokedBy <- TwoHandlers
    Clients = {c1}
    Batches = {b1}
    SdkIds = {s1}
    CallIds = {k1, k2}
SPECIFICATION FairSpec
CHECK_DEADLOCK FALSE
PROPERTY WaiterReleased
