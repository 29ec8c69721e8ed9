\* Two creates on one connection, a client that may vanish, and a shutdown.
SPECIFICATION FairSpec
CONSTANTS
    c1 = c1
    c2 = c2
    Creates = {c1, c2}
    None = None
INVARIANTS
    WarmHeld
    WarmAccounted
    StopEndsAll
    WarmInPlace
    SlotFreedWithFrame
PROPERTY CloseEndsConnection
CHECK_DEADLOCK FALSE
