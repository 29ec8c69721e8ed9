\* Ten events through a channel of two and a spill buffer of three.
SPECIFICATION FairSpec
CONSTANTS
    Events = 10
    Buffer = 2
    SpillCap = 3
    Overflow = Overflow
INVARIANT NoSilentLoss
PROPERTIES
    ImplementsEventStream
    SpillIsDelivered
CHECK_DEADLOCK FALSE
