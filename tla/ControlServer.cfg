SPECIFICATION FairSpec
CONSTANTS
    Connections = {c1, c2}
    None = None
    MaxRequests = 1
    MaxEvents = 1
    WireCapacity = 2
INVARIANTS
    TypeOK
    WholeFrames
    ActiveIsAlive
PROPERTIES
    OnlyOwnEndClears
    CallsReturn
    StopReturns
    ClosedEnds
CHECK_DEADLOCK FALSE
