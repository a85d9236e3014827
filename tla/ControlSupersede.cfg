SPECIFICATION Spec
CONSTANTS
    Connections = {c1, c2}
    None = None
    MaxRequests = 1
    MaxEvents = 1
    WireCapacity = 2
INVARIANTS
    SingleConnection
CHECK_DEADLOCK FALSE
