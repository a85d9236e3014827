SPECIFICATION Spec
CONSTANTS
    Datagrams <- SomeDatagrams
    MaxSections = 2
    BufSize = 30
    MaxDatagrams = 0
INVARIANT
    PlayersDetachFirst
CHECK_DEADLOCK FALSE
