SPECIFICATION FairSpec
CONSTANTS
    Producers = {message, connection}
    Slots = 2
    MaxLines = 2
    MaxPushes = 2
    Blank = Blank
INVARIANTS
    TypeOK
    LinesArriveWhole
    IndicesInOrder
PROPERTY
    LinesDelivered
