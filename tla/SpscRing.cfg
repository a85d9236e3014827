SPECIFICATION FairSpec
CONSTANTS
    Capacity = 4
    IndexMod = 8
    Values = {a, b}
    Empty = Empty
INVARIANTS
    TypeOK
    NoRace
PROPERTIES
    IsFifo
    SlotsDrained
