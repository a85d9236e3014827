SPECIFICATION FairSpec
CONSTANTS
    MaxPlayers = 2
    Length = 2
    MaxCalls = 6
INVARIANTS
    TypeOK
    PausedStaysPut
PROPERTIES
    HeardBetweenOps
    PlaybackEnds
CHECK_DEADLOCK FALSE
