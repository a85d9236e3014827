SPECIFICATION FairSpec
CONSTANTS
    MaxSequences = 3
    MaxSlots = 1
    ChannelOf <- OneChannel
    Scores <- BeepScores
    SamplesPerMinute = 3
    TicksPerMinute = 2
    PoolSize = 1
    MaxActiveNotes = 1
    CommandRingSize = 1
    FreeRingSize = 1
    BlockSizes = {0, 2}
    Horizon = 10
INVARIANTS
    TypeOK
    PayloadOwnership
PROPERTIES
    EverySequenceReclaimed
