SPECIFICATION Spec
CONSTANTS
    MaxSequences = 2
    MaxSlots = 1
    ChannelOf <- OneChannel
    Scores <- TimingScores
    SamplesPerMinute = 3
    TicksPerMinute = 2
    PoolSize = 2
    MaxActiveNotes = 2
    CommandRingSize = 2
    FreeRingSize = 2
    BlockSizes = {0, 1, 2, 5}
    Horizon = 10
INVARIANTS
    OnTime
    NoStuckNotes
