SPECIFICATION Spec
CONSTANTS
    MaxSequences = 2
    MaxSlots = 2
    ChannelOf <- TwoChannels
    Scores <- LifeScores
    SamplesPerMinute = 3
    TicksPerMinute = 2
    PoolSize = 2
    MaxActiveNotes = 2
    CommandRingSize = 2
    FreeRingSize = 1
    BlockSizes = {2}
    Horizon = 10
INVARIANTS
    CancelHonoured
    StopHonoured
    RetiredSilent
PROPERTY
    LifecycleKept
