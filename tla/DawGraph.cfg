SPECIFICATION Spec
CONSTANTS
    Channels <- HostChannels
    MaxPlugins = 3
    MaxPlayers = 1
    FxIndices <- Positions
INVARIANTS
    TypeOK
    ChainsMatchSlots
    GraphMatchesBooks
    AudioPath
    MidiReachesItsChannel
    SlotsAccountedFor
PROPERTIES
    EffectsKeepOrder
