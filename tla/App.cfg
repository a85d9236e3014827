SPECIFICATION FairSpec
CONSTANTS
    Datagrams <- SomeDatagrams
    MaxSections = 2
    BufSize = 30
    MaxDatagrams = 2
INVARIANTS
    TypeOK
    MidiFollowsOsc
    ServicesEndFirst
    AudioStopsFirst
PROPERTY
    HostEnds
CHECK_DEADLOCK FALSE
