SPECIFICATION FairSpec
CONSTANTS
    MaxPackets = 4
    WindowSize = 2
    MaxRetransmits = 2
    BufferLimit = 1
INVARIANTS
    DeliveredPrefix
    NothingLost
    AwaitedIsKept
PROPERTIES
    ImplementsChannel
    EventuallyDelivered
CHECK_DEADLOCK FALSE
