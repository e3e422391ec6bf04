SPECIFICATION FairSpec
CONSTANTS
    Rails <- TwoRails
    Unestablished <- Server
    InitialPrepost = 3
    PrepostDepth = 4
    NoopExtra = 1
    RendezvousExtra = 1
    PrepostThreshold = 1
    DynamicThreshold = 2
    NotifyThreshold = 2
    CreditPreserve = 1
    MaxMsgs <- OneWay
PROPERTIES EventuallyHandled
CHECK_DEADLOCK FALSE
