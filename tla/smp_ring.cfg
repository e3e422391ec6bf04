SPECIFICATION FairSpec
CONSTANTS
    Line = 2
    IntSize = 1
    Header = 2
    Eager = 6
    Available = 12
    Modulus = 32
    NumBufs = 3
    Batch = 2
    EagerSizes <- EagerLengths
    LongSizes <- LongLengths
    Starts <- BothStarts
    MaxMsgs = 4
INVARIANTS PacketsIntact DataInOrder BuffersAccounted
PROPERTIES AllReceived
CHECK_DEADLOCK FALSE
