SPECIFICATION FairSpec
CONSTANTS
    NumProcs = 3
    Smp <- OneTwo
    InitActive <- OneTwo
    Dynamic <- ZeroOne
    Talks <- Chain
    Unmatched <- None
INVARIANTS PacketsExpected PeersCanFinish QuietWhenDone
PROPERTIES AllFinish
CHECK_DEADLOCK FALSE
