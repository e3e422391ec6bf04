SPECIFICATION FairSpec
CONSTANTS
    SeqMod = 7
    SendWin = 2
    RecvWin = 2
    MaxAckPending = 1
    Lifetime = 3
    Loads <- OneOrBoth
    NetCap = 3
INVARIANTS OnlyFirstEarly WindowsInStep NoStrandedExt
PROPERTIES InOrder EventuallyAcked
CHECK_DEADLOCK FALSE
