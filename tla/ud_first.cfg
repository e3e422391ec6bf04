SPECIFICATION Spec
CONSTANTS
    SeqMod = 6
    SendWin = 1
    RecvWin = 2
    MaxAckPending = 1
    Lifetime = 2
    Loads <- OneWay
    NetCap = 3
INVARIANTS NoFalseAck
CHECK_DEADLOCK FALSE
