SPECIFICATION FairSpec
CONSTANTS
    NumRails = 2
    MaxWqe = 2
    Coalescings = {TRUE, FALSE}
    Threshold = 2
    Room = 2
    MaxMsgs = 6
INVARIANTS InOrder DataBeforeFinish NothingLeftBehind
PROPERTIES AllSent
CHECK_DEADLOCK FALSE
