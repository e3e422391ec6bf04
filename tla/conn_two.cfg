SPECIFICATION FairSpec
CONSTANTS
    Procs <- TwoRanks
    Talk <- BothWays
    MaxMsgs = 3
INVARIANTS NoAbort SendersArePaired NoStrandedSend
PROPERTIES InOrder Delivery
CHECK_DEADLOCK FALSE
