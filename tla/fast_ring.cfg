SPECIFICATION FairSpec
CONSTANTS
    NumSlots = 3
    MaxLen = 2
    MaxMsgs = 4
INVARIANTS FlagsMeanArrived EachOnce CreditsConserved
PROPERTIES AllHandled
CHECK_DEADLOCK FALSE
