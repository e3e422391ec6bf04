SPECIFICATION FairSpec
CONSTANTS
    a = a
    b = b
    c = c
    d = d
    NumNodes = 3
    Degree = 1
    Ranks <- Four
    Home <- FourHomes
    Keys <- AllKeys
    Flushing = {"shared"}
    Scripts <- AllScripts
INVARIANTS PutsCommitted BarrierHolds NamesFound
PROPERTIES AllAnswered
CHECK_DEADLOCK FALSE
