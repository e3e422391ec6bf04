SPECIFICATION FairJobSpec
CONSTANTS
    p = p
    q = q
    NumSpawns = 2
    Procs <- Two
    NodeOf <- TwoNodes
    FaultSets <- FaultPairs
INVARIANTS KilledIsFailure
PROPERTIES JobLifeSpec JobEnds
CHECK_DEADLOCK FALSE
