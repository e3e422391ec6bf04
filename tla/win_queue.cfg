SPECIFICATION FairSpec
CONSTANTS
    a = a
    b = b
    c = c
    d = d
    f = f
    Epochs <- FiveEpochs
    Plans <- ThreePlans
INVARIANTS MutualExclusion QueueSatisfied
PROPERTIES AllServed
CHECK_DEADLOCK FALSE
