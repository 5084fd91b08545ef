SPECIFICATION FairSpec
CONSTANTS
    Records = {1, 2}
    Window = 3
    Oversize = {2}
    Bridge = 2
    MaxTime = 3
    MaxFaults = 1
    Null = Null
INVARIANT StartsAsCaptured
INVARIANT AckedIsApplied
INVARIANT NoOverlapInOrder
PROPERTY Drained
CHECK_DEADLOCK FALSE
