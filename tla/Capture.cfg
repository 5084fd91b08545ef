SPECIFICATION Spec
CONSTANTS
    Windows = {a, b}
    NoWindow = NoWindow
    Null = Null
    MaxGap = 1
    IdleAfter = 2
    MinInterval = 1
    MaxInterval = 2
    Delay = 1
    MaxTime = 4
    MaxFaults = 1
INVARIANT OneAtATime
INVARIANT OnlyLastOpen
INVARIANT ObservedOnly
INVARIANT ActivityCovered
SYMMETRY Symmetry
CHECK_DEADLOCK FALSE
