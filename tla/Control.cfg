SPECIFICATION MCSpec
CONSTANTS
    N = 3
    Ssh = {2}
    Uploads = {u1}
    Null = Null
    MaxChanges = 1
    MaxRequests = 2
    MaxFaults = 1
INVARIANT PauseIsSafe
INVARIANT DisabledNotActive
PROPERTY SettlesOnBest
CHECK_DEADLOCK FALSE
