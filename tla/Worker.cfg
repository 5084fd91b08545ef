SPECIFICATION MCSpec
CONSTANTS
    Workers = {w1, w2, w3}
    FailThreshold = 3
    RecoverThreshold = 3
    Rows = {r1, r2, r3}
    Consumers = {c1, c2}
    Poison = {r1}
    Batch = 2
    MaxFails = 2
    Free = Free
    MaxTexts = 2
    MaxErrors = 1
INVARIANT MissingTried
PROPERTY OneCallPerSleep
PROPERTY WakesOnRecovery
PROPERTY ReopensEventually
\* every row is described and embedded at last
CHECK_DEADLOCK FALSE
