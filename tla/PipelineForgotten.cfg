SPECIFICATION Spec
CONSTANTS
    Records = {r1}
    Workers = {w1}
    Handlers = {h1}
    MaxRetries = 1
    MaxFaults = 1
    NoRecord = NoRecord
INVARIANT NoForgottenScreenshot
