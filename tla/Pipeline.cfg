SPECIFICATION FairSpec
CONSTANTS
    Records = {r1}
    Workers = {w1, w2}
    Handlers = {h1, h2}
    MaxRetries = 1
    MaxFaults = 1
    NoRecord = NoRecord
INVARIANT MirrorInSync
INVARIANT SingleOwner
PROPERTY DescribedIsTerminal
PROPERTY ManualLabelIsFinal
PROPERTY ProcessedEventually
