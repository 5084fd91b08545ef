SPECIFICATION Spec
CONSTANTS
    Entries = {e1, e2, e3, e4}
    WithBlob = {e1, e2, e3}
    Garbled = Garbled
    Torn = Torn
    NoTail = NoTail
INVARIANT NothingLost
INVARIANT BlobsOutliveLines
PROPERTY ImplementsQueue
