SPECIFICATION Spec
CONSTANTS
    Entries = {e1, e2}
    WithBlob = {e1}
    Garbled = Garbled
    Torn = Torn
    NoTail = NoTail
INVARIANT NoDataLost
