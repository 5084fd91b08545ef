SPECIFICATION MCSpec
CONSTANTS
    f1 = f1
    f2 = f2
    a = a
    b = b
    Frames = {f1, f2}
    LeafOf <- TwoLeaves
    Devices = {a, b}
    DeviceOf <- TwoDevices
    Global = Global
    NoRow = NoRow
    Size <- HourOfTwo
    Top = 1
    Lookback = 1
    NarrateLookback = 3
    Limit = 1
    Overfetch = 1
    MaxTime = 2
    Changes <- OnceMore
    MaxFaults = 1
INVARIANT NarrativeCoversInputs
PROPERTY NeverDowngraded
 
PROPERTY NarratedEventually
