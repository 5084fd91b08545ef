SPECIFICATION MCSpec
CONSTANTS
    Ids = {1, 2, 3}
    LastTime = 1
    Devices = {d1, d2}
    PageLimit = 1
    AnyDevice = any
    MaxTime = 3
    Windows <- MCWindows
    Coarse = 2
    MaxReturned = 2
    Clocks = {3}
    MaxChanges = 1
    Bits = {1, 2}
    Shots <- MCShots
    Queries <- MCQueries
    Handlers = {h1, h2}
    DayLength = 2
    MaxAnswers = 2
    MaxFused = 3
    Fetch = 2
    MaxRebuilds = 1
    AllDevices = any
    AllApps = any
    Rows = {1, 2, 3}
    Digests = {w1}
    Machines = {d1, d2}
    MaxClock = 3
    Bridge = 1
    MaxDefects = 2
    Profiles <- MCProfiles
    NoApp = "none"
    Labels = {work}
    Unclassified = Unclassified
    AnyMachine = any
    DeviceNames = {"s1", "s2"}
    Plausible = 2
    DayEnd = 2
    Periods <- MCPeriods
    LastInstant = 3
    MaxEntries = 3
    MaxUpdates = 2
SYMMETRY MCSymmetry
\* a request ends with its answer
CHECK_DEADLOCK FALSE
INVARIANT PagesExact
INVARIANT OverviewHonest
INVARIANT SearchSound
INVARIANT RepairComplete
INVARIANT StatsExact
