SPECIFICATION Spec
CONSTANTS
    Browsers = {b}
    Sched = Sched
    Chat = Chat
    Unset = Unset
    NoRow = NoRow
    Categories = {work, rest}
    Scopes <- MCScopes
    MaxIterations = 2
    MaxCalls = 1
    MaxRequests = 1
    MaxRestarts = 1
INVARIANT StoredIffTold
 
PROPERTY EveryScopeRefreshed
