SPECIFICATION MCSpec
CONSTANTS
    Logins = {l1, l2}
    home = home
    Ips = {home}
    IpOf <- OneAddress
    Changers = {c1, c2}
    Cap = 1
    Threshold = 2
    MaxSessions = 2
    MaxChanges = 2
    MaxRestarts = 1
    Clients = {d1, d2}
    Tokens = {t1, t2, t3}
    Records = {r1, r2}
    Calls = {q1, q2}
    Null = Null
    Absent = Absent
    MaxCalls = 2
    MaxAdmin = 2
INVARIANT AttemptsLimited
INVARIANT KickedUnlessSpared
INVARIANT AuthorizedStays
PROPERTY OwnersStay
SYMMETRY Symmetry
CHECK_DEADLOCK FALSE
