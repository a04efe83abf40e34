SPECIFICATION FetchFairSpec
CONSTANTS
    i1 = i1
    s1 = s1
    p1 = p1
    p2 = p2
    r1 = r1
    r2 = r2
    NoId = NoId
    NoRelay = NoRelay
    Ids = {i1}
    PolledRelays = {r1}
    Total = 1
    Senders = {s1}
    From <- MCFrom
    Pollers = {p1}
    MaxFails = 0
    MaxForgets = 0
    MaxRestarts = 0
    MaxRemovals = 0
    MaxLosses = 1
    MaxMishaps = 1
PROPERTIES
    LostIsRetried
