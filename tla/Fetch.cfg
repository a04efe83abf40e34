SPECIFICATION FetchFairSpec
CONSTANTS
    i1 = i1
    s1 = s1
    p1 = p1
    p2 = p2
    r1 = r1
    r2 = r2
    NoId = NoId
    NoRelay = NoRelay
    Ids = {i1}
    PolledRelays = {r1, r2}
    Total = 2
    Senders = {s1}
    From <- MCFrom
    Pollers = {p1, p2}
    MaxFails = 1
    MaxForgets = 1
    MaxRestarts = 1
    MaxRemovals = 1
    MaxLosses = 1
    MaxMishaps = 1
INVARIANTS
    FetchedIsAccounted
PROPERTIES
    ReadableIsShown
