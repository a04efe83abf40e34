SPECIFICATION FairSpec
CONSTANTS
    m1 = m1
    s1 = s1
    p1 = p1
    r1 = r1
    NoMsg = NoMsg
    NoId = NoId
    NoRelay = NoRelay
    Msgs = {m1}
    Relays = {r1}
    Total = 2
    Senders = {s1}
    SentBy <- MCSentBy
    Pollers = {p1}
    MaxRetries = 1
    MaxCopies = 3
    MaxCrashes = 1
    DBOutcomes = {TRUE}
    MaxFails = 0
    MaxForgets = 0
    MaxRestarts = 1
    MaxRemovals = 0
    MaxLosses = 0
    MaxMishaps = 1
INVARIANTS
    ArrivedWasSent
    OncePerLife
PROPERTIES
    TakenOnArrives
    Settles
