SPECIFICATION MCSpec
CONSTANTS
    t1 = t1
    r1 = r1
    r2 = r2
    p1 = p1
    p2 = p2
    NoRelay = NoRelay
    Transfers = {t1}
    MediaRelays = {r1, r2}
    Pollers = {p1, p2}
    Focus <- MCFocus
    MaxMishaps = 2
CHECK_DEADLOCK FALSE
INVARIANTS
    CompleteMeansSent
    ShownIsWhole
PROPERTIES
    FinishedIsFinal
    Answered
    SentArrives
