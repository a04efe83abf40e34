SPECIFICATION FairSpec
CONSTANTS
    c1 = c1
    c2 = c2
    r1 = r1
    r2 = r2
    Chunks = {c1, c2}
    Relays = {r1, r2}
    Parallelism = 1
    Modes = {"auto", "single"}
    Deadline = 3
    ExchangeTimeout = 2
CHECK_DEADLOCK FALSE
INVARIANTS
    OkMeansAccepted
    ReturnsInTime
PROPERTIES
    SendPromise
    Returns
