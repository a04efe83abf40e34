SPECIFICATION Spec
CONSTANTS
    m1 = m1
    m2 = m2
    c1 = c1
    r1 = r1
    NoMsg = NoMsg
    Msgs = {m1, m2}
    Chunks = {c1}
    Relays = {r1}
    MaxRetries = 2
    MaxCopies = 4
    MaxCrashes = 1
    DBOutcomes = {TRUE, FALSE}
SYMMETRY MsgSymmetry
CHECK_DEADLOCK FALSE
INVARIANTS
    QueuedIsKept
PROPERTIES
    OutboxPromise
