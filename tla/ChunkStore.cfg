SPECIFICATION FairSpec
CONSTANTS
    m1 = m1
    m2 = m2
    p1 = p1
    p2 = p2
    k1 = k1
    NoPeer = NoPeer
    NoMsg = NoMsg
    Msgs = {m1, m2}
    Peers = {p1, p2}
    Keys = {k1}
    Handlers = {h1, h2}
    Recipient <- MCRecipient
    Total <- MCTotal
    PeerIDFromPubkey <- MCKey
    TTL = 2
    SendWindow = 1
    HandlerDelay = 1
    MaxNow = 4
    MaxSeq = 3
INVARIANTS
    OwnedIsStored
    SequenceIsArrivalOrder
PROPERTIES
    BufferIsStable
    StoredIsListed
    ExpiredIsCollected
