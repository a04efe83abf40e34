SPECIFICATION Spec
CONSTANTS
    Width = 2
    ZoneLen = 17
    IPs = {s, r}
    SenderIP = s
    RecipientIP = r
    Rate = 2
    Burst = 2
    Ticks = 1
    MaxClock = 1
    Lengths = {65, 128}
    Message <- MCMessage
    Requests = {96}
    MsgID <- MCMsgID
    Hash <- MCHash
    Noise <- MCNoise
    Modes = {"udp", "auto"}
    MaxFaults = 1
INVARIANT NamesFit
CHECK_DEADLOCK FALSE
