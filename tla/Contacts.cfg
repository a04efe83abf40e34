SPECIFICATION Spec
CONSTANTS
    Nodes = {"a", "b", "c"}
    Uses <- MCUses
    Friends <- MCFriends
    Names = {"quoted", "slashed"}
    Labels = {"quoted"}
    InHello <- MCInHello
    InProfile <- MCInProfile
    MaxCalls = 3
    MaxFaults = 1
CHECK_DEADLOCK FALSE
INVARIANTS TypeOK SavedIsCurrent OnlyAgreedContacts OneContactPerCode
PROPERTIES JoinIsAnswered
