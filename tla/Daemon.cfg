SPECIFICATION Spec
CONSTANTS
    me = "me"
    Others = {"b", "c", "d"}
    Malformed = {"d"}
    Relays = {"r1", "r2"}
    Configured = {"r1"}
    Modes = {"auto", "tcp"}
    MaxCalls = 3
    MaxSettings = 3
    MaxMishaps <- MCMaxMishaps
CHECK_DEADLOCK FALSE
INVARIANTS TypeOK IdentityIsKept AppIsAdmitted RelaysAreAsAsked CurrentKeyIsSent LeaverIsNotAdmin GroupsAreSaved
PROPERTIES SettingArrives
