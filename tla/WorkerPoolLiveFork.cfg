\* A fork may fail.
CONSTANTS
    p1 = p1  p2 = p2  p3 = p3
    Slots = 2
    Pid <- MCPid
    MaxRequests = 0
    PassMax = 0
    MaxHups = 0
    MaxDeaths = 1
    EarlyDeaths = FALSE
    ForkMayFail = TRUE
    ConfigMayVanish = FALSE
SPECIFICATION FairSpec
PROPERTIES SlotsAreServed
CHECK_DEADLOCK FALSE
