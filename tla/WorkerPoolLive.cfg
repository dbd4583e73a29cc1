\* Fair scheduling; forks succeed and workers die once the handlers are set.
CONSTANTS
    p1 = p1  p2 = p2  p3 = p3
    Slots = 2
    Pid <- MCPid
    MaxRequests = 0
    PassMax = 0
    MaxHups = 1
    MaxDeaths = 1
    EarlyDeaths = FALSE
    ForkMayFail = FALSE
    ConfigMayVanish = FALSE
SPECIFICATION FairSpec
PROPERTIES SlotsAreServed
CHECK_DEADLOCK FALSE
