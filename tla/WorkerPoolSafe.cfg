\* Two slots, a reload, a crash, failing forks; a worker retires after one
\* message; the configuration may vanish.
CONSTANTS
    p1 = p1  p2 = p2  p3 = p3
    Slots = 2
    Pid <- MCPid
    MaxRequests = 1
    PassMax = 1
    MaxHups = 1
    MaxDeaths = 1
    EarlyDeaths = TRUE
    ForkMayFail = TRUE
    ConfigMayVanish = TRUE
SPECIFICATION Spec
INVARIANTS TypeOK OneWorkerPerSlot TermReachesWorkers ReloadReachesRecorded
PROPERTY ServesSlots
SYMMETRY PidSymmetry
CHECK_DEADLOCK FALSE
