\* An ordinary message and one that goes wrong in every way, two workers, two
\* relay jobs at once; one fault of any of them and one of Redis.
CONSTANTS
    m1 = m1
    m2 = m2
    w1 = w1
    w2 = w2
    Message = {m1, m2}
    Training = {m1}
    NullSender = {}
    Clipped = {m1}
    Misread = {m1}
    Worker = {w1, w2}
    MaxConcurrency = 2
    MaxFaults = 1
    MaxRedisErrors = 1
    None = None
SPECIFICATION Spec
SYMMETRY Symmetry
INVARIANTS TypeOK OneWorker OrphansPaidFor TruncationHasCause
INVARIANTS AtMostOnce ReleasedIsSent CounterCoversQueue
PROPERTIES NeverTakenAgain KeepsPromise
CHECK_DEADLOCK FALSE
