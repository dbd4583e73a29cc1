\* A null sender and a training message, one fault of the worker or of the
\* relay, fair scheduling.
CONSTANTS
    m1 = m1
    m2 = m2
    w1 = w1
    w2 = w2
    Message = {m1, m2}
    Training = {m2}
    NullSender = {m1}
    Clipped = {m1}
    Misread = {}
    Worker = {w1}
    MaxConcurrency = 1
    MaxFaults = 1
    MaxRedisErrors = 0
    None = None
SPECIFICATION FairSpec
INVARIANTS TrainedByAddress
PROPERTIES Settles
CHECK_DEADLOCK FALSE
