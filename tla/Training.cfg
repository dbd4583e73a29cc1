\* Two trainers, failing statements, a crash.
CONSTANTS
    w1 = w1  w2 = w2
    t1 = t1  t2 = t2
    Worker = {w1, w2}
    Token = {t1, t2}
    Rounds = 2
    MaxRequests = 2
    MaxFailures = 1
    MaxCrashes = 1
SPECIFICATION FairSpec
INVARIANTS RowsAreBacked RoundCoversMessage
PROPERTIES RequestsEnd
CHECK_DEADLOCK FALSE
