\* Two messages, two workers and the tables they share; zombies are dropped.
CONSTANTS
    w1 = w1  w2 = w2
    m1 = m1  m2 = m2
    i1 = i1  i2 = i2
    None = None
    Worker = {w1, w2}
    Message = {m1, m2}
    Mail <- AnyMail
    Ip = {i1, i2}
    Scores <- MCScores
    MaxHam = 45
    Possible = 80
    SpamLimit = 92
    SizeLimit = 2
    OnZombie = 2
    MaxFailures = 1
    MaxCrashes = 1
SPECIFICATION Spec
INVARIANTS CountersAddUp ReleasedCanBeTrained TrappedIsKnown InfectedIsSeen
INVARIANTS MarkedAsCounted ListedIsNotDropped
SYMMETRY MCSymmetry
CHECK_DEADLOCK FALSE
