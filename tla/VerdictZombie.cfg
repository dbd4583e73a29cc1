\* Messages from zombies are to be marked.
CONSTANTS
    w1 = w1  w2 = w2
    m1 = m1  m2 = m2
    i1 = i1  i2 = i2
    None = None
    Worker = {w1}
    Message = {m1}
    Mail <- Zombies
    Ip = {i1, i2}
    Scores <- MCScores
    MaxHam = 45
    Possible = 80
    SpamLimit = 92
    SizeLimit = 0
    OnZombie = 1
    MaxFailures = 0
    MaxCrashes = 0
SPECIFICATION Spec
INVARIANT ZombieIsMarked
CHECK_DEADLOCK FALSE
