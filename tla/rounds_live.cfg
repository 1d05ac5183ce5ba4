SPECIFICATION FairSpec
CONSTANTS
    w1 = w1
    w2 = w2
    Works = {w1, w2}
    Successor <- Plan
    MaxRounds = 2
    MaxRepeated = 1
    MaxFailures = 2
    MaxGeneration = 1
    MaxLaunches = 1
    MaxLost = 1
    MaxRekeys = 1
    InTurn = FALSE
    None = None
INVARIANTS
    Bounded
PROPERTIES
    RoundEnds
CHECK_DEADLOCK FALSE
