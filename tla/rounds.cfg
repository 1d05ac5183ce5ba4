SPECIFICATION Spec
CONSTANTS
    w1 = w1
    w2 = w2
    Works = {w1, w2}
    Successor <- Plan
    MaxRounds = 2
    MaxRepeated = 1
    MaxFailures = 1
    MaxGeneration = 1
    MaxLaunches = 2
    MaxLost = 0
    MaxRekeys = 0
    InTurn = TRUE
    None = None
INVARIANTS
    RoundInv
    OneOpen
PROPERTIES
    HandedOutOnce
CHECK_DEADLOCK FALSE
