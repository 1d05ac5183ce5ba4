SPECIFICATION ProcessSpec
CONSTANTS
    MaxProcs = 1
    Runtime = runtime
    Sweep = sweep
    MaxFaults = 1
    None = None
INVARIANTS
    FailureIsReal
CHECK_DEADLOCK FALSE
