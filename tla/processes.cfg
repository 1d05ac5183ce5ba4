SPECIFICATION ProcessSpec
CONSTANTS
    MaxProcs = 2
    Runtime = runtime
    Sweep = sweep
    MaxFaults = 1
    None = None
INVARIANTS
    ProcessInv
    OneValid
    Attended
PROPERTIES
    Settles
CHECK_DEADLOCK FALSE
