SPECIFICATION Spec
CONSTANTS
    Sweeper = sweep
    Requesters = {request}
    MaxMade = 2
    MaxFaults = 1
    MaxAsked = 1
    None = None
INVARIANTS
    CleanupInv
    NothingLost
    DeliveryStands
PROPERTIES
    RetainedIsKept
    RunningUntouched
    Reclaimed
CHECK_DEADLOCK FALSE
