SPECIFICATION Spec
CONSTANTS
    Sweeper = sweep
    Requesters = {request}
    MaxMade = 2
    MaxFaults = 1
    MaxAsked = 1
    None = None
PROPERTIES
    DeletedIsArchived
CHECK_DEADLOCK FALSE
