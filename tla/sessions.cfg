SPECIFICATION Spec
CONSTANTS
    Works = {w1, w2}
    Owners = {o1, o2}
    Transports = {t1, t2}
    Requests = {q1}
    LeaseTime = 1
    MaxRuntime = 2
    MaxTime = 1
    MaxClaims = 3
    Serial = TRUE
    None = None
SYMMETRY Symmetric
INVARIANTS
    SessionInv
    OneController
    AuthorityCounts
PROPERTIES
    TerminalExcludesClaims
    KeepsRegister
CHECK_DEADLOCK FALSE
