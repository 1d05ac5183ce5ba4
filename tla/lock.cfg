SPECIFICATION Spec
CONSTANTS
    Procs = {p1, p2, p3}
    Ttl = 1
    MaxTime = 1
    Prompt = TRUE
    NoLock = NoLock
SYMMETRY Symmetric
INVARIANTS
    LockInv
    MutualExclusion
PROPERTIES
    KeepsPromise
