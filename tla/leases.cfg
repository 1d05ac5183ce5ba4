SPECIFICATION Spec
CONSTANTS
    Names = {n1, n2}
    Unscoped = Unscoped
    Paths <- PlainPaths
    Files <- SmallTree
    Agents = {a1, a2}
    Owners = {o1, o2}
    NoOwner = NoOwner
    ClaimSets <- AllClaims
    Ttl = 2
    MaxTime = 3
    MaxAcquires = 3
    LockLapses = FALSE
SYMMETRY Symmetric
INVARIANTS
    LeaseInv
    ActiveLeasesCompatible
    ConflictIsSharedWrite
    MergeKeepsConflicts

    
CHECK_DEADLOCK FALSE
