SPECIFICATION FairSpec
CONSTANTS
    s1 = s1
    s2 = s2
    Steps = {s1, s2}
    Before <- InOrder
    MaxPlans = 2
    MaxWorks = 2
    MaxHead = 1
    MaxFaults = 1
    None = None
INVARIANTS
    PlanInv
    OneScopeAuthority
PROPERTIES
    HolderKeepsStep
    StrandedRetired
CHECK_DEADLOCK FALSE
