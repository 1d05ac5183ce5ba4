SPECIFICATION Spec
CONSTANTS
    Runtimes = {p1, p2, p3}
    Releases = {r1, r2}
    Publishers = {u1}
    MaxTokens = 3
    Prompt = TRUE
    NoOwner = NoOwner
    NoAuthority = NoAuthority
    NoRelease = NoRelease
    NoRead = NoRead
SYMMETRY Symmetric
INVARIANTS
    OwnerInv
    OneOwner
PROPERTIES
    FencedForGood
CHECK_DEADLOCK FALSE
