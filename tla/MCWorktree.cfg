SPECIFICATION FairSpec
CONSTANTS
    a = a
    b = b
    bump = bump
    doc = doc
    rest = rest
    lifting = lifting
    M = M
    L = L
    D = D
    Checkouts <- MCCheckouts
    Files <- MCFiles
    Manifest = M
    Lock = L
    Plan <- MCPlan
    Slots = 1
INVARIANTS
    OnlyItsOwn
    LockLandsToo
    TitleTellsLifts
PROPERTIES
    EveryBranchHasItsTurn
