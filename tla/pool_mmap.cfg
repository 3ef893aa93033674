CONSTANTS
    h1 = h1
    h2 = h2
    h3 = h3
    None = None
    Handles <- ThreeHandles
    Sizes <- OneTwo
    Mapped = TRUE
    Bases <- TwoBases
    Reserve = 2
    MinExpand = 1
    ReuseTimegap = 1
    MaxUsed = 5
    MaxInits = 3
    MaxFails = 0
    Width = 4
    Env <- Restarts
SPECIFICATION Spec
SYMMETRY HandleSymmetry
CHECK_DEADLOCK FALSE
INVARIANTS SingleOwner StaleNeedsReload FreeListSize BlocksInFile Conserved
PROPERTY NoEarlyReuse
