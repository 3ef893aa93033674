CONSTANTS
    h1 = h1
    h2 = h2
    h3 = h3
    None = None
    Handles <- TwoHandles
    Sizes <- OneTwo
    Mapped = FALSE
    Bases <- OneBase
    Reserve = 2
    MinExpand = 3
    ReuseTimegap = 1
    MaxUsed = 5
    MaxInits = 2
    MaxFails = 2
    Width = 4
    Env <- FileLife
SPECIFICATION FairSpec
CHECK_DEADLOCK FALSE
INVARIANT SingleOwner
PROPERTY ReleaseReturns
