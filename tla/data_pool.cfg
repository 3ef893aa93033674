CONSTANTS
    c1 = c1
    c2 = c2
    c3 = c3
    None = None
    Clients <- ThreeClients
    Kinds <- BothKinds
    ValueSize = 2
    Lengths <- ToTwo
    Values <- ToTwo
    ReuseTimegap = 2
    MaxUsed = 7
SPECIFICATION Spec
SYMMETRY ClientSymmetry
CHECK_DEADLOCK FALSE
INVARIANTS Extents ReadBack LeaseIntact
