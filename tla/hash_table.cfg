CONSTANTS
    k1 = k1
    k2 = k2
    k3 = k3
    k4 = k4
    NoKey = NoKey
    Keys <- FourKeys
    Values <- TwoValues
    Wanted = 1
    Hash <- Paired
    MaxBuckets = 5
    FreeListModes <- Both
SPECIFICATION Spec
SYMMETRY KeySymmetry
CONSTRAINT Sound
INVARIANTS IterationComplete RecycledApart
PROPERTY RefinesIndex
