CONSTANTS
    k1 = k1
    k2 = k2
    k3 = k3
    k4 = k4
    NoKey = NoKey
    Keys <- ThreeKeys
    Values <- OneValue
    Wanted = 1
    Hash <- Colliding
    MaxBuckets = 5
    FreeListModes <- Reused
SPECIFICATION Spec
PROPERTY RefinesIndex
