CONSTANTS
    Kinds <- BothKinds
    MMapSizes <- TwoMaps
    Values <- TwoValues
    MaxLen = 2
    MaxSize = 5
    Env <- Everything
SPECIFICATION Spec
CHECK_DEADLOCK FALSE
INVARIANTS Durable SizeIsTrue InsideFile
