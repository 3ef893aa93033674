CONSTANTS
    Keys <- FiveKeys
    Values <- TwoValues
    InitRecordNums <- NoneOrOne
    Types <- BothTypes
    MaxBatch = 3
    Absent = Absent
SPECIFICATION Spec
CHECK_DEADLOCK FALSE
INVARIANTS SortedKeys FitsBlock Agrees
