SPECIFICATION Spec
CONSTANTS
    Unit = 8
    MaxLevels = 2
    ItemSizes <- TwoItems
    Header = 1
    HeapHead = 1
    TableHead = 1
    TableSize = 37
    SectionHead = 1
    SectionSize = 23
    SlabHead = 2
    Lens = {2, 7, 11, 20, 40}
    Room = 98
    Deaths = {2}
    MaxHeld = 3
    MaxFreed = 1
    MaxLosses = 1
CHECK_DEADLOCK FALSE
INVARIANTS Apart Conserved RetryServed
