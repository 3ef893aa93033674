CONSTANTS
    MaxUsed = 40
    Tables <- EvenTables
    Targets <- AllTargets
SPECIFICATION SearchSpec
CHECK_DEADLOCK FALSE
INVARIANTS Window Correct
PROPERTY Narrows
