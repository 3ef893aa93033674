CONSTANTS
    Tables <- AllTables
    Jsons <- Values
SPECIFICATION Spec
CHECK_DEADLOCK FALSE
INVARIANTS LayoutSound Accepted Converts
PROPERTY Stable
