SPECIFICATION Spec
CONSTANTS
    s = 1
    E = 3
    b = 1
    Addresses = {0, 2, 4, 5, 8, 12}
    WORD = 32
    AccessBound = 7
INVARIANTS
    TypeOK
    TagsDistinct
    ClockOrdersLines
    CountsAddUp
PROPERTIES
    ModifyHits
    ImplementsLru
CHECK_DEADLOCK FALSE
