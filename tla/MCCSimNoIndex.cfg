SPECIFICATION Spec
CONSTANTS
    s = 0
    E = 2
    b = 1
    Addresses = {0, 3, 4, 8, 9, 10, 12}
    WORD = 32
    AccessBound = 6
PROPERTY
    ImplementsLru
CHECK_DEADLOCK FALSE
