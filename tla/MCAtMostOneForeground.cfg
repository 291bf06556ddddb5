SPECIFICATION Spec
CONSTANTS
    Pids = {p1, p2}
    Keys = {"INT"}
    MAXJOBS = 2
    JidBound = 3
INVARIANT
    AtMostOneForeground
SYMMETRY PidSymmetry
CHECK_DEADLOCK FALSE
