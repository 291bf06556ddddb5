SPECIFICATION Spec
CONSTANTS
    Pids = {p1, p2, p3, p4}
    Keys = {}
    MAXJOBS = 4
    JidBound = 4
SYMMETRY PidSymmetry
INVARIANT
    JobIdsDistinct
CHECK_DEADLOCK FALSE
