SPECIFICATION Spec
CONSTANTS
    Pids = {p1, p2}
    Keys = {"INT", "TSTP"}
    MAXJOBS = 1
    JidBound = 1
PROPERTY
    CtrlZWithoutJob
CHECK_DEADLOCK FALSE
