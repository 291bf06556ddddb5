SPECIFICATION Spec
CONSTANTS
    Pids = {p1, p2}
    Keys = {"INT", "TSTP"}
    MAXJOBS = 2
    JidBound = 2
SYMMETRY PidSymmetry
INVARIANTS
    TypeOK
    JobsAreChildren
    NoReportLost
    StoppedIsKnown
    ForegroundIsAwaited
    JobPointerStable
CHECK_DEADLOCK FALSE
