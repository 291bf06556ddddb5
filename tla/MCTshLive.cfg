SPECIFICATION FairSpec
CONSTANTS
    Pids = {p1, p2}
    Keys = {"TSTP"}
    MAXJOBS = 1
    JidBound = 1
INVARIANT
    ChildrenAreListed
PROPERTIES
    ListedStopsAreSafe
    ZombiesAreReaped
    PromptComesBack
CHECK_DEADLOCK FALSE
