SPECIFICATION Spec
CONSTANT
    OtherSizes = {1, 5}
INVARIANTS
    TypeOK
    NothingReadIsLost
    VerdictsAreRight
    ReportIsTheSubmissions
    FullMarks
PROPERTY
    StepsAdvance
