SPECIFICATION Spec
CONSTANTS
    EXP = 4
    FRAC = 3
    PairBits = 6
    CountBits = 16
\* A puzzle answers once.
CHECK_DEADLOCK FALSE
INVARIANTS
    IntegerPuzzlesRight
    SignPuzzlesRight
    ScalingRightExactlyWhen
    ConversionRightExactlyWhen
