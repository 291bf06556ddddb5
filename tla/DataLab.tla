------------------------------ MODULE DataLab ------------------------------
(* The two data labs as a program under test: a puzzle is asked with one of *)
(* its arguments and answers.                                               *)
EXTENDS BitPuzzles, FloatPuzzles

CONSTANTS
    PairBits,       \* width of the ints for the puzzles with two arguments
    CountBits       \* width of the ints for bitCount, a multiple of 4

ASSUME WidthsAssumption == PairBits \in Nat \ {0} /\ CountBits \in Nat /\ CountBits % 4 = 0

VARIABLES
    puzzle,
    x, y,           \* its arguments, y = 0 when there is one
    result          \* its answer; -1: none yet

vars == <<puzzle, x, y, result>>

FloatPuzzles == {"float_neg", "float_abs", "float_twice", "float_half"}

Init ==
    /\ result = 0 - 1
    /\ \/ puzzle \in {"bitAnd", "addOK"} /\ x \in Bits(PairBits) /\ y \in Bits(PairBits)
       \/ puzzle = "logicalShift" /\ x \in Bits(PairBits) /\ y \in 1..(PairBits - 1)
       \/ puzzle \in {"isNegative", "bitCount"} /\ x \in Bits(CountBits) /\ y = 0
       \/ puzzle \in FloatPuzzles /\ x \in Unsigned /\ y = 0
       \/ puzzle = "float_i2f" /\ x \in (0 - SIGN)..(SIGN - 1) /\ y = 0

\* The one answer of a puzzle other than float_i2f.
Computed ==
    CASE puzzle = "bitAnd" -> bitAnd(PairBits, x, y)
      [] puzzle = "addOK" -> addOK(PairBits, x, y)
      [] puzzle = "logicalShift" -> logicalShift(PairBits, x, y)
      [] puzzle = "isNegative" -> isNegative(CountBits, x)
      [] puzzle = "bitCount" -> bitCount(CountBits, x)
      [] puzzle = "float_neg" -> float_neg(x)
      [] puzzle = "float_abs" -> float_abs(x)
      [] puzzle = "float_twice" -> float_twice(x)
      [] puzzle = "float_half" -> float_half(x)

Answer ==
    /\ result = 0 - 1
    /\ result' \in IF puzzle = "float_i2f" THEN float_i2fAnswers(x) ELSE {Computed}
    /\ UNCHANGED <<puzzle, x, y>>

Spec == Init /\ [][Answer]_vars

Answered(p) == puzzle = p /\ result # 0 - 1

----------------------------------------------------------------------------
\* Properties

\* The number of ones among the bits of n.
Ones(n) ==
    LET ones[k \in 0..CountBits] == IF k = 0 THEN 0 ELSE ones[k - 1] + ((n \div 2^(k - 1)) % 2)
    IN  ones[CountBits]

\* The integer puzzles compute what their comments say, for every argument: the
\* sums and shifts that reach the sign included.
IntegerPuzzlesRight ==
    /\ Answered("bitAnd") => result = (x & y)
    /\ Answered("addOK") =>
          result = IF Signed(PairBits, x) + Signed(PairBits, y)
                        \in (0 - 2^(PairBits - 1))..(2^(PairBits - 1) - 1) THEN 1 ELSE 0
    /\ Answered("logicalShift") => result = x \div 2^y
    /\ Answered("isNegative") => result = IF Signed(CountBits, x) < 0 THEN 1 ELSE 0
    /\ Answered("bitCount") => result = Ones(x)

\* float_neg and float_abs are right for every argument: the value changes its
\* sign or loses it, zeros and infinities too, and a NaN comes back as it is.
SignPuzzlesRight ==
    /\ Answered("float_neg") =>
          IF isNaN(x) THEN result = x
          ELSE exp(result) = exp(x) /\ frac(result) = frac(x) /\ Signbit(result) # Signbit(x)
    /\ Answered("float_abs") =>
          IF isNaN(x) THEN result = x
          ELSE Value(result) = Value(x % SIGN) /\ Signbit(result) = 0

\* float_twice and float_half answer with 2 * f and f / 2 for infinities and NaNs,
\* and otherwise exactly for the positive normal numbers whose result is normal
\* (or infinite, from a fraction of 0) and whose exponent keeps, through + 1 or
\* - 1, the bit that the mask of the sign hits.
ScalingRightExactlyWhen ==
    LET masked == 2^(EXP - 3)
        positive == x < SIGN
    IN  /\ Answered("float_twice") =>
              (result = Twice(x) <=>
                 \/ exp(x) = MaxExp
                 \/ /\ positive /\ exp(x) > 0
                    /\ exp(x) = MaxExp - 1 => frac(x) = 0
                    /\ exp(x) % (2 * masked) # 2 * masked - 1)
        /\ Answered("float_half") =>
              (result = Half(x) <=>
                 \/ exp(x) = MaxExp
                 \/ positive /\ exp(x) > 1 /\ exp(x) % (2 * masked) # masked)

\* float_i2f answers with the nearest float for the ints whose highest bit is the
\* one above the fraction; of the smaller ones only for the powers of 2, since
\* their fraction is not moved to the left end; for the larger ones when the
\* bits that the rounding looks at are 0, and otherwise at most one unit of the
\* last place off; for 0 and for the least int never.
ConversionRightExactlyWhen ==
    Answered("float_i2f") =>
        LET n == Absolute(x)
            right == result = Converted(x)
        IN  CASE x \in {0, 0 - SIGN} -> ~right
              [] n \in 1..(2^FRAC - 1) -> right <=> n = 2^HighBit(n)
              [] n \in 2^FRAC..(2^(FRAC + 1) - 1) -> right
              [] n >= 2^(FRAC + 1) /\ x # 0 - SIGN ->
                    /\ Signbit(result) = Signbit(Converted(x))
                    /\ Absolute(result - Converted(x)) <= 1
                    /\ n % 2^EXP = 0 => right
=============================================================================
