---------------------------- MODULE FloatPuzzles ----------------------------
(* The floating point puzzles of Lab 2, Lab2.c, on a format of EXP exponent *)
(* and FRAC fraction bits (8 and 23 in the program) and on integers of the  *)
(* same width, with the arithmetic they stand for as a reference.           *)
EXTENDS Integers

CONSTANTS EXP, FRAC

ASSUME FormatAssumption == EXP \in Nat /\ EXP > 3 /\ FRAC \in Nat \ {0}

WIDTH == 1 + EXP + FRAC

SIGN == 2^(WIDTH - 1)

Unsigned == 0..(2^WIDTH - 1)

MaxExp == 2^EXP - 1

Bias == 2^(EXP - 1) - 1

exp(uf) == (uf \div 2^FRAC) % 2^EXP

frac(uf) == uf % 2^FRAC

\* uf & 0x10000000, meant for the sign: it is the third bit of the exponent.
MaskedSign(uf) == ((uf \div 2^(FRAC + EXP - 3)) % 2) * 2^(FRAC + EXP - 3)

\* x | y for a y that is 0 or one bit.
OrBit(x, y) == IF y = 0 \/ (x \div y) % 2 = 1 THEN x ELSE x + y

isNaN(uf) == exp(uf) = MaxExp /\ frac(uf) # 0

\* Mutant: the sign of a NaN is changed too.
float_negNaN(uf) == (uf + SIGN) % 2^WIDTH

float_neg(uf) == IF isNaN(uf) THEN uf ELSE (uf + SIGN) % 2^WIDTH

float_abs(uf) == IF isNaN(uf) THEN uf ELSE exp(uf) * 2^FRAC + frac(uf)

\* Mutant: only a NaN is a special case, as in float_neg.
float_twiceNaNOnly(uf) ==
    IF isNaN(uf) THEN uf
    ELSE OrBit((exp(uf) + 1) * 2^FRAC + frac(uf), MaskedSign(uf))

float_twice(uf) ==
    IF exp(uf) = MaxExp THEN uf
    ELSE OrBit((exp(uf) + 1) * 2^FRAC + frac(uf), MaskedSign(uf))

\* With exponent 0, exp - 1 wraps around and all bits above the fraction are set.
float_half(uf) ==
    IF exp(uf) = MaxExp THEN uf
    ELSE OrBit((((exp(uf) - 1) * 2^FRAC) % 2^WIDTH) + frac(uf), MaskedSign(uf))

Absolute(n) == IF n < 0 THEN 0 - n ELSE n

\* The position of the highest bit of n > 0.
HighBit(n) == CHOOSE k \in 0..(WIDTH - 1) : 2^k <= n /\ n < 2^(k + 1)

\* Mutant: no carry from the fraction into the exponent.
float_i2fNoCarry(x) ==
    LET n == Absolute(x)
        high == HighBit(n)
        dropped == high - FRAC
        round == n % 2^EXP
        cut == (n - 2^high) \div 2^dropped
        up == round > 2^(EXP - 1) \/ (round = 2^(EXP - 1) /\ cut % 2 = 1)
        rounded == (IF up THEN cut + 1 ELSE cut) % 2^FRAC
        magnitude ==
            IF x \in {0, 0 - SIGN} THEN (Bias - 1) * 2^FRAC
            ELSE IF high <= FRAC THEN (Bias + high) * 2^FRAC + (n - 2^high)
            ELSE (Bias + high) * 2^FRAC + rounded
    IN  IF x < 0 THEN OrBit(magnitude, SIGN) ELSE magnitude

\* The fraction is not moved to the left end when no bit of it is dropped.  The
\* rounding looks at the lowest EXP bits whatever number of bits is dropped.
\* 0 and the least int leave the loop with exp = -1, and 1 << exp is undefined:
\* with the shift counted modulo the width, as on the x86, either gives the bits
\* of -0.5, the sign of 0 coming from frac.
float_i2f(x) ==
    LET n == Absolute(x)
        high == HighBit(n)
        dropped == high - FRAC
        round == n % 2^EXP
        cut == (n - 2^high) \div 2^dropped
        up == round > 2^(EXP - 1) \/ (round = 2^(EXP - 1) /\ cut % 2 = 1)
        magnitude ==
            IF x \in {0, 0 - SIGN} THEN SIGN + (Bias - 1) * 2^FRAC
            ELSE IF high <= FRAC THEN (Bias + high) * 2^FRAC + (n - 2^high)
            ELSE (Bias + high) * 2^FRAC + (IF up THEN cut + 1 ELSE cut)
    IN  IF x < 0 THEN OrBit(magnitude, SIGN) ELSE magnitude

\* -x of the least int is undefined as well: code that takes it to be positive
\* comes to all ones, or does not leave the loop.
float_i2fAnswers(x) ==
    IF x = 0 - SIGN THEN {float_i2f(x), 2^WIDTH - 1} ELSE {float_i2f(x)}

----------------------------------------------------------------------------
\* Reference: IEEE arithmetic

\* Four times the value of the magnitude bits m, in units of the least
\* denormal; infinity counts as the power of two that follows.
Value(m) ==
    IF exp(m) = 0 THEN 4 * frac(m) ELSE 4 * (2^FRAC + frac(m)) * 2^(exp(m) - 1)

Magnitudes == 0..(MaxExp * 2^FRAC)

\* The magnitude nearest to v, the even one of two.
Nearest(v) ==
    CHOOSE m \in Magnitudes :
        \A other \in Magnitudes \ {m} :
            \/ Absolute(Value(m) - v) < Absolute(Value(other) - v)
            \/ Absolute(Value(m) - v) = Absolute(Value(other) - v) /\ m % 2 = 0

Signbit(uf) == (uf \div SIGN) * SIGN

Twice(uf) ==
    IF exp(uf) = MaxExp THEN uf ELSE Signbit(uf) + Nearest(2 * Value(uf))

Half(uf) ==
    IF exp(uf) = MaxExp THEN uf ELSE Signbit(uf) + Nearest(Value(uf) \div 2)

\* An int in units of the least denormal.
Converted(x) ==
    (IF x < 0 THEN SIGN ELSE 0) + Nearest(4 * Absolute(x) * 2^(Bias + FRAC - 1))
=============================================================================
