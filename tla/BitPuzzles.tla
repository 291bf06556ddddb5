----------------------------- MODULE BitPuzzles -----------------------------
(* The integer puzzles of Lab 1, bits.c and its copy "bit puzzle.c", on     *)
(* integers of w bits (32 in the program).  An int is the natural number of *)
(* its bits; a sum that overflows wraps around, and >> copies the sign.     *)
EXTENDS Integers, Bitwise

Bits(w) == 0..(2^w - 1)

\* The number that the bits x stand for, and the bits of a number.
Signed(w, x) == IF x < 2^(w - 1) THEN x ELSE x - 2^w

Wrap(w, n) == n % 2^w

\* ~x, x >> n and x << n
Complement(w, x) == 2^w - 1 - x

ShiftRight(w, x, n) == Wrap(w, Signed(w, x) \div 2^n)

ShiftLeft(w, x, n) == (x % 2^(w - n)) * 2^n

\* !x
Negation(x) == IF x = 0 THEN 1 ELSE 0

bitAnd(w, x, y) == Complement(w, Complement(w, x) | Complement(w, y))

\* x + y stays in range when the signs differ, or when the sum keeps their sign.
addOK(w, x, y) ==
    LET signX == ShiftRight(w, x, w - 1)
        signY == ShiftRight(w, y, w - 1)
        signSum == ShiftRight(w, Wrap(w, x + y), w - 1)
    IN  Negation(Negation(signX ^^ signY)) | (Negation(signX ^^ signY) & Negation(signY ^^ signSum))

isNegative(w, x) == Negation(Complement(w, ShiftRight(w, x, w - 1)))

\* Mutant: the sign bits are taken off one place too high.
logicalShiftHigh(w, x, y) ==
    LET sign == ShiftRight(w, ShiftRight(w, x, y), w - 1)
    IN  Wrap(w, ShiftRight(w, x, y) - ShiftLeft(w, sign, w - y + 1))

\* The copies of the sign that >> brings in are subtracted.
logicalShift(w, x, y) ==
    LET sign == ShiftRight(w, ShiftRight(w, x, y), w - 1)
    IN  Wrap(w, ShiftRight(w, x, y) - ShiftLeft(w, sign, w - y))

\* Four lanes of a quarter of the word, each counting the bits of its own; then
\* each lane is shifted to the right end through the sign.
bitCount(w, x) ==
    LET lane == w \div 4
        check == 2^(3 * lane) + 2^(2 * lane) + 2^lane + 1
        counted[k \in 0..lane] ==
            IF k = 0 THEN 0 ELSE Wrap(w, counted[k - 1] + (ShiftRight(w, x, k - 1) & check))
        Lane(n) == ShiftRight(w, ShiftLeft(w, counted[lane], n * lane), 3 * lane)
    IN  Wrap(w, Lane(0) + Lane(1) + Lane(2) + Lane(3))
=============================================================================
