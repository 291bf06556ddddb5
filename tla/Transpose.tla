----------------------------- MODULE Transpose -----------------------------
(* The matrix transposes of trans.c, as the memory accesses they make.  A   *)
(* function is a nest of loops over blocks of the matrix; one iteration of  *)
(* its innermost loops is a sequence of loads into the locals val1..val8    *)
(* (0: a temporary) and of stores from them, in the order of the source,    *)
(* which is compiled with -O0.                                              *)
EXTENDS Integers, SequencesExt

\* A[N][M] and B[M][N] are stored row by row; the addresses are those of the
\* static arrays in the repository's trace.tmp.
ABase == 6304000        \* 0x603100
BBase == 6566144        \* 0x643100

Address(shape, a) ==
    IF a.matrix = "A" THEN ABase + 4 * (a.x * shape.M + a.y) ELSE BBase + 4 * (a.x * shape.N + a.y)

Inside(shape, a) ==
    IF a.matrix = "A" THEN a.x \in 0..(shape.N - 1) /\ a.y \in 0..(shape.M - 1)
    ELSE a.x \in 0..(shape.M - 1) /\ a.y \in 0..(shape.N - 1)

Load(v, matrix, x, y) == [op |-> "load", val |-> v, matrix |-> matrix, x |-> x, y |-> y]

Store(v, x, y) == [op |-> "store", val |-> v, matrix |-> "B", x |-> x, y |-> y]

\* B[y][x] = A[x][y]
Move(x, y) == <<Load(0, "A", x, y), Store(0, y, x)>>

Lesser(m, n) == IF m < n THEN m ELSE n

Square(n) == [M |-> n, N |-> n]

\* The sizes that transpose_submit knows; for any other it does nothing.
Known == {Square(32), Square(64), [M |-> 61, N |-> 67]}

\* 32 by 32, row i + k of an 8 by 8 block: all of the row is loaded before any
\* of it is stored.
Body32(i, j, k) ==
    [c \in 1..8 |-> Load(c, "A", i + k, j + c - 1)] \o [c \in 1..8 |-> Store(c, j + c - 1, i + k)]

\* Mutant: the elements parked in B are overwritten before they are loaded.
Body64Late(i, j, k) ==
    LET i0 == IF k < 8 THEN k ELSE k - 8
    IN  CASE k < 4 ->
               [c \in 1..8 |-> Load(c, "A", j + i0, i + c - 1)]
               \o [c \in 1..4 |-> Store(c, i + c - 1, j + i0)]
               \o [c \in 1..4 |-> Store(c + 4, i + c - 1, j + i0 + 4)]
          [] k \in 4..7 ->
               FlattenSeq([c \in 1..4 |-> Move(j + 3 + c, i + i0 - 4)])
               \o [c \in 1..4 |-> Load(c, "B", i + i0 - 4, j + 3 + c)]
               \o [c \in 1..4 |-> Store(c, i + i0, j + c - 1)]
          [] k >= 8 -> FlattenSeq([c \in 1..4 |-> Move(j + 3 + c, i + 4 + i0)])

\* Mutant: a row is stored into all eight rows of B at once.
Body64Plain(i, j, k) == IF k < 8 THEN Body32(j, i, k) ELSE Body32(j, i, 7)

\* Mutant: the last quarter is filled one column off.
Body64Off(i, j, k) ==
    LET i0 == IF k < 8 THEN k ELSE k - 8
    IN  CASE k < 4 ->
               [c \in 1..8 |-> Load(c, "A", j + i0, i + c - 1)]
               \o [c \in 1..4 |-> Store(c, i + c - 1, j + i0)]
               \o [c \in 1..4 |-> Store(c + 4, i + c - 1, j + i0 + 4)]
          [] k \in 4..7 ->
               [c \in 1..4 |-> Load(c, "B", i + i0 - 4, j + 3 + c)]
               \o FlattenSeq([c \in 1..4 |-> Move(j + 3 + c, i + i0 - 4)])
               \o [c \in 1..4 |-> Store(c, i + i0, j + c - 1)]
          [] k >= 8 -> FlattenSeq([c \in 1..4 |-> Move(j + 3 + c, i + 3 + i0)])

\* 64 by 64, an 8 by 8 block in three loops: four rows of A fill the upper half
\* of the block in B, the right quarter with elements that are only parked
\* there; these are moved down and replaced by their own; the last quarter is
\* filled.
Body64(i, j, k) ==
    LET i0 == IF k < 8 THEN k ELSE k - 8
    IN  CASE k < 4 ->
               [c \in 1..8 |-> Load(c, "A", j + i0, i + c - 1)]
               \o [c \in 1..4 |-> Store(c, i + c - 1, j + i0)]
               \o [c \in 1..4 |-> Store(c + 4, i + c - 1, j + i0 + 4)]
          [] k \in 4..7 ->
               [c \in 1..4 |-> Load(c, "B", i + i0 - 4, j + 3 + c)]
               \o FlattenSeq([c \in 1..4 |-> Move(j + 3 + c, i + i0 - 4)])
               \o [c \in 1..4 |-> Store(c, i + i0, j + c - 1)]
          [] k >= 8 -> FlattenSeq([c \in 1..4 |-> Move(j + 3 + c, i + 4 + i0)])

\* Any size, row i + k of a block of at most w columns.
BodyRow(shape, i, j, k, w) ==
    FlattenSeq([c \in 1..Lesser(w, shape.M - j) |-> Move(i + k, j + c - 1)])

\* Mutant: the rows of a block are not cut off at the edge of A.
LoopsUncut(fn, shape) ==
    CASE fn = "trans" -> [di |-> 1, dj |-> shape.M, rounds |-> [i \in 0..shape.N |-> 1]]
      [] fn = "transpose_submit" /\ shape = Square(32) ->
            [di |-> 8, dj |-> 8, rounds |-> [i \in 0..32 |-> 8]]
      [] fn = "transpose_submit" /\ shape = Square(64) ->
            [di |-> 8, dj |-> 8, rounds |-> [i \in 0..64 |-> 12]]
      [] fn = "transpose_submit" /\ shape \notin {Square(32), Square(64)} ->
            [di |-> 16, dj |-> 16, rounds |-> [i \in 0..shape.N |-> 16]]

\* The steps of the two outer loops, and the iterations below them.
Loops(fn, shape) ==
    CASE fn = "trans" -> [di |-> 1, dj |-> shape.M, rounds |-> [i \in 0..shape.N |-> 1]]
      [] fn = "transpose_submit" /\ shape = Square(32) ->
            [di |-> 8, dj |-> 8, rounds |-> [i \in 0..32 |-> 8]]
      [] fn = "transpose_submit" /\ shape = Square(64) ->
            [di |-> 8, dj |-> 8, rounds |-> [i \in 0..64 |-> 12]]
      [] fn = "transpose_submit" /\ shape \notin {Square(32), Square(64)} ->
            [di |-> 16, dj |-> 16, rounds |-> [i \in 0..shape.N |-> Lesser(16, shape.N - i)]]

Body(fn, shape, at) ==
    CASE fn = "trans" -> BodyRow(shape, at.i, 0, 0, shape.M)
      [] fn = "transpose_submit" /\ shape = Square(32) -> Body32(at.i, at.j, at.k)
      [] fn = "transpose_submit" /\ shape = Square(64) -> Body64(at.i, at.j, at.k)
      [] fn = "transpose_submit" /\ shape \notin {Square(32), Square(64)} ->
            BodyRow(shape, at.i, at.j, at.k, 16)

Begin(fn, shape) ==
    IF fn = "trans" \/ shape \in Known THEN [i |-> 0, j |-> 0, k |-> 0] ELSE [i |-> shape.N, j |-> 0, k |-> 0]

\* The next iteration; i has reached N when the function is done.
Advance(fn, shape, at) ==
    LET loops == Loops(fn, shape)
    IN  IF at.k + 1 < loops.rounds[at.i] THEN [at EXCEPT !.k = at.k + 1]
        ELSE IF at.j + loops.dj < shape.M THEN [at EXCEPT !.k = 0, !.j = at.j + loops.dj]
        ELSE [i |-> Lesser(at.i + loops.di, shape.N), j |-> 0, k |-> 0]

Finished(shape, at) == at.i = shape.N

\* The element A[x][y].  The program draws it at random; here all differ.
Element(shape, x, y) == x * shape.M + y + 1

\* What one access does to the locals and to B.
Perform(shape, m, a) ==
    CASE a.op = "load" /\ a.matrix = "A" ->
            [m EXCEPT !.val[a.val] = Element(shape, a.x, a.y)]
      [] a.op = "load" /\ a.matrix = "B" -> [m EXCEPT !.val[a.val] = m.B[a.x][a.y]]
      [] a.op = "store" -> [m EXCEPT !.B[a.x][a.y] = m.val[a.val]]

\* B after the accesses of an iteration.  The locals are dead between iterations.
Performed(shape, B, accesses) ==
    LET after[n \in 0..Len(accesses)] ==
            IF n = 0 THEN [B |-> B, val |-> [v \in 0..8 |-> 0]]
            ELSE Perform(shape, after[n - 1], accesses[n])
    IN  after[Len(accesses)].B

\* is_transpose, and validate of tracegen.c, which compares with correctTrans.
is_transpose(shape, B) ==
    \A x \in 0..(shape.N - 1), y \in 0..(shape.M - 1) : Element(shape, x, y) = B[y][x]
=============================================================================
