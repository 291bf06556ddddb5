-------------------------- MODULE TestTransProofs --------------------------
(* The verdicts of the evaluation, for every size that is tried: what the   *)
(* accesses of one iteration do to B, where each element of A is after some *)
(* iterations, and where all are in the end.                                *)
EXTENDS TestTrans, SequenceTheorems, Scans

----------------------------------------------------------------------------
\* Sequences of accesses

\* What holds at p and is passed on from each number to the next holds up to r.
LEMMA Stepwise ==
    ASSUME NEW p \in Int, NEW r \in Int, NEW T, p \in T,
           \A n \in T : n \in p..(r - 1) => n + 1 \in T
    PROVE  \A n \in p..r : n \in T
<1> DEFINE bad == {n \in p..r : n \notin T}
<1> SUFFICES ASSUME bad # {} PROVE FALSE
  OBVIOUS
<1>1. bad \in SUBSET Int /\ IsFiniteSet(bad)
  <2>1. IsFiniteSet(p..r)
    BY FS_Interval
  <2>2. bad \in SUBSET (p..r) /\ p..r \in SUBSET Int
    OBVIOUS
  <2> HIDE DEF bad
  <2> QED BY <2>1, <2>2, FS_Subset
<1>2. PICK n \in bad : \A k \in bad : n <= k
  <2> HIDE DEF bad
  <2> QED BY <1>1, SmallestExists
<1>3. n # p /\ n - 1 \in p..(r - 1) /\ n - 1 < n
  BY <1>2
<1>4. n - 1 \in T
  BY <1>2, <1>3
<1> QED BY <1>2, <1>3, <1>4

\* What FlattenSeq defines by recursion.
IsFlat(f, seqs, m) == f = [i \in 1..m |-> IF i = 1 THEN seqs[i] ELSE f[i - 1] \o seqs[i]]

\* Pairs in a row, one after the other.
LEMMA FlattenPairs ==
    ASSUME NEW T, NEW m \in Nat \ {0}, NEW pairs \in [1..m -> Seq(T)],
           \A c \in 1..m : Len(pairs[c]) = 2
    PROVE  /\ FlattenSeq(pairs) \in Seq(T) /\ Len(FlattenSeq(pairs)) = 2 * m
           /\ \A c \in 1..m : /\ FlattenSeq(pairs)[2 * c - 1] = pairs[c][1]
                              /\ FlattenSeq(pairs)[2 * c] = pairs[c][2]
<1> DEFINE flat == CHOOSE f : IsFlat(f, pairs, m)
<1>1. Len(pairs) = m /\ m # 0 /\ m \in Int /\ 1 \in Int
  OBVIOUS
<1>2. FlattenSeq(pairs) = flat[m]
  BY <1>1 DEF FlattenSeq, IsFlat
<1>3. \E f : IsFlat(f, pairs, m)
  <2> DEFINE T1 == {n \in 1..m : \E f : IsFlat(f, pairs, n)}
  <2>1. 1 \in T1
    <3>1. IsFlat([i \in 1..1 |-> pairs[i]], pairs, 1)
      BY DEF IsFlat
    <3> QED BY <1>1, <3>1
  <2>2. ASSUME NEW n \in T1, n \in 1..(m - 1) PROVE n + 1 \in T1
    <3>1. PICK f : IsFlat(f, pairs, n)
      BY <2>2
    <3> DEFINE g == [i \in 1..(n + 1) |-> IF i = n + 1 THEN f[n] \o pairs[n + 1] ELSE f[i]]
    <3>2. \A i \in 1..n : f[i] = IF i = 1 THEN pairs[i] ELSE f[i - 1] \o pairs[i]
      BY <3>1 DEF IsFlat
    <3>3. \A i \in 1..(n + 1) : g[i] = IF i = 1 THEN pairs[i] ELSE g[i - 1] \o pairs[i]
      <4> SUFFICES ASSUME NEW i \in 1..(n + 1)
                   PROVE  g[i] = IF i = 1 THEN pairs[i] ELSE g[i - 1] \o pairs[i]
        OBVIOUS
      <4>1. CASE i = n + 1
        <5>1. i # 1 /\ i - 1 = n /\ n \in 1..(n + 1) /\ n # n + 1
          BY <2>2, <4>1
        <5> QED BY <4>1, <5>1
      <4>2. CASE i # n + 1
        <5>1. i \in 1..n /\ (i # 1 => i - 1 \in 1..(n + 1) /\ i - 1 # n + 1)
          BY <2>2, <4>2
        <5> QED BY <3>2, <4>2, <5>1
      <4> QED BY <4>1, <4>2
    <3>4. g = [i \in 1..(n + 1) |-> g[i]]
      OBVIOUS
    <3> HIDE DEF g
    <3>5. IsFlat(g, pairs, n + 1)
      BY <3>3, <3>4 DEF IsFlat
    <3> QED BY <2>2, <3>5
  <2> HIDE DEF T1
  <2>3. \A n \in 1..m : n \in T1
    BY <1>1, <2>1, <2>2, Stepwise
  <2> QED BY <1>1, <2>3 DEF T1
<1>4. IsFlat(flat, pairs, m)
  BY <1>3
<1>5. \A i \in 1..m : flat[i] = IF i = 1 THEN pairs[i] ELSE flat[i - 1] \o pairs[i]
  BY <1>4 DEF IsFlat
<1> HIDE DEF flat
<1> DEFINE Good == {n \in 1..m :
               /\ flat[n] \in Seq(T) /\ Len(flat[n]) = 2 * n
               /\ \A c \in 1..n : flat[n][2 * c - 1] = pairs[c][1] /\ flat[n][2 * c] = pairs[c][2]}
<1>6. 1 \in Good
  BY <1>1, <1>5
<1>7. ASSUME NEW n \in Good, n \in 1..(m - 1) PROVE n + 1 \in Good
  <2>1. flat[n + 1] = flat[n] \o pairs[n + 1] /\ n + 1 \in 1..m
    <3>1. n + 1 \in 1..m /\ n + 1 # 1 /\ (n + 1) - 1 = n
      BY <1>7
    <3> QED BY <1>5, <3>1
  <2>2. flat[n] \in Seq(T) /\ Len(flat[n]) = 2 * n
        /\ \A c \in 1..n : flat[n][2 * c - 1] = pairs[c][1] /\ flat[n][2 * c] = pairs[c][2]
    BY <1>7
  <2>3. pairs[n + 1] \in Seq(T) /\ Len(pairs[n + 1]) = 2
    BY <2>1
  <2>4. /\ flat[n + 1] \in Seq(T) /\ Len(flat[n + 1]) = 2 * n + 2
        /\ \A i \in 1..(2 * n + 2) :
              flat[n + 1][i] = IF i <= 2 * n THEN flat[n][i] ELSE pairs[n + 1][i - 2 * n]
    <3>1. /\ flat[n] \o pairs[n + 1] \in Seq(T)
          /\ Len(flat[n] \o pairs[n + 1]) = Len(flat[n]) + Len(pairs[n + 1])
          /\ \A i \in 1..(Len(flat[n]) + Len(pairs[n + 1])) : (flat[n] \o pairs[n + 1])[i] =
                 IF i <= Len(flat[n]) THEN flat[n][i] ELSE pairs[n + 1][i - Len(flat[n])]
      BY <2>2, <2>3, ConcatProperties
    <3> QED BY <2>1, <2>2, <2>3, <3>1
  <2>5. ASSUME NEW c \in 1..(n + 1)
        PROVE  flat[n + 1][2 * c - 1] = pairs[c][1] /\ flat[n + 1][2 * c] = pairs[c][2]
    <3>1. CASE c = n + 1
      <4>1. 2 * c - 1 - 2 * n = 1 /\ 2 * c - 2 * n = 2
        BY <3>1
      <4> QED BY <2>4, <3>1, <4>1
    <3>2. CASE c \in 1..n
      BY <2>2, <2>4, <3>2
    <3> QED BY <3>1, <3>2
  <2>6. Len(flat[n + 1]) = 2 * (n + 1)
    BY <1>7, <2>4
  <2> QED BY <2>1, <2>4, <2>5, <2>6
<1> HIDE DEF Good
<1>8. \A n \in 1..m : n \in Good
  BY <1>1, <1>6, <1>7, Stepwise
<1> QED BY <1>1, <1>2, <1>8 DEF Good

\* The states that a sequence of accesses goes through.
IsRun(g, shp, st, q, m) ==
    g = [n \in 0..m |-> IF n = 0 THEN st ELSE Perform(shp, g[n - 1], q[n])]

\* Performed goes through such states, from B and locals that hold nothing.
LEMMA RunOfPerformed ==
    ASSUME NEW shp, NEW m, NEW q, Len(q) \in Nat
    PROVE  \E g : /\ IsRun(g, shp, [B |-> m, val |-> [v \in 0..8 |-> 0]], q, Len(q))
                  /\ Performed(shp, m, q) = g[Len(q)].B
<1> DEFINE st == [B |-> m, val |-> [v \in 0..8 |-> 0]]
           L == Len(q)
<1>1. \E g : IsRun(g, shp, st, q, L)
  <2> DEFINE T == {n \in 0..L : \E g : IsRun(g, shp, st, q, n)}
  <2>1. 0 \in T
    <3> HIDE DEF st
    <3>1. IsRun([n \in 0..0 |-> st], shp, st, q, 0)
      BY DEF IsRun
    <3> QED BY <3>1
  <2>2. ASSUME NEW n \in T, n \in 0..(L - 1) PROVE n + 1 \in T
    <3> HIDE DEF st
    <3>1. PICK f : IsRun(f, shp, st, q, n)
      BY <2>2
    <3> DEFINE g == [i \in 0..(n + 1) |-> IF i = n + 1 THEN Perform(shp, f[n], q[n + 1]) ELSE f[i]]
    <3>2. \A i \in 0..(n + 1) : g[i] = IF i = 0 THEN st ELSE Perform(shp, g[i - 1], q[i])
      BY <3>1 DEF IsRun
    <3>3. g = [i \in 0..(n + 1) |-> g[i]]
      OBVIOUS
    <3> HIDE DEF g
    <3>4. IsRun(g, shp, st, q, n + 1)
      BY <3>2, <3>3 DEF IsRun
    <3> QED BY <2>2, <3>4
  <2> HIDE DEF T
  <2>3. \A n \in 0..L : n \in T
    BY <2>1, <2>2, Stepwise
  <2> QED BY <2>3 DEF T
<1> DEFINE g == CHOOSE g : IsRun(g, shp, st, q, L)
<1>2. IsRun(g, shp, st, q, L)
  BY <1>1
<1>3. Performed(shp, m, q) = g[L].B
  BY DEF Performed, IsRun
<1> HIDE DEF g
<1> QED BY <1>2, <1>3

----------------------------------------------------------------------------
\* What accesses do

\* The sizes, the values and the matrices B of these sizes.
Shape == [M : Nat, N : Nat]

Values(shp) == 0..(shp.M * shp.N)

Matrices(shp) == [0..(shp.M - 1) -> [0..(shp.N - 1) -> Values(shp)]]

\* B and the locals.
Memory(shp) == [B : Matrices(shp), val : [0..8 -> Values(shp)]]

\* An access by way of a local that touches nothing but A and B.
Proper(shp, a) ==
    /\ a.val \in 0..8 /\ Inside(shp, a)
    /\ \/ a.op = "load" /\ a.matrix \in {"A", "B"}
       \/ a.op = "store" /\ a.matrix = "B"

\* What a load loads.
Source(shp, m, a) == IF a.matrix = "A" THEN Element(shp, a.x, a.y) ELSE m[a.x][a.y]

\* The elements are numbered from 1.
LEMMA ElementRange ==
    ASSUME NEW shp \in Shape, NEW x \in 0..(shp.N - 1), NEW y \in 0..(shp.M - 1)
    PROVE  Element(shp, x, y) \in 1..(shp.M * shp.N)
<1> DEFINE M == shp.M
           N == shp.N
<1>1. M \in Nat /\ N \in Nat
  BY DEF Shape
<1> HIDE DEF M, N
<1>2. x \in 0..(N - 1) /\ y \in 0..(M - 1)
  BY DEF M, N
<1>3. x * M \in Nat /\ M * N \in Nat /\ (N - 1) * M \in Int
  BY <1>1, <1>2
<1>4. x * M <= (N - 1) * M
  BY <1>1, <1>2
<1>5. (N - 1) * M = M * N - M
  BY <1>1
<1>6. x * M + y + 1 \in 1..(M * N)
  BY <1>1, <1>2, <1>3, <1>4, <1>5
<1> QED BY <1>6 DEF Element, M, N

\* A load changes one local, a store one element of B.
LEMMA PerformEffect ==
    ASSUME NEW shp \in Shape, NEW st \in Memory(shp), NEW a, Proper(shp, a)
    PROVE  LET next == Perform(shp, st, a)
           IN  /\ next \in Memory(shp)
               /\ a.op = "load" =>
                     /\ next.B = st.B
                     /\ next.val[a.val] = Source(shp, st.B, a)
                     /\ \A v \in 0..8 : v # a.val => next.val[v] = st.val[v]
               /\ a.op = "store" =>
                     /\ next.val = st.val
                     /\ next.B[a.x][a.y] = st.val[a.val]
                     /\ \A x \in 0..(shp.M - 1), y \in 0..(shp.N - 1) :
                           x # a.x \/ y # a.y => next.B[x][y] = st.B[x][y]
<1> DEFINE next == Perform(shp, st, a)
           V == Values(shp)
           Rows == 0..(shp.M - 1)
           Cols == 0..(shp.N - 1)
<1>1. a.val \in 0..8 /\ Inside(shp, a) /\ st.B \in [Rows -> [Cols -> V]] /\ st.val \in [0..8 -> V]
  BY DEF Proper, Memory, Matrices
<1>2. Memory(shp) = [B : [Rows -> [Cols -> V]], val : [0..8 -> V]]
  BY DEF Memory, Matrices
<1>3. CASE a.op = "load"
  <2> DEFINE s == Source(shp, st.B, a)
  <2>1. s \in V
    <3>1. CASE a.matrix = "A"
      <4>1. a.x \in 0..(shp.N - 1) /\ a.y \in 0..(shp.M - 1)
        BY <1>1, <3>1 DEF Inside
      <4>2. Element(shp, a.x, a.y) \in 1..(shp.M * shp.N)
        BY <4>1, ElementRange
      <4> QED BY <3>1, <4>2 DEF Source, Values
    <3>2. CASE a.matrix # "A"
      BY <1>1, <3>2 DEF Source, Inside
    <3> QED BY <3>1, <3>2
  <2>2. next = [st EXCEPT !.val = [st.val EXCEPT ![a.val] = s]]
    <3>1. CASE a.matrix = "A"
      BY <1>1, <1>3, <3>1 DEF Perform, Source, Memory
    <3>2. CASE a.matrix = "B"
      BY <1>1, <1>3, <3>2 DEF Perform, Source, Memory
    <3> QED BY <1>3, <3>1, <3>2 DEF Proper
  <2> HIDE DEF s, V, Rows, Cols, next
  <2>3. [st.val EXCEPT ![a.val] = s] \in [0..8 -> V]
    BY <1>1, <2>1
  <2>4. next \in Memory(shp) /\ next.B = st.B /\ next.val = [st.val EXCEPT ![a.val] = s]
    BY <1>2, <2>2, <2>3
  <2>5. next.val[a.val] = s /\ \A v \in 0..8 : v # a.val => next.val[v] = st.val[v]
    BY <1>1, <2>4
  <2> QED BY <1>3, <2>4, <2>5 DEF next, s
<1>4. CASE a.op = "store"
  <2>1. a.x \in Rows /\ a.y \in Cols
    BY <1>1, <1>4 DEF Proper, Inside
  <2>2. st.val[a.val] \in V
    BY <1>1
  <2>3. next = [st EXCEPT !.B = [st.B EXCEPT ![a.x] = [st.B[a.x] EXCEPT ![a.y] = st.val[a.val]]]]
    BY <1>1, <1>4, <2>1 DEF Perform, Memory
  <2> HIDE DEF V, Rows, Cols, next
  <2>4. [st.B[a.x] EXCEPT ![a.y] = st.val[a.val]] \in [Cols -> V]
    BY <1>1, <2>1, <2>2
  <2>5. [st.B EXCEPT ![a.x] = [st.B[a.x] EXCEPT ![a.y] = st.val[a.val]]] \in [Rows -> [Cols -> V]]
    BY <1>1, <2>1, <2>4
  <2> DEFINE m == [st.B EXCEPT ![a.x] = [st.B[a.x] EXCEPT ![a.y] = st.val[a.val]]]
  <2>6. next \in Memory(shp) /\ next.val = st.val /\ next.B = m
    <3> HIDE DEF m
    <3>1. m \in [Rows -> [Cols -> V]] /\ next = [st EXCEPT !.B = m]
      BY <2>3, <2>5 DEF m
    <3> QED BY <1>2, <3>1
  <2>7. next.B[a.x][a.y] = st.val[a.val]
    BY <1>1, <2>1, <2>6
  <2>8. ASSUME NEW x \in Rows, NEW y \in Cols, x # a.x \/ y # a.y
        PROVE  next.B[x][y] = st.B[x][y]
    BY <1>1, <2>1, <2>6, <2>8
  <2> QED BY <1>4, <2>6, <2>7, <2>8 DEF next, Rows, Cols
<1> QED BY <1>3, <1>4 DEF Proper

\* A load changes the one local it loads into.
LEMMA LoadEffect ==
    ASSUME NEW shp \in Shape, NEW st \in Memory(shp), NEW a, Proper(shp, a), a.op = "load",
           NEW next, next = Perform(shp, st, a)
    PROVE  /\ next.B = st.B /\ next.val[a.val] = Source(shp, st.B, a)
           /\ \A v \in 0..8 : v # a.val => next.val[v] = st.val[v]
<1> QED BY PerformEffect

\* A store changes the one element of B it stores to.
LEMMA StoreEffect ==
    ASSUME NEW shp \in Shape, NEW st \in Memory(shp), NEW a, Proper(shp, a), a.op = "store",
           NEW next, next = Perform(shp, st, a)
    PROVE  /\ next.val = st.val /\ next.B[a.x][a.y] = st.val[a.val]
           /\ \A x \in 0..(shp.M - 1), y \in 0..(shp.N - 1) :
                 x # a.x \/ y # a.y => next.B[x][y] = st.B[x][y]
<1> QED BY PerformEffect

\* The states g are those of the L proper accesses of q.
Runs(g, shp, q, L) ==
    /\ shp \in Shape /\ L \in Nat
    /\ \A n \in 1..L : Proper(shp, q[n]) /\ g[n] = Perform(shp, g[n - 1], q[n])
    /\ \A n \in 0..L : g[n] \in Memory(shp)

\* Proper accesses keep the matrix and the locals what they are.
LEMMA RunIsProper ==
    ASSUME NEW shp \in Shape, NEW L \in Nat, NEW q, NEW st \in Memory(shp), NEW g,
           IsRun(g, shp, st, q, L), \A n \in 1..L : Proper(shp, q[n])
    PROVE  Runs(g, shp, q, L) /\ g[0] = st
<1>1. g[0] = st /\ \A n \in 1..L : g[n] = Perform(shp, g[n - 1], q[n])
  BY DEF IsRun
<1> DEFINE T == {n \in 0..L : g[n] \in Memory(shp)}
<1>2. 0 \in T
  BY <1>1
<1>3. ASSUME NEW n \in T, n \in 0..(L - 1) PROVE n + 1 \in T
  <2>1. n + 1 \in 1..L /\ (n + 1) - 1 = n /\ n + 1 \in 0..L
    BY <1>3
  <2>2. g[n + 1] = Perform(shp, g[n], q[n + 1]) /\ Proper(shp, q[n + 1])
    BY <1>1, <2>1
  <2>3. g[n + 1] \in Memory(shp)
    BY <1>3, <2>2, PerformEffect
  <2> QED BY <2>1, <2>3
<1> HIDE DEF T
<1>4. \A n \in 0..L : n \in T
  BY <1>2, <1>3, Stepwise
<1> QED BY <1>1, <1>4 DEF Runs, T

\* Loads into different locals leave each with what it has loaded.
HaveLoaded(g, shp, q, p, r) ==
    /\ g[r].B = g[p].B
    /\ \A c \in (p + 1)..r : g[r].val[q[c].val] = Source(shp, g[p].B, q[c])

\* Loads in a row leave each in its own local.
LEMMA Loads ==
    ASSUME NEW g, NEW shp, NEW q, NEW L, Runs(g, shp, q, L),
           NEW p \in 0..L, NEW r \in p..L, \A n \in (p + 1)..r : q[n].op = "load",
           \A c, n \in (p + 1)..r : q[c].val = q[n].val => c = n
    PROVE  HaveLoaded(g, shp, q, p, r)
<1>1. L \in Nat /\ p \in Int /\ r \in Int /\ shp \in Shape
  BY DEF Runs
<1> DEFINE T == {n \in p..r : /\ g[n].B = g[p].B
                              /\ \A c \in (p + 1)..n : g[n].val[q[c].val] = Source(shp, g[p].B, q[c])}
<1>2. p \in T
  BY <1>1
<1>3. ASSUME NEW n \in T, n \in p..(r - 1) PROVE n + 1 \in T
  <2>1. /\ n + 1 \in 1..L /\ (n + 1) - 1 = n /\ n + 1 \in (p + 1)..r /\ n \in 0..L
        /\ n + 1 \in p..r
    BY <1>1, <1>3
  <2>2. /\ g[n + 1] = Perform(shp, g[n], q[n + 1]) /\ Proper(shp, q[n + 1])
        /\ g[n] \in Memory(shp) /\ q[n + 1].op = "load"
    BY <2>1 DEF Runs
  <2>3. /\ g[n + 1].B = g[n].B
        /\ g[n + 1].val[q[n + 1].val] = Source(shp, g[n].B, q[n + 1])
        /\ \A v \in 0..8 : v # q[n + 1].val => g[n + 1].val[v] = g[n].val[v]
    BY <1>1, <2>2, LoadEffect
  <2>4. g[n].B = g[p].B
    BY <1>3
  <2>5. ASSUME NEW c \in (p + 1)..(n + 1)
        PROVE  g[n + 1].val[q[c].val] = Source(shp, g[p].B, q[c])
    <3>1. CASE c = n + 1
      BY <2>3, <2>4, <3>1
    <3>2. CASE c # n + 1
      <4>1. c \in (p + 1)..n /\ c \in (p + 1)..r /\ c \in 1..L
        BY <1>1, <2>1, <2>5, <3>2
      <4>2. q[c].val \in 0..8 /\ q[c].val # q[n + 1].val
        BY <2>1, <3>2, <4>1 DEF Runs, Proper
      <4>3. g[n].val[q[c].val] = Source(shp, g[p].B, q[c])
        BY <1>3, <4>1
      <4> QED BY <2>3, <4>2, <4>3
    <3> QED BY <3>1, <3>2
  <2> QED BY <2>1, <2>3, <2>4, <2>5
<1> HIDE DEF T
<1>4. \A n \in p..r : n \in T
  BY <1>1, <1>2, <1>3, Stepwise
<1> QED BY <1>1, <1>4 DEF T, HaveLoaded

\* Stores into different elements of B leave in each what the local holds.
HaveStored(g, shp, q, p, r) ==
    /\ g[r].val = g[p].val
    /\ \A c \in (p + 1)..r : g[r].B[q[c].x][q[c].y] = g[p].val[q[c].val]
    /\ \A x \in 0..(shp.M - 1), y \in 0..(shp.N - 1) :
          (\A c \in (p + 1)..r : x # q[c].x \/ y # q[c].y) => g[r].B[x][y] = g[p].B[x][y]

\* Stores in a row, of one local each, leave them at their places.
LEMMA Stores ==
    ASSUME NEW g, NEW shp, NEW q, NEW L, Runs(g, shp, q, L),
           NEW p \in 0..L, NEW r \in p..L, \A n \in (p + 1)..r : q[n].op = "store",
           \A c, n \in (p + 1)..r : q[c].x = q[n].x /\ q[c].y = q[n].y => c = n
    PROVE  HaveStored(g, shp, q, p, r)
<1>1. L \in Nat /\ p \in Int /\ r \in Int /\ shp \in Shape
  BY DEF Runs
<1> DEFINE Untouched(n) ==
               \A x \in 0..(shp.M - 1), y \in 0..(shp.N - 1) :
                 (\A c \in (p + 1)..n : x # q[c].x \/ y # q[c].y) => g[n].B[x][y] = g[p].B[x][y]
           T == {n \in p..r : /\ g[n].val = g[p].val
                              /\ \A c \in (p + 1)..n : g[n].B[q[c].x][q[c].y] = g[p].val[q[c].val]
                              /\ Untouched(n)}
<1>2. p \in T
  BY <1>1
<1>3. ASSUME NEW n \in T, n \in p..(r - 1) PROVE n + 1 \in T
  <2>1. /\ n + 1 \in 1..L /\ (n + 1) - 1 = n /\ n + 1 \in (p + 1)..r /\ n \in 0..L
        /\ n + 1 \in p..r
    BY <1>1, <1>3
  <2>2. /\ g[n + 1] = Perform(shp, g[n], q[n + 1]) /\ Proper(shp, q[n + 1])
        /\ g[n] \in Memory(shp) /\ q[n + 1].op = "store"
    BY <2>1 DEF Runs
  <2>3. /\ g[n + 1].val = g[n].val
        /\ g[n + 1].B[q[n + 1].x][q[n + 1].y] = g[n].val[q[n + 1].val]
        /\ \A x \in 0..(shp.M - 1), y \in 0..(shp.N - 1) :
               x # q[n + 1].x \/ y # q[n + 1].y => g[n + 1].B[x][y] = g[n].B[x][y]
    BY <1>1, <2>2, StoreEffect
  <2>4. g[n].val = g[p].val
    BY <1>3
  <2>5. ASSUME NEW c \in (p + 1)..(n + 1)
        PROVE  g[n + 1].B[q[c].x][q[c].y] = g[p].val[q[c].val]
    <3>1. CASE c = n + 1
      BY <2>3, <2>4, <3>1
    <3>2. CASE c # n + 1
      <4>1. c \in (p + 1)..n /\ c \in (p + 1)..r /\ c \in 1..L
        BY <1>1, <2>1, <2>5, <3>2
      <4>2. q[c].x # q[n + 1].x \/ q[c].y # q[n + 1].y
        BY <2>1, <3>2, <4>1
      <4>3. q[c].x \in 0..(shp.M - 1) /\ q[c].y \in 0..(shp.N - 1)
        BY <4>1 DEF Runs, Proper, Inside
      <4>4. g[n].B[q[c].x][q[c].y] = g[p].val[q[c].val]
        BY <1>3, <4>1
      <4> QED BY <2>3, <4>2, <4>3, <4>4
    <3> QED BY <3>1, <3>2
  <2>6. Untouched(n + 1)
    <3> SUFFICES ASSUME NEW x \in 0..(shp.M - 1), NEW y \in 0..(shp.N - 1),
                        \A c \in (p + 1)..(n + 1) : x # q[c].x \/ y # q[c].y
                 PROVE  g[n + 1].B[x][y] = g[p].B[x][y]
      OBVIOUS
    <3>1. \A c \in (p + 1)..n : x # q[c].x \/ y # q[c].y
      BY <1>1, <2>1
    <3>2. g[n].B[x][y] = g[p].B[x][y]
      BY <1>3, <3>1
    <3>3. n + 1 \in (p + 1)..(n + 1)
      BY <1>1, <2>1
    <3> QED BY <2>3, <3>2, <3>3
  <2> HIDE DEF Untouched
  <2> QED BY <2>1, <2>3, <2>4, <2>5, <2>6
<1> HIDE DEF T
<1>4. \A n \in p..r : n \in T
  BY <1>1, <1>2, <1>3, Stepwise
<1> QED BY <1>1, <1>4 DEF T, HaveStored

\* The c-th of the moves B[y][x] = A[x][y] that begin behind p.
IsMove(q, p, c) ==
    /\ q[p + 2 * c - 1].op = "load" /\ q[p + 2 * c - 1].matrix = "A"
    /\ q[p + 2 * c - 1].val = 0
    /\ q[p + 2 * c].op = "store" /\ q[p + 2 * c].val = 0
    /\ q[p + 2 * c].x = q[p + 2 * c - 1].y /\ q[p + 2 * c].y = q[p + 2 * c - 1].x

\* m moves leave elements of A at their places.
HaveMoved(g, shp, q, p, m, r) ==
    /\ \A v \in 1..8 : g[r].val[v] = g[p].val[v]
    /\ \A c \in 1..m : g[r].B[q[p + 2 * c].x][q[p + 2 * c].y]
                           = Element(shp, q[p + 2 * c].y, q[p + 2 * c].x)
    /\ \A x \in 0..(shp.M - 1), y \in 0..(shp.N - 1) :
          (\A c \in 1..m : x # q[p + 2 * c].x \/ y # q[p + 2 * c].y)
              => g[r].B[x][y] = g[p].B[x][y]

\* Moves in a row leave each element at its place and touch no other.
LEMMA Moves ==
    ASSUME NEW g, NEW shp, NEW q, NEW L, Runs(g, shp, q, L),
           NEW p \in 0..L, NEW m \in Nat, p + 2 * m <= L, \A c \in 1..m : IsMove(q, p, c),
           NEW r, r = p + 2 * m
    PROVE  HaveMoved(g, shp, q, p, m, r)
<1>1. L \in Nat /\ p \in Int /\ m \in Int /\ shp \in Shape
  BY DEF Runs
<1> DEFINE At(n) == p + 2 * n
           Moved(n) == \A c \in 1..n : g[At(n)].B[q[p + 2 * c].x][q[p + 2 * c].y]
                                           = Element(shp, q[p + 2 * c].y, q[p + 2 * c].x)
           Untouched(n) ==
               \A x \in 0..(shp.M - 1), y \in 0..(shp.N - 1) :
                 (\A c \in 1..n : x # q[p + 2 * c].x \/ y # q[p + 2 * c].y)
                     => g[At(n)].B[x][y] = g[p].B[x][y]
           T == {n \in 0..m : /\ \A v \in 1..8 : g[At(n)].val[v] = g[p].val[v]
                              /\ Moved(n) /\ Untouched(n)}
<1>2. 0 \in T
  BY <1>1
<1>3. ASSUME NEW n \in T, n \in 0..(m - 1) PROVE n + 1 \in T
  <2> DEFINE h == At(n)
             b == q[h + 2].x
             a == q[h + 2].y
  <2>1. /\ n \in Int /\ h \in 0..L /\ h + 1 \in 1..L /\ h + 2 \in 1..L /\ h + 1 \in 0..L
        /\ (h + 1) - 1 = h /\ (h + 2) - 1 = h + 1 /\ n + 1 \in 1..m /\ n + 1 \in 0..m
        /\ At(n + 1) = h + 2 /\ p + 2 * (n + 1) = h + 2 /\ p + 2 * (n + 1) - 1 = h + 1
    BY <1>1, <1>3
  <2>2. /\ \A v \in 1..8 : g[h].val[v] = g[p].val[v]
        /\ Moved(n) /\ Untouched(n)
    BY <1>3
  <2>3. IsMove(q, p, n + 1)
    BY <2>1
  <2> HIDE DEF h
  <2>4. /\ q[h + 1].op = "load" /\ q[h + 1].matrix = "A" /\ q[h + 1].val = 0
        /\ q[h + 2].op = "store" /\ q[h + 2].val = 0
        /\ b = q[h + 1].y /\ a = q[h + 1].x
    BY <2>1, <2>3 DEF IsMove
  <2>5. /\ g[h + 1] = Perform(shp, g[h], q[h + 1]) /\ Proper(shp, q[h + 1])
        /\ g[h + 2] = Perform(shp, g[h + 1], q[h + 2]) /\ Proper(shp, q[h + 2])
        /\ g[h] \in Memory(shp) /\ g[h + 1] \in Memory(shp)
    BY <2>1 DEF Runs
  <2>6. /\ g[h + 1].B = g[h].B /\ g[h + 1].val[0] = Element(shp, a, b)
        /\ \A v \in 1..8 : g[h + 1].val[v] = g[h].val[v]
    <3>1. /\ g[h + 1].B = g[h].B /\ g[h + 1].val[q[h + 1].val] = Source(shp, g[h].B, q[h + 1])
          /\ \A v \in 0..8 : v # q[h + 1].val => g[h + 1].val[v] = g[h].val[v]
      BY <1>1, <2>4, <2>5, LoadEffect
    <3>2. Source(shp, g[h].B, q[h + 1]) = Element(shp, a, b)
      BY <2>4 DEF Source
    <3> QED BY <2>4, <3>1, <3>2
  <2>7. /\ g[h + 2].val = g[h + 1].val /\ g[h + 2].B[b][a] = g[h + 1].val[0]
        /\ \A x \in 0..(shp.M - 1), y \in 0..(shp.N - 1) :
               x # b \/ y # a => g[h + 2].B[x][y] = g[h + 1].B[x][y]
    BY <1>1, <2>4, <2>5, StoreEffect
  <2>8. Moved(n + 1)
    <3> SUFFICES ASSUME NEW c \in 1..(n + 1)
                 PROVE  g[h + 2].B[q[p + 2 * c].x][q[p + 2 * c].y]
                            = Element(shp, q[p + 2 * c].y, q[p + 2 * c].x)
      BY <2>1
    <3>1. CASE q[p + 2 * c].x = b /\ q[p + 2 * c].y = a
      BY <2>6, <2>7, <3>1
    <3>2. CASE q[p + 2 * c].x # b \/ q[p + 2 * c].y # a
      <4>1. c \in 1..n /\ p + 2 * c \in 1..L /\ c \in 1..m
        <5>1. c # n + 1
          BY <2>1, <3>2
        <5> QED BY <1>1, <2>1, <5>1
      <4>2. q[p + 2 * c].x \in 0..(shp.M - 1) /\ q[p + 2 * c].y \in 0..(shp.N - 1)
        <5>1. Proper(shp, q[p + 2 * c]) /\ q[p + 2 * c].op = "store"
          BY <4>1 DEF Runs, IsMove
        <5> QED BY <5>1 DEF Proper, Inside
      <4>3. g[h].B[q[p + 2 * c].x][q[p + 2 * c].y] = Element(shp, q[p + 2 * c].y, q[p + 2 * c].x)
        BY <2>2, <4>1 DEF h
      <4> DEFINE x == q[p + 2 * c].x
                 y == q[p + 2 * c].y
      <4> HIDE DEF x, y
      <4>4. x \in 0..(shp.M - 1) /\ y \in 0..(shp.N - 1) /\ (x # b \/ y # a)
        BY <3>2, <4>2 DEF x, y
      <4>5. g[h + 2].B[x][y] = g[h + 1].B[x][y]
        BY <2>7, <4>4
      <4>6. g[h + 2].B[x][y] = g[h].B[x][y]
        BY <2>6, <4>5
      <4> QED BY <4>3, <4>6 DEF x, y
    <3> QED BY <3>1, <3>2
  <2>9. Untouched(n + 1)
    <3> SUFFICES ASSUME NEW x \in 0..(shp.M - 1), NEW y \in 0..(shp.N - 1),
                        \A c \in 1..(n + 1) : x # q[p + 2 * c].x \/ y # q[p + 2 * c].y
                 PROVE  g[h + 2].B[x][y] = g[p].B[x][y]
      BY <2>1
    <3>1. \A c \in 1..n : x # q[p + 2 * c].x \/ y # q[p + 2 * c].y
      BY <2>1
    <3>2. g[h].B[x][y] = g[p].B[x][y]
      BY <2>2, <3>1 DEF h
    <3>3. x # b \/ y # a
      <4>1. n + 1 \in 1..(n + 1)
        BY <2>1
      <4> QED BY <2>1, <4>1
    <3> QED BY <2>6, <2>7, <3>2, <3>3
  <2>10. \A v \in 1..8 : g[At(n + 1)].val[v] = g[p].val[v]
    <3>1. At(n + 1) = h + 2
      BY <2>1
    <3>2. ASSUME NEW v \in 1..8
          PROVE  g[h + 2].val[v] = g[p].val[v]
      <4>1. g[h + 2].val[v] = g[h + 1].val[v]
        BY <2>7
      <4>2. g[h + 1].val[v] = g[h].val[v]
        BY <2>6
      <4>3. g[h].val[v] = g[p].val[v]
        BY <2>2
      <4> QED BY <4>1, <4>2, <4>3
    <3> QED BY <3>1, <3>2
  <2> HIDE DEF Moved, Untouched, At
  <2> QED BY <2>1, <2>8, <2>9, <2>10
<1> HIDE DEF T
<1>4. \A n \in 0..m : n \in T
  BY <1>1, <1>2, <1>3, Stepwise
<1>5. m \in T
  BY <1>1, <1>4
<1>6. r = At(m)
  OBVIOUS
<1> QED BY <1>5, <1>6 DEF T, HaveMoved

\* The states that the accesses q go through on the matrix m, up to what is performed.
RunOf(g, shp, m, q, L) ==
    /\ Runs(g, shp, q, L) /\ g[0].B = m
    /\ Performed(shp, m, q) = g[L].B /\ g[L].B \in Matrices(shp)

AllProper(shp, q, L) == \A n \in 1..L : Proper(shp, q[n])

\* Proper accesses on a matrix B go through such states.
LEMMA RunFrom ==
    ASSUME NEW shp \in Shape, NEW m \in Matrices(shp), NEW q, NEW L \in Nat, Len(q) = L,
           AllProper(shp, q, L)
    PROVE  \E g : RunOf(g, shp, m, q, L)
<1> DEFINE st == [B |-> m, val |-> [v \in 0..8 |-> 0]]
<1>1. st \in Memory(shp) /\ st.B = m
  <2>1. 0 \in Values(shp)
    <3>1. shp.M \in Nat /\ shp.N \in Nat
      BY DEF Shape
    <3>2. shp.M * shp.N \in Nat
      BY <3>1
    <3> QED BY <3>2 DEF Values
  <2> QED BY <2>1 DEF Memory
<1>2. PICK g : IsRun(g, shp, st, q, L) /\ Performed(shp, m, q) = g[L].B
  BY RunOfPerformed
<1> HIDE DEF st
<1>3. Runs(g, shp, q, L) /\ g[0] = st
  BY <1>1, <1>2, RunIsProper DEF AllProper
<1>4. g[L] \in Memory(shp)
  BY <1>3 DEF Runs
<1>5. g[L].B \in Matrices(shp)
  BY <1>4 DEF Memory
<1> QED BY <1>1, <1>2, <1>3, <1>5 DEF RunOf

----------------------------------------------------------------------------
\* What an iteration does

\* The accesses there are.
AccessSet == [op : {"load", "store"}, val : Int, matrix : {"A", "B"}, x : Int, y : Int]

\* Two parts of an iteration, one after the other.
IsJoined(s, s1, s2, a, b) ==
    /\ s \in [1..(a + b) -> AccessSet] /\ Len(s) = a + b
    /\ \A n \in 1..a : s[n] = s1[n]
    /\ \A n \in (a + 1)..(a + b) : s[n] = s2[n - a]

\* What the two parts access, in order.
LEMMA Joined ==
    ASSUME NEW a \in Nat, NEW b \in Nat,
           NEW s1 \in [1..a -> AccessSet], NEW s2 \in [1..b -> AccessSet]
    PROVE  IsJoined(s1 \o s2, s1, s2, a, b)
<1> DEFINE T == AccessSet
<1>1. s1 \in Seq(T) /\ Len(s1) = a /\ s2 \in Seq(T) /\ Len(s2) = b
  OBVIOUS
<1> HIDE DEF T
<1>2. /\ s1 \o s2 \in Seq(T) /\ Len(s1 \o s2) = Len(s1) + Len(s2)
      /\ \A i \in 1..(Len(s1) + Len(s2)) :
            (s1 \o s2)[i] = IF i <= Len(s1) THEN s1[i] ELSE s2[i - Len(s1)]
  BY <1>1, ConcatProperties
<1> DEFINE s == s1 \o s2
<1>3. s \in [1..(a + b) -> T] /\ Len(s) = a + b
  <2> HIDE DEF s
  <2>1. s \in Seq(T) /\ Len(s) = a + b
    BY <1>1, <1>2 DEF s
  <2> QED BY <2>1
<1>4. \A i \in 1..(a + b) : s[i] = IF i <= a THEN s1[i] ELSE s2[i - a]
  BY <1>1, <1>2
<1> HIDE DEF s
<1> QED BY <1>3, <1>4 DEF s, T, IsJoined

\* m moves as FlattenSeq joins them, from the places xs and ys.
MovesFrom(m, xs, ys) == FlattenSeq([c \in 1..m |-> Move(xs[c], ys[c])])

\* The accesses of m moves, one behind the other.
AreMoves(q, m, xs, ys) ==
    /\ q \in [1..(2 * m) -> AccessSet] /\ Len(q) = 2 * m
    /\ \A c \in 1..m : /\ q[2 * c - 1] = Load(0, "A", xs[c], ys[c])
                       /\ q[2 * c] = Store(0, ys[c], xs[c])

\* The accesses of m moves, two for each.
LEMMA MovesOf ==
    ASSUME NEW m \in Nat \ {0}, NEW xs \in [1..m -> Int], NEW ys \in [1..m -> Int]
    PROVE  AreMoves(MovesFrom(m, xs, ys), m, xs, ys)
<1> DEFINE pairs == [c \in 1..m |-> Move(xs[c], ys[c])]
           q == MovesFrom(m, xs, ys)
<1>0. q = FlattenSeq(pairs)
  BY DEF MovesFrom
<1> HIDE DEF q
<1>1. ASSUME NEW c \in 1..m
      PROVE  /\ Move(xs[c], ys[c]) \in Seq(AccessSet) /\ Len(Move(xs[c], ys[c])) = 2
             /\ Move(xs[c], ys[c])[1] = Load(0, "A", xs[c], ys[c])
             /\ Move(xs[c], ys[c])[2] = Store(0, ys[c], xs[c])
  <2> DEFINE l == Load(0, "A", xs[c], ys[c])
             s == Store(0, ys[c], xs[c])
  <2>1. l \in AccessSet /\ s \in AccessSet
    BY DEF Load, Store, AccessSet
  <2>2. Move(xs[c], ys[c]) = <<l, s>>
    BY DEF Move
  <2> HIDE DEF l, s
  <2>3. <<l, s>> \in Seq(AccessSet) /\ Len(<<l, s>>) = 2 /\ <<l, s>>[1] = l /\ <<l, s>>[2] = s
    BY <2>1
  <2> QED BY <2>2, <2>3 DEF l, s
<1>2. pairs \in [1..m -> Seq(AccessSet)] /\ \A c \in 1..m : Len(pairs[c]) = 2
  BY <1>1
<1>3. \A c \in 1..m : /\ pairs[c][1] = Load(0, "A", xs[c], ys[c])
                      /\ pairs[c][2] = Store(0, ys[c], xs[c])
  BY <1>1
<1> HIDE DEF pairs
<1>4. /\ q \in Seq(AccessSet) /\ Len(q) = 2 * m
      /\ \A c \in 1..m : q[2 * c - 1] = pairs[c][1] /\ q[2 * c] = pairs[c][2]
  <2> DEFINE f == FlattenSeq(pairs)
  <2>1. /\ f \in Seq(AccessSet) /\ Len(f) = 2 * m
        /\ \A c \in 1..m : f[2 * c - 1] = pairs[c][1] /\ f[2 * c] = pairs[c][2]
    BY <1>2, FlattenPairs
  <2>2. q = f
    BY <1>0
  <2> HIDE DEF f
  <2> QED BY <2>1, <2>2
<1>5. q \in [1..(2 * m) -> AccessSet]
  <2> DEFINE T == AccessSet
  <2> HIDE DEF T
  <2>1. q \in Seq(T)
    BY <1>4 DEF T
  <2> QED BY <1>4, <2>1 DEF T
<1> QED BY <1>3, <1>4, <1>5 DEF AreMoves, q

\* Proper accesses q that take B from the matrix m to the matrix after, and of A read
\* nothing but the elements in the rows X and the columns Y.
Takes(shp, m, q, after, X, Y) ==
    /\ \A n \in DOMAIN q :
          Proper(shp, q[n]) /\ (q[n].matrix = "A" => q[n].x \in X /\ q[n].y \in Y)
    /\ Performed(shp, m, q) = after /\ after \in Matrices(shp)

\* Their elements come to their places in B, and nothing else changes there.
Fills(shp, m, after, X, Y) ==
    \A x \in 0..(shp.N - 1), y \in 0..(shp.M - 1) :
        after[y][x] = IF x \in X /\ y \in Y THEN Element(shp, x, y) ELSE m[y][x]

\* The accesses q copy the elements of a rectangle of A, and read no others.
Copies(shp, m, q, X, Y) ==
    \E after : Takes(shp, m, q, after, X, Y) /\ Fills(shp, m, after, X, Y)

\* Each access of m moves is one of a move.
LEMMA HalfOf ==
    ASSUME NEW m \in Nat, NEW n \in 1..(2 * m)
    PROVE  \E c \in 1..m : n = 2 * c - 1 \/ n = 2 * c
<1>1. CASE n % 2 = 0
  <2>1. n \div 2 \in 1..m /\ n = 2 * (n \div 2)
    BY <1>1
  <2> QED BY <2>1
<1>2. CASE n % 2 = 1
  <2>1. (n + 1) \div 2 \in 1..m /\ n = 2 * ((n + 1) \div 2) - 1
    BY <1>2
  <2> QED BY <2>1
<1> QED BY <1>1, <1>2

\* What moves from the start on leave.
HaveMovedAll(g, shp, q, m, r) ==
    /\ \A c \in 1..m : g[r].B[q[2 * c].x][q[2 * c].y] = Element(shp, q[2 * c].y, q[2 * c].x)
    /\ \A x \in 0..(shp.M - 1), y \in 0..(shp.N - 1) :
          (\A c \in 1..m : x # q[2 * c].x \/ y # q[2 * c].y) => g[r].B[x][y] = g[0].B[x][y]

\* The moves are the accesses from the first.
LEMMA MovesFromStart ==
    ASSUME NEW g, NEW shp \in Shape, NEW q, NEW m \in Nat, NEW r \in Nat, r = 2 * m,
           Runs(g, shp, q, r), \A c \in 1..m : IsMove(q, 0, c)
    PROVE  HaveMovedAll(g, shp, q, m, r)
<1>1. 0 \in 0..r /\ 0 + 2 * m <= r
  OBVIOUS
<1>2. HaveMoved(g, shp, q, 0, m, r)
  BY <1>1, Moves
<1>3. \A c \in 1..m : 0 + 2 * c = 2 * c
  OBVIOUS
<1>4. ASSUME NEW c \in 1..m
      PROVE  g[r].B[q[2 * c].x][q[2 * c].y] = Element(shp, q[2 * c].y, q[2 * c].x)
  BY <1>2, <1>3 DEF HaveMoved
<1>5. ASSUME NEW x \in 0..(shp.M - 1), NEW y \in 0..(shp.N - 1),
             \A c \in 1..m : x # q[2 * c].x \/ y # q[2 * c].y
      PROVE  g[r].B[x][y] = g[0].B[x][y]
  <2>1. \A c \in 1..m : x # q[0 + 2 * c].x \/ y # q[0 + 2 * c].y
    BY <1>3, <1>5
  <2> QED BY <1>2, <2>1 DEF HaveMoved
<1> QED BY <1>4, <1>5 DEF HaveMovedAll

\* Moves of all the elements of a rectangle copy it to its place.
LEMMA MovesCopy ==
    ASSUME NEW shp \in Shape, NEW mat \in Matrices(shp), NEW m \in Nat \ {0},
           NEW xs \in [1..m -> 0..(shp.N - 1)], NEW ys \in [1..m -> 0..(shp.M - 1)],
           NEW X, NEW Y, \A c \in 1..m : xs[c] \in X /\ ys[c] \in Y,
           \A x \in X : \A y \in Y : \E c \in 1..m : xs[c] = x /\ ys[c] = y,
           NEW q, q = MovesFrom(m, xs, ys)
    PROVE  Copies(shp, mat, q, X, Y)
<1>1. xs \in [1..m -> Int] /\ ys \in [1..m -> Int] /\ shp.M \in Nat /\ shp.N \in Nat
  BY DEF Shape
<1>2. /\ q \in [1..(2 * m) -> AccessSet] /\ Len(q) = 2 * m
      /\ \A c \in 1..m : /\ q[2 * c - 1] = Load(0, "A", xs[c], ys[c])
                         /\ q[2 * c] = Store(0, ys[c], xs[c])
  <2>1. AreMoves(MovesFrom(m, xs, ys), m, xs, ys)
    BY <1>1, MovesOf
  <2> QED BY <2>1 DEF AreMoves
<1>3. ASSUME NEW c \in 1..m
      PROVE  /\ Proper(shp, q[2 * c - 1]) /\ Proper(shp, q[2 * c])
             /\ IsMove(q, 0, c)
             /\ q[2 * c - 1].x = xs[c] /\ q[2 * c - 1].y = ys[c]
             /\ q[2 * c].matrix = "B" /\ q[2 * c].x = ys[c] /\ q[2 * c].y = xs[c]
  <2> DEFINE l == q[2 * c - 1]
             s == q[2 * c]
  <2>1. l = Load(0, "A", xs[c], ys[c]) /\ s = Store(0, ys[c], xs[c])
    BY <1>2
  <2>2. xs[c] \in 0..(shp.N - 1) /\ ys[c] \in 0..(shp.M - 1)
    OBVIOUS
  <2>3. 0 + 2 * c = 2 * c /\ 0 + 2 * c - 1 = 2 * c - 1
    OBVIOUS
  <2> HIDE DEF l, s
  <2>4. /\ l.op = "load" /\ l.matrix = "A" /\ l.val = 0 /\ l.x = xs[c] /\ l.y = ys[c]
        /\ s.op = "store" /\ s.matrix = "B" /\ s.val = 0 /\ s.x = ys[c] /\ s.y = xs[c]
    BY <2>1 DEF Load, Store
  <2>5. Proper(shp, l) /\ Proper(shp, s)
    <3>1. Inside(shp, l) /\ Inside(shp, s)
      BY <2>2, <2>4 DEF Inside
    <3>2. Proper(shp, l)
      BY <2>4, <3>1 DEF Proper
    <3>3. Proper(shp, s)
      BY <2>4, <3>1 DEF Proper
    <3> QED BY <3>2, <3>3
  <2>6. IsMove(q, 0, c)
    <3>1. q[0 + 2 * c - 1] = l /\ q[0 + 2 * c] = s
      BY <2>3 DEF l, s
    <3> QED BY <2>4, <3>1 DEF IsMove
  <2> QED BY <2>4, <2>5, <2>6 DEF l, s
<1>4. ASSUME NEW n \in 1..(2 * m)
      PROVE  Proper(shp, q[n]) /\ (q[n].matrix = "A" => q[n].x \in X /\ q[n].y \in Y)
  <2>1. PICK c \in 1..m : n = 2 * c - 1 \/ n = 2 * c
    BY HalfOf
  <2>2. /\ Proper(shp, q[2 * c - 1]) /\ Proper(shp, q[2 * c])
        /\ q[2 * c - 1].x = xs[c] /\ q[2 * c - 1].y = ys[c] /\ q[2 * c].matrix = "B"
    BY <1>3
  <2>3. xs[c] \in X /\ ys[c] \in Y
    OBVIOUS
  <2>4. CASE n = 2 * c - 1
    BY <2>2, <2>3, <2>4
  <2>5. CASE n = 2 * c
    <3>1. q[n] = q[2 * c]
      BY <2>5
    <3> QED BY <2>2, <3>1
  <2> QED BY <2>1, <2>4, <2>5
<1>5. 2 * m \in Nat /\ DOMAIN q = 1..(2 * m)
  BY <1>2
<1>6. PICK g : /\ Runs(g, shp, q, 2 * m) /\ g[0].B = mat
               /\ Performed(shp, mat, q) = g[2 * m].B /\ g[2 * m].B \in Matrices(shp)
  <2> DEFINE L == 2 * m
  <2>1. L \in Nat /\ Len(q) = L /\ AllProper(shp, q, L)
    BY <1>2, <1>4, <1>5 DEF AllProper
  <2> HIDE DEF L
  <2>2. \E g : RunOf(g, shp, mat, q, L)
    BY <2>1, RunFrom
  <2> QED BY <2>2 DEF L, RunOf
<1>7. /\ \A c \in 1..m : g[2 * m].B[q[2 * c].x][q[2 * c].y] = Element(shp, q[2 * c].y, q[2 * c].x)
      /\ \A x \in 0..(shp.M - 1), y \in 0..(shp.N - 1) :
            (\A c \in 1..m : x # q[2 * c].x \/ y # q[2 * c].y)
                => g[2 * m].B[x][y] = g[0].B[x][y]
  <2>1. \A c \in 1..m : IsMove(q, 0, c)
    BY <1>3
  <2> DEFINE r == 2 * m
  <2>2. r = 2 * m /\ r \in Nat /\ Runs(g, shp, q, r) /\ m \in Nat
    BY <1>5, <1>6
  <2> HIDE DEF r
  <2>3. HaveMovedAll(g, shp, q, m, r)
    BY <2>1, <2>2, MovesFromStart
  <2> QED BY <2>3 DEF HaveMovedAll, r
<1> DEFINE after == g[2 * m].B
<1>8. Takes(shp, mat, q, after, X, Y)
  BY <1>4, <1>5, <1>6 DEF Takes
<1>9. ASSUME NEW x \in 0..(shp.N - 1), NEW y \in 0..(shp.M - 1)
      PROVE  after[y][x] = IF x \in X /\ y \in Y THEN Element(shp, x, y) ELSE mat[y][x]
  <2>1. CASE x \in X /\ y \in Y
    <3>1. PICK c \in 1..m : xs[c] = x /\ ys[c] = y
      BY <2>1
    <3>2. q[2 * c].x = y /\ q[2 * c].y = x
      BY <1>3, <3>1
    <3>3. after[y][x] = Element(shp, x, y)
      BY <1>7, <3>2
    <3> QED BY <2>1, <3>3
  <2>2. CASE ~(x \in X /\ y \in Y)
    <3>1. \A c \in 1..m : y # q[2 * c].x \/ x # q[2 * c].y
      <4> SUFFICES ASSUME NEW c \in 1..m PROVE y # q[2 * c].x \/ x # q[2 * c].y
        OBVIOUS
      <4>1. xs[c] \in X /\ ys[c] \in Y /\ q[2 * c].x = ys[c] /\ q[2 * c].y = xs[c]
        BY <1>3
      <4> QED BY <2>2, <4>1
    <3>2. after[y][x] = mat[y][x]
      BY <1>6, <1>7, <3>1
    <3> QED BY <2>2, <3>2
  <2> QED BY <2>1, <2>2
<1> HIDE DEF after
<1>10. Fills(shp, mat, after, X, Y)
  BY <1>9 DEF Fills
<1> QED BY <1>8, <1>10 DEF Copies

\* An iteration of the general transpose, or of trans: a part of a row.
LEMMA BodyRowCopies ==
    ASSUME NEW shp \in Shape, NEW mat \in Matrices(shp), NEW i \in Nat, NEW j \in Nat, NEW k \in Nat,
           NEW w \in Nat \ {0}, i + k < shp.N, j < shp.M
    PROVE  Copies(shp, mat, BodyRow(shp, i, j, k, w),
                  {i + k}, j..(j + Lesser(w, shp.M - j) - 1))
<1> DEFINE m == Lesser(w, shp.M - j)
           xs == [c \in 1..m |-> i + k]
           ys == [c \in 1..m |-> j + c - 1]
           X == {i + k}
           Y == j..(j + m - 1)
           q == BodyRow(shp, i, j, k, w)
<1>1. m \in Nat \ {0} /\ j + m <= shp.M /\ shp.M \in Nat /\ shp.N \in Nat
  BY DEF Lesser, Shape
<1>6. q = MovesFrom(m, xs, ys)
  <2>1. q = FlattenSeq([c \in 1..m |-> Move(i + k, j + c - 1)])
    BY DEF BodyRow
  <2>2. [c \in 1..m |-> Move(i + k, j + c - 1)] = [c \in 1..m |-> Move(xs[c], ys[c])]
    <3> HIDE DEF m
    <3> QED OBVIOUS
  <2> QED BY <2>1, <2>2 DEF MovesFrom
<1> HIDE DEF m, q
<1>2. xs \in [1..m -> 0..(shp.N - 1)] /\ ys \in [1..m -> 0..(shp.M - 1)]
  BY <1>1
<1>3. \A c \in 1..m : xs[c] = i + k /\ ys[c] = j + c - 1
  OBVIOUS
<1>4. \A c \in 1..m : xs[c] \in X /\ ys[c] \in Y
  BY <1>1
<1>5. \A x \in X : \A y \in Y : \E c \in 1..m : xs[c] = x /\ ys[c] = y
  <2> SUFFICES ASSUME NEW x \in X, NEW y \in Y PROVE \E c \in 1..m : xs[c] = x /\ ys[c] = y
    OBVIOUS
  <2>1. y - j + 1 \in 1..m /\ j + (y - j + 1) - 1 = y
    BY <1>1
  <2>2. xs[y - j + 1] = x /\ ys[y - j + 1] = y
    BY <2>1
  <2> QED BY <2>1, <2>2
<1> HIDE DEF xs, ys, X, Y
<1>7. Copies(shp, mat, q, X, Y)
  BY <1>1, <1>2, <1>4, <1>5, <1>6, MovesCopy
<1> QED BY <1>7 DEF X, Y, m, q

\* An iteration on 32 by 32: a row of a block.
AreBody32(q, i, j, k) ==
    /\ DOMAIN q = 1..16 /\ Len(q) = 16
    /\ \A n \in 1..8 : q[n] = Load(n, "A", i + k, j + n - 1)
    /\ \A n \in 9..16 : q[n] = Store(n - 8, j + (n - 8) - 1, i + k)

\* The sixteen accesses of an iteration of the 32 by 32 transpose.
LEMMA Body32Accesses ==
    ASSUME NEW i \in Int, NEW j \in Int, NEW k \in Int
    PROVE  AreBody32(Body32(i, j, k), i, j, k)
<1> DEFINE s1 == [c \in 1..8 |-> Load(c, "A", i + k, j + c - 1)]
           s2 == [c \in 1..8 |-> Store(c, j + c - 1, i + k)]
           q == s1 \o s2
<1>1. s1 \in [1..8 -> AccessSet] /\ s2 \in [1..8 -> AccessSet]
  BY DEF AccessSet, Load, Store
<1>2. /\ \A n \in 1..8 : s1[n] = Load(n, "A", i + k, j + n - 1)
      /\ \A n \in 1..8 : s2[n] = Store(n, j + n - 1, i + k)
  OBVIOUS
<1>3. Body32(i, j, k) = q
  BY DEF Body32
<1> HIDE DEF s1, s2
<1>4. /\ q \in [1..(8 + 8) -> AccessSet] /\ Len(q) = 8 + 8
      /\ \A n \in 1..8 : q[n] = s1[n]
      /\ \A n \in (8 + 1)..(8 + 8) : q[n] = s2[n - 8]
  <2>1. IsJoined(q, s1, s2, 8, 8)
    BY <1>1, Joined
  <2> QED BY <2>1 DEF IsJoined
<1> HIDE DEF q
<1>5. /\ DOMAIN q = 1..16 /\ Len(q) = 16
      /\ \A n \in 1..8 : q[n] = s1[n]
      /\ \A n \in 9..16 : q[n] = s2[n - 8]
  BY <1>4
<1>6. \A n \in 9..16 : n - 8 \in 1..8
  OBVIOUS
<1> QED BY <1>2, <1>3, <1>5, <1>6 DEF AreBody32

\* It copies one row of a block.
LEMMA Body32Copies ==
    ASSUME NEW shp \in Shape, NEW mat \in Matrices(shp), NEW i \in Nat, NEW j \in Nat, NEW k \in Nat,
           i + k < shp.N, j + 8 <= shp.M
    PROVE  Copies(shp, mat, Body32(i, j, k), {i + k}, j..(j + 7))
<1> DEFINE q == Body32(i, j, k)
<1>1. /\ DOMAIN q = 1..16 /\ Len(q) = 16
      /\ \A n \in 1..8 : q[n] = Load(n, "A", i + k, j + n - 1)
      /\ \A n \in 9..16 : q[n] = Store(n - 8, j + (n - 8) - 1, i + k)
  <2>1. AreBody32(q, i, j, k)
    BY Body32Accesses
  <2> QED BY <2>1 DEF AreBody32
<1> HIDE DEF q
<1>2. shp.M \in Nat /\ shp.N \in Nat
  BY DEF Shape
<1>3. ASSUME NEW n \in 1..8
      PROVE  /\ Proper(shp, q[n]) /\ q[n].op = "load" /\ q[n].val = n /\ q[n].matrix = "A"
             /\ q[n].x = i + k /\ q[n].y = j + n - 1
  <2>1. /\ q[n].op = "load" /\ q[n].val = n /\ q[n].matrix = "A"
        /\ q[n].x = i + k /\ q[n].y = j + n - 1
    BY <1>1 DEF Load
  <2>2. n \in 0..8 /\ i + k \in 0..(shp.N - 1) /\ j + n - 1 \in 0..(shp.M - 1)
    BY <1>2
  <2> QED BY <2>1, <2>2 DEF Proper, Inside
<1>4. ASSUME NEW n \in 9..16
      PROVE  /\ Proper(shp, q[n]) /\ q[n].op = "store" /\ q[n].val = n - 8 /\ q[n].matrix = "B"
             /\ q[n].x = j + n - 9 /\ q[n].y = i + k
  <2>1. /\ q[n].op = "store" /\ q[n].val = n - 8 /\ q[n].matrix = "B"
        /\ q[n].x = j + n - 9 /\ q[n].y = i + k
    BY <1>1 DEF Store
  <2>2. n - 8 \in 0..8 /\ i + k \in 0..(shp.N - 1) /\ j + n - 9 \in 0..(shp.M - 1)
    BY <1>2
  <2> QED BY <2>1, <2>2 DEF Proper, Inside
<1> DEFINE X == {i + k}
           Y == j..(j + 7)
<1>5. ASSUME NEW n \in 1..16
      PROVE  Proper(shp, q[n]) /\ (q[n].matrix = "A" => q[n].x \in X /\ q[n].y \in Y)
  <2>1. CASE n \in 1..8
    <3>1. j + n - 1 \in j..(j + 7)
      BY <2>1
    <3> QED BY <1>3, <2>1, <3>1
  <2>2. CASE n \in 9..16
    BY <1>4, <2>2
  <2> QED BY <2>1, <2>2
<1>6. PICK g : /\ Runs(g, shp, q, 16) /\ g[0].B = mat
               /\ Performed(shp, mat, q) = g[16].B /\ g[16].B \in Matrices(shp)
  <2>1. Len(q) = 16 /\ AllProper(shp, q, 16)
    BY <1>1, <1>5 DEF AllProper
  <2>2. \E g : RunOf(g, shp, mat, q, 16)
    BY <2>1, RunFrom
  <2> QED BY <2>2 DEF RunOf
<1>7. HaveLoaded(g, shp, q, 0, 8)
  <2>1. 0 \in 0..16 /\ 8 \in 0..16
    OBVIOUS
  <2>2. 8 \in 0..8 /\ (0 + 1)..8 = 1..8
    OBVIOUS
  <2>3. 8 \in 0..16 /\ \A n \in (0 + 1)..8 : q[n].op = "load"
    BY <1>3, <2>2
  <2>4. \A c, n \in (0 + 1)..8 : q[c].val = q[n].val => c = n
    BY <1>3, <2>2
  <2> QED BY <1>6, <2>1, <2>3, <2>4, Loads
<1>8. HaveStored(g, shp, q, 8, 16)
  <2>1. 8 \in 0..16 /\ 16 \in 8..16 /\ (8 + 1)..16 = 9..16
    OBVIOUS
  <2>2. \A n \in (8 + 1)..16 : q[n].op = "store"
    BY <1>4, <2>1
  <2>3. \A c, n \in (8 + 1)..16 : q[c].x = q[n].x /\ q[c].y = q[n].y => c = n
    <3> SUFFICES ASSUME NEW c \in 9..16, NEW n \in 9..16, q[c].x = q[n].x PROVE c = n
      BY <2>1
    <3>1. j + c - 9 = j + n - 9
      BY <1>4
    <3> QED BY <3>1
  <2> QED BY <1>6, <2>1, <2>2, <2>3, Stores
<1> DEFINE after == g[16].B
<1>9. \A c \in 1..8 : g[8].val[c] = Element(shp, i + k, j + c - 1)
  <2> SUFFICES ASSUME NEW c \in 1..8 PROVE g[8].val[c] = Element(shp, i + k, j + c - 1)
    OBVIOUS
  <2>1. c \in (0 + 1)..8
    OBVIOUS
  <2>2. g[8].val[q[c].val] = Source(shp, g[0].B, q[c])
    BY <1>7, <2>1 DEF HaveLoaded
  <2> QED BY <1>3, <2>2 DEF Source
<1>10. ASSUME NEW x \in 0..(shp.N - 1), NEW y \in 0..(shp.M - 1)
       PROVE  after[y][x] = IF x \in X /\ y \in Y THEN Element(shp, x, y) ELSE mat[y][x]
  <2>1. CASE x \in X /\ y \in Y
    <3> DEFINE n == y - j + 9
    <3>1. n \in 9..16 /\ n \in (8 + 1)..16 /\ y = j + n - 9 /\ x = i + k
          /\ n - 8 \in 1..8 /\ j + (n - 8) - 1 = y
      BY <2>1
    <3> HIDE DEF n
    <3>2. g[16].B[q[n].x][q[n].y] = g[8].val[q[n].val]
      BY <1>8, <3>1 DEF HaveStored
    <3>3. q[n].x = y /\ q[n].y = x /\ q[n].val = n - 8
      BY <1>4, <3>1
    <3>4. g[8].val[n - 8] = Element(shp, x, y)
      BY <1>9, <3>1
    <3>5. after[y][x] = Element(shp, x, y)
      BY <3>2, <3>3, <3>4
    <3> QED BY <2>1, <3>5
  <2>2. CASE ~(x \in X /\ y \in Y)
    <3>1. \A c \in (8 + 1)..16 : y # q[c].x \/ x # q[c].y
      <4> SUFFICES ASSUME NEW c \in 9..16 PROVE y # q[c].x \/ x # q[c].y
        OBVIOUS
      <4>1. q[c].x = j + c - 9 /\ q[c].y = i + k
        BY <1>4
      <4> QED BY <2>2, <4>1
    <3>2. g[16].B[y][x] = g[8].B[y][x]
      BY <1>8, <3>1 DEF HaveStored
    <3>3. g[8].B = mat
      BY <1>6, <1>7 DEF HaveLoaded
    <3> QED BY <2>2, <3>2, <3>3
  <2> QED BY <2>1, <2>2
<1>11. Takes(shp, mat, q, after, X, Y)
  <2> HIDE DEF X, Y
  <2> QED BY <1>1, <1>5, <1>6 DEF Takes
<1>12. Fills(shp, mat, after, X, Y)
  <2> HIDE DEF X, Y, after
  <2> QED BY <1>10 DEF Fills
<1> HIDE DEF after
<1>13. Copies(shp, mat, q, X, Y)
  <2> HIDE DEF X, Y
  <2> QED BY <1>11, <1>12 DEF Copies
<1> QED BY <1>13 DEF q

\* The iterations on 64 by 64: the first four load a row of a block and park half
\* of it.
AreParking(q, i, j, k) ==
    /\ DOMAIN q = 1..16 /\ Len(q) = 16
    /\ \A n \in 1..8 : q[n] = Load(n, "A", j + k, i + n - 1)
    /\ \A n \in 9..12 : q[n] = Store(n - 8, i + (n - 8) - 1, j + k)
    /\ \A n \in 13..16 : q[n] = Store((n - 12) + 4, i + (n - 12) - 1, j + k + 4)

\* The sixteen accesses of an iteration of the first half of a 64 by 64 block.
LEMMA ParkingAccesses ==
    ASSUME NEW i \in Int, NEW j \in Int, NEW k \in 0..3
    PROVE  AreParking(Body64(i, j, k), i, j, k)
<1> DEFINE s1 == [c \in 1..8 |-> Load(c, "A", j + k, i + c - 1)]
           s2 == [c \in 1..4 |-> Store(c, i + c - 1, j + k)]
           s3 == [c \in 1..4 |-> Store(c + 4, i + c - 1, j + k + 4)]
           s == s1 \o s2
           q == s \o s3
<1>1. s1 \in [1..8 -> AccessSet] /\ s2 \in [1..4 -> AccessSet] /\ s3 \in [1..4 -> AccessSet]
  BY DEF AccessSet, Load, Store
<1>2. /\ \A n \in 1..8 : s1[n] = Load(n, "A", j + k, i + n - 1)
      /\ \A n \in 1..4 : s2[n] = Store(n, i + n - 1, j + k)
      /\ \A n \in 1..4 : s3[n] = Store(n + 4, i + n - 1, j + k + 4)
  OBVIOUS
<1>3. Body64(i, j, k) = q
  <2> DEFINE i0 == IF k < 8 THEN k ELSE k - 8
             body == [c \in 1..8 |-> Load(c, "A", j + i0, i + c - 1)]
                     \o [c \in 1..4 |-> Store(c, i + c - 1, j + i0)]
                     \o [c \in 1..4 |-> Store(c + 4, i + c - 1, j + i0 + 4)]
  <2>1. k < 4 /\ k \notin 4..7 /\ ~(k >= 8) /\ i0 = k
    OBVIOUS
  <2>2. Body64(i, j, k) = body
    BY <2>1 DEF Body64
  <2>3. body = q
    <3> HIDE DEF i0
    <3> QED BY <2>1
  <2> QED BY <2>2, <2>3
<1> HIDE DEF s1, s2, s3
<1>4. IsJoined(s, s1, s2, 8, 4)
  BY <1>1, Joined
<1> HIDE DEF s
<1>5. s \in [1..12 -> AccessSet]
  BY <1>4 DEF IsJoined
<1>6. IsJoined(q, s, s3, 12, 4)
  BY <1>1, <1>5, Joined
<1> HIDE DEF q
<1>7. /\ DOMAIN q = 1..16 /\ Len(q) = 16
      /\ \A n \in 1..12 : q[n] = s[n]
      /\ \A n \in 13..16 : q[n] = s3[n - 12]
  BY <1>6 DEF IsJoined
<1>8. /\ \A n \in 1..8 : q[n] = s1[n]
      /\ \A n \in 9..12 : q[n] = s2[n - 8]
  BY <1>4, <1>7 DEF IsJoined
<1>9. (\A n \in 9..12 : n - 8 \in 1..4) /\ (\A n \in 13..16 : n - 12 \in 1..4)
  OBVIOUS
<1> QED BY <1>2, <1>3, <1>7, <1>8, <1>9 DEF AreParking

\* What they do to B.
Parks(shp, m, after, i, j, k) ==
    \A x \in 0..(shp.N - 1), y \in 0..(shp.M - 1) :
        /\ x = j + k /\ y \in i..(i + 3) => after[y][x] = Element(shp, x, y)
        /\ x = j + k + 4 /\ y \in i..(i + 3) => after[y][x] = Element(shp, x - 4, y + 4)
        /\ ~(x \in {j + k, j + k + 4} /\ y \in i..(i + 3)) => after[y][x] = m[y][x]

\* It brings half a row of A to its place and parks the other half four columns on.
LEMMA ParkingEffect ==
    ASSUME NEW shp \in Shape, NEW mat \in Matrices(shp), NEW i \in Nat, NEW j \in Nat, NEW k \in 0..3,
           i + 8 <= shp.M, j + 8 <= shp.N
    PROVE  \E after : /\ Takes(shp, mat, Body64(i, j, k), after, {j + k}, i..(i + 7))
                      /\ Parks(shp, mat, after, i, j, k)
<1> DEFINE q == Body64(i, j, k)
<1>1. AreParking(q, i, j, k)
  BY ParkingAccesses
<1> HIDE DEF q
<1>2. shp.M \in Nat /\ shp.N \in Nat
  BY DEF Shape
<1>3. ASSUME NEW n \in 1..8
      PROVE  /\ Proper(shp, q[n]) /\ q[n].op = "load" /\ q[n].val = n /\ q[n].matrix = "A"
             /\ q[n].x = j + k /\ q[n].y = i + n - 1
  <2>1. q[n] = Load(n, "A", j + k, i + n - 1)
    BY <1>1 DEF AreParking
  <2>2. /\ q[n].op = "load" /\ q[n].val = n /\ q[n].matrix = "A"
        /\ q[n].x = j + k /\ q[n].y = i + n - 1
    BY <2>1 DEF Load
  <2>3. n \in 0..8 /\ j + k \in 0..(shp.N - 1) /\ i + n - 1 \in 0..(shp.M - 1)
    BY <1>2
  <2> QED BY <2>2, <2>3 DEF Proper, Inside
<1>4. ASSUME NEW n \in 9..12
      PROVE  /\ Proper(shp, q[n]) /\ q[n].op = "store" /\ q[n].val = n - 8 /\ q[n].matrix = "B"
             /\ q[n].x = i + n - 9 /\ q[n].y = j + k
  <2>1. q[n] = Store(n - 8, i + (n - 8) - 1, j + k)
    BY <1>1 DEF AreParking
  <2>2. /\ q[n].op = "store" /\ q[n].val = n - 8 /\ q[n].matrix = "B"
        /\ q[n].x = i + n - 9 /\ q[n].y = j + k
    BY <2>1 DEF Store
  <2>3. n - 8 \in 0..8 /\ j + k \in 0..(shp.N - 1) /\ i + n - 9 \in 0..(shp.M - 1)
    BY <1>2
  <2> QED BY <2>2, <2>3 DEF Proper, Inside
<1>5. ASSUME NEW n \in 13..16
      PROVE  /\ Proper(shp, q[n]) /\ q[n].op = "store" /\ q[n].val = n - 8 /\ q[n].matrix = "B"
             /\ q[n].x = i + n - 13 /\ q[n].y = j + k + 4
  <2>1. q[n] = Store((n - 12) + 4, i + (n - 12) - 1, j + k + 4)
    BY <1>1 DEF AreParking
  <2>2. /\ q[n].op = "store" /\ q[n].val = n - 8 /\ q[n].matrix = "B"
        /\ q[n].x = i + n - 13 /\ q[n].y = j + k + 4
    BY <2>1 DEF Store
  <2>3. n - 8 \in 0..8 /\ j + k + 4 \in 0..(shp.N - 1) /\ i + n - 13 \in 0..(shp.M - 1)
    BY <1>2
  <2> QED BY <2>2, <2>3 DEF Proper, Inside
<1>6. DOMAIN q = 1..16 /\ Len(q) = 16
  BY <1>1 DEF AreParking
<1> DEFINE X == {j + k}
           Y == i..(i + 7)
<1>7. ASSUME NEW n \in 1..16
      PROVE  Proper(shp, q[n]) /\ (q[n].matrix = "A" => q[n].x \in X /\ q[n].y \in Y)
  <2>1. CASE n \in 1..8
    <3>1. i + n - 1 \in i..(i + 7)
      BY <2>1
    <3> QED BY <1>3, <2>1, <3>1
  <2>2. CASE n \in 9..12
    BY <1>4, <2>2
  <2>3. CASE n \in 13..16
    BY <1>5, <2>3
  <2> QED BY <2>1, <2>2, <2>3
<1>8. PICK g : /\ Runs(g, shp, q, 16) /\ g[0].B = mat
               /\ Performed(shp, mat, q) = g[16].B /\ g[16].B \in Matrices(shp)
  <2>1. Len(q) = 16 /\ AllProper(shp, q, 16)
    BY <1>6, <1>7 DEF AllProper
  <2>2. \E g : RunOf(g, shp, mat, q, 16)
    BY <2>1, RunFrom
  <2> QED BY <2>2 DEF RunOf
<1>9. HaveLoaded(g, shp, q, 0, 8)
  <2>1. 0 \in 0..16 /\ 8 \in 0..16 /\ (0 + 1)..8 = 1..8
    OBVIOUS
  <2>2. \A n \in (0 + 1)..8 : q[n].op = "load"
    BY <1>3, <2>1
  <2>3. \A c, n \in (0 + 1)..8 : q[c].val = q[n].val => c = n
    BY <1>3, <2>1
  <2> QED BY <1>8, <2>1, <2>2, <2>3, Loads
<1>10. HaveStored(g, shp, q, 8, 16)
  <2>1. 8 \in 0..16 /\ 16 \in 8..16 /\ (8 + 1)..16 = 9..16
        /\ \A n \in 9..16 : n \in 9..12 \/ n \in 13..16
    OBVIOUS
  <2>2. \A n \in (8 + 1)..16 : q[n].op = "store"
    BY <1>4, <1>5, <2>1
  <2>3. \A c, n \in (8 + 1)..16 : q[c].x = q[n].x /\ q[c].y = q[n].y => c = n
    <3> SUFFICES ASSUME NEW c \in 9..16, NEW n \in 9..16, q[c].x = q[n].x, q[c].y = q[n].y
                 PROVE  c = n
      BY <2>1
    <3>1. CASE c \in 9..12 /\ n \in 9..12
      <4>1. i + c - 9 = i + n - 9
        BY <1>4, <3>1
      <4> QED BY <4>1
    <3>2. CASE c \in 13..16 /\ n \in 13..16
      <4>1. i + c - 13 = i + n - 13
        BY <1>5, <3>2
      <4> QED BY <4>1
    <3>3. CASE c \in 9..12 /\ n \in 13..16
      <4>1. j + k = j + k + 4
        BY <1>4, <1>5, <3>3
      <4> QED BY <4>1
    <3>4. CASE c \in 13..16 /\ n \in 9..12
      <4>1. j + k = j + k + 4
        BY <1>4, <1>5, <3>4
      <4> QED BY <4>1
    <3> QED BY <2>1, <3>1, <3>2, <3>3, <3>4
  <2> QED BY <1>8, <2>1, <2>2, <2>3, Stores
<1> DEFINE after == g[16].B
<1>11. \A c \in 1..8 : g[8].val[c] = Element(shp, j + k, i + c - 1)
  <2> SUFFICES ASSUME NEW c \in 1..8 PROVE g[8].val[c] = Element(shp, j + k, i + c - 1)
    OBVIOUS
  <2>1. c \in (0 + 1)..8
    OBVIOUS
  <2>2. g[8].val[q[c].val] = Source(shp, g[0].B, q[c])
    BY <1>9, <2>1 DEF HaveLoaded
  <2> QED BY <1>3, <2>2 DEF Source
<1>12. ASSUME NEW x \in 0..(shp.N - 1), NEW y \in i..(i + 3), x = j + k
       PROVE  after[y][x] = Element(shp, x, y)
  <2> DEFINE n == y - i + 9
  <2>1. n \in 9..12 /\ n \in (8 + 1)..16 /\ y = i + n - 9 /\ n - 8 \in 1..8 /\ i + (n - 8) - 1 = y
    OBVIOUS
  <2> HIDE DEF n
  <2>2. g[16].B[q[n].x][q[n].y] = g[8].val[q[n].val]
    BY <1>10, <2>1 DEF HaveStored
  <2>3. q[n].x = y /\ q[n].y = x /\ q[n].val = n - 8
    BY <1>4, <1>12, <2>1
  <2>4. g[8].val[n - 8] = Element(shp, x, y)
    BY <1>11, <1>12, <2>1
  <2> QED BY <2>2, <2>3, <2>4
<1>13. ASSUME NEW x \in 0..(shp.N - 1), NEW y \in i..(i + 3), x = j + k + 4
       PROVE  after[y][x] = Element(shp, x - 4, y + 4)
  <2> DEFINE n == y - i + 13
  <2>1. n \in 13..16 /\ n \in (8 + 1)..16 /\ y = i + n - 13 /\ n - 8 \in 1..8 /\ i + (n - 8) - 1 = y + 4
    OBVIOUS
  <2>0. x - 4 = j + k
    BY <1>13
  <2> HIDE DEF n
  <2>2. g[16].B[q[n].x][q[n].y] = g[8].val[q[n].val]
    BY <1>10, <2>1 DEF HaveStored
  <2>3. q[n].x = y /\ q[n].y = x /\ q[n].val = n - 8
    BY <1>5, <1>13, <2>1
  <2>4. g[8].val[n - 8] = Element(shp, x - 4, y + 4)
    BY <1>11, <2>0, <2>1
  <2> QED BY <2>2, <2>3, <2>4
<1>14. ASSUME NEW x \in 0..(shp.N - 1), NEW y \in 0..(shp.M - 1),
              ~(x \in {j + k, j + k + 4} /\ y \in i..(i + 3))
       PROVE  after[y][x] = mat[y][x]
  <2>1. \A c \in (8 + 1)..16 : y # q[c].x \/ x # q[c].y
    <3> SUFFICES ASSUME NEW c \in 9..16 PROVE y # q[c].x \/ x # q[c].y
      OBVIOUS
    <3>1. CASE c \in 9..12
      <4>1. q[c].x = i + c - 9 /\ q[c].y = j + k
        BY <1>4, <3>1
      <4>2. i + c - 9 \in i..(i + 3)
        BY <3>1
      <4> QED BY <1>14, <4>1, <4>2
    <3>2. CASE c \in 13..16
      <4>1. q[c].x = i + c - 13 /\ q[c].y = j + k + 4
        BY <1>5, <3>2
      <4>2. i + c - 13 \in i..(i + 3)
        BY <3>2
      <4> QED BY <1>14, <4>1, <4>2
    <3> QED BY <3>1, <3>2
  <2>2. g[16].B[y][x] = g[8].B[y][x]
    BY <1>10, <2>1 DEF HaveStored
  <2>3. g[8].B = mat
    BY <1>8, <1>9 DEF HaveLoaded
  <2> QED BY <2>2, <2>3
<1>15. Takes(shp, mat, q, after, X, Y)
  <2> HIDE DEF X, Y
  <2> QED BY <1>6, <1>7, <1>8 DEF Takes
<1> HIDE DEF after
<1>16. Parks(shp, mat, after, i, j, k)
  BY <1>12, <1>13, <1>14 DEF Parks
<1>17. \E a : Takes(shp, mat, q, a, X, Y) /\ Parks(shp, mat, a, i, j, k)
  <2> HIDE DEF X, Y
  <2> QED BY <1>15, <1>16
<1> QED BY <1>17 DEF q

\* The next four move a row of what is parked to its place, and put the elements of
\* a column there instead.
AreUnparking(q, i, j, k) ==
    /\ DOMAIN q = 1..16 /\ Len(q) = 16
    /\ \A n \in 1..4 : q[n] = Load(n, "B", i + k - 4, j + 3 + n)
    /\ \A c \in 1..4 : /\ q[4 + 2 * c - 1] = Load(0, "A", j + 3 + c, i + k - 4)
                       /\ q[4 + 2 * c] = Store(0, i + k - 4, j + 3 + c)
    /\ \A n \in 13..16 : q[n] = Store(n - 12, i + k, j + (n - 12) - 1)

\* The sixteen accesses of an iteration of the second half.
LEMMA UnparkingAccesses ==
    ASSUME NEW i \in Int, NEW j \in Int, NEW k \in 4..7
    PROVE  AreUnparking(Body64(i, j, k), i, j, k)
<1> DEFINE s1 == [c \in 1..4 |-> Load(c, "B", i + k - 4, j + 3 + c)]
           xs == [c \in 1..4 |-> j + 3 + c]
           ys == [c \in 1..4 |-> i + k - 4]
           s2 == MovesFrom(4, xs, ys)
           s3 == [c \in 1..4 |-> Store(c, i + k, j + c - 1)]
           s == s1 \o s2
           q == s \o s3
<1>1. s1 \in [1..4 -> AccessSet] /\ s3 \in [1..4 -> AccessSet]
  BY DEF AccessSet, Load, Store
<1>2. /\ \A n \in 1..4 : s1[n] = Load(n, "B", i + k - 4, j + 3 + n)
      /\ \A n \in 1..4 : s3[n] = Store(n, i + k, j + n - 1)
      /\ \A c \in 1..4 : xs[c] = j + 3 + c /\ ys[c] = i + k - 4
      /\ xs \in [1..4 -> Int] /\ ys \in [1..4 -> Int]
  OBVIOUS
<1>3. Body64(i, j, k) = q
  <2> DEFINE i0 == IF k < 8 THEN k ELSE k - 8
             body == [c \in 1..4 |-> Load(c, "B", i + i0 - 4, j + 3 + c)]
                     \o FlattenSeq([c \in 1..4 |-> Move(j + 3 + c, i + i0 - 4)])
                     \o [c \in 1..4 |-> Store(c, i + i0, j + c - 1)]
  <2>1. ~(k < 4) /\ k \in 4..7 /\ ~(k >= 8) /\ i0 = k
    OBVIOUS
  <2>2. Body64(i, j, k) = body
    BY <2>1 DEF Body64
  <2>3. [c \in 1..4 |-> Move(j + 3 + c, i + k - 4)] = [c \in 1..4 |-> Move(xs[c], ys[c])]
    BY <1>2
  <2>4. s2 = FlattenSeq([c \in 1..4 |-> Move(j + 3 + c, i + k - 4)])
    BY <2>3 DEF MovesFrom
  <2>5. body = q
    <3> HIDE DEF i0
    <3> QED BY <2>1, <2>4
  <2> QED BY <2>2, <2>5
<1> HIDE DEF s1, xs, ys, s3
<1>4. AreMoves(s2, 4, xs, ys)
  <2>1. xs \in [1..4 -> Int] /\ ys \in [1..4 -> Int] /\ 4 \in Nat \ {0}
    BY <1>2
  <2> QED BY <2>1, MovesOf
<1> HIDE DEF s2
<1>5. s2 \in [1..8 -> AccessSet]
  BY <1>4 DEF AreMoves
<1>6. IsJoined(s, s1, s2, 4, 8)
  BY <1>1, <1>5, Joined
<1> HIDE DEF s
<1>7. s \in [1..12 -> AccessSet]
  BY <1>6 DEF IsJoined
<1>8. IsJoined(q, s, s3, 12, 4)
  BY <1>1, <1>7, Joined
<1> HIDE DEF q
<1>9. /\ DOMAIN q = 1..16 /\ Len(q) = 16
      /\ \A n \in 1..12 : q[n] = s[n]
      /\ \A n \in 13..16 : q[n] = s3[n - 12]
  BY <1>8 DEF IsJoined
<1>10. /\ \A n \in 1..4 : q[n] = s1[n]
       /\ \A n \in 5..12 : q[n] = s2[n - 4]
  BY <1>6, <1>9 DEF IsJoined
<1>11. ASSUME NEW c \in 1..4
       PROVE  /\ q[4 + 2 * c - 1] = Load(0, "A", j + 3 + c, i + k - 4)
              /\ q[4 + 2 * c] = Store(0, i + k - 4, j + 3 + c)
  <2>1. /\ 4 + 2 * c - 1 \in 5..12 /\ (4 + 2 * c - 1) - 4 = 2 * c - 1
        /\ 4 + 2 * c \in 5..12 /\ (4 + 2 * c) - 4 = 2 * c
    OBVIOUS
  <2>2. q[4 + 2 * c - 1] = s2[2 * c - 1] /\ q[4 + 2 * c] = s2[2 * c]
    BY <1>10, <2>1
  <2>3. s2[2 * c - 1] = Load(0, "A", xs[c], ys[c]) /\ s2[2 * c] = Store(0, ys[c], xs[c])
    BY <1>4 DEF AreMoves
  <2> QED BY <1>2, <2>2, <2>3
<1>12. \A n \in 13..16 : n - 12 \in 1..4
  OBVIOUS
<1> QED BY <1>2, <1>3, <1>9, <1>10, <1>11, <1>12 DEF AreUnparking

\* What they do to B.
Unparks(shp, m, after, i, j, k) ==
    \A x \in 0..(shp.N - 1), y \in 0..(shp.M - 1) :
        /\ y = i + k - 4 /\ x \in (j + 4)..(j + 7) => after[y][x] = Element(shp, x, y)
        /\ y = i + k /\ x \in j..(j + 3) => after[y][x] = m[y - 4][x + 4]
        /\ ~(y = i + k - 4 /\ x \in (j + 4)..(j + 7)) /\ ~(y = i + k /\ x \in j..(j + 3))
              => after[y][x] = m[y][x]

\* It moves four parked elements to their places and fills those they were parked in.
LEMMA UnparkingEffect ==
    ASSUME NEW shp \in Shape, NEW mat \in Matrices(shp), NEW i \in Nat, NEW j \in Nat, NEW k \in 4..7,
           i + 8 <= shp.M, j + 8 <= shp.N
    PROVE  \E after : /\ Takes(shp, mat, Body64(i, j, k), after, (j + 4)..(j + 7), {i + k - 4})
                      /\ Unparks(shp, mat, after, i, j, k)
<1> DEFINE q == Body64(i, j, k)
           b == i + k - 4
<1>1. AreUnparking(q, i, j, k)
  BY UnparkingAccesses
<1> HIDE DEF q
<1>2. /\ shp.M \in Nat /\ shp.N \in Nat
      /\ b \in Nat /\ b \in 0..(shp.M - 1) /\ b + 4 = i + k /\ i + k \in 0..(shp.M - 1)
  BY DEF Shape
<1>3. /\ \A n \in 1..4 : q[n] = Load(n, "B", b, j + 3 + n)
      /\ \A c \in 1..4 : /\ q[4 + 2 * c - 1] = Load(0, "A", j + 3 + c, b)
                         /\ q[4 + 2 * c] = Store(0, b, j + 3 + c)
      /\ \A n \in 13..16 : q[n] = Store(n - 12, i + k, j + (n - 12) - 1)
      /\ DOMAIN q = 1..16 /\ Len(q) = 16
  BY <1>1 DEF AreUnparking
<1> DEFINE X == (j + 4)..(j + 7)
           Y == {i + k - 4}
<1>y. Y = {b}
  OBVIOUS
<1> HIDE DEF b
<1>4. ASSUME NEW n \in 1..4
      PROVE  /\ Proper(shp, q[n]) /\ q[n].op = "load" /\ q[n].val = n /\ q[n].matrix = "B"
             /\ q[n].x = b /\ q[n].y = j + 3 + n
  <2>1. /\ q[n].op = "load" /\ q[n].val = n /\ q[n].matrix = "B"
        /\ q[n].x = b /\ q[n].y = j + 3 + n
    BY <1>3 DEF Load
  <2>2. n \in 0..8 /\ j + 3 + n \in 0..(shp.N - 1)
    BY <1>2
  <2> QED BY <1>2, <2>1, <2>2 DEF Proper, Inside
<1>5. ASSUME NEW c \in 1..4
      PROVE  /\ Proper(shp, q[4 + 2 * c - 1]) /\ Proper(shp, q[4 + 2 * c])
             /\ IsMove(q, 4, c)
             /\ q[4 + 2 * c - 1].x = j + 3 + c /\ q[4 + 2 * c - 1].y = b
             /\ q[4 + 2 * c].matrix = "B" /\ q[4 + 2 * c].x = b /\ q[4 + 2 * c].y = j + 3 + c
  <2> DEFINE l == q[4 + 2 * c - 1]
             s == q[4 + 2 * c]
  <2>1. l = Load(0, "A", j + 3 + c, b) /\ s = Store(0, b, j + 3 + c)
    BY <1>3
  <2>2. j + 3 + c \in 0..(shp.N - 1) /\ 0 \in 0..8
    BY <1>2
  <2> HIDE DEF l, s
  <2>3. /\ l.op = "load" /\ l.matrix = "A" /\ l.val = 0 /\ l.x = j + 3 + c /\ l.y = b
        /\ s.op = "store" /\ s.matrix = "B" /\ s.val = 0 /\ s.x = b /\ s.y = j + 3 + c
    BY <2>1 DEF Load, Store
  <2>4. Inside(shp, l) /\ Inside(shp, s)
    BY <1>2, <2>2, <2>3 DEF Inside
  <2>5. Proper(shp, l) /\ Proper(shp, s)
    BY <2>2, <2>3, <2>4 DEF Proper
  <2>6. IsMove(q, 4, c)
    BY <2>3 DEF IsMove, l, s
  <2> QED BY <2>3, <2>5, <2>6 DEF l, s
<1>6. ASSUME NEW n \in 13..16
      PROVE  /\ Proper(shp, q[n]) /\ q[n].op = "store" /\ q[n].val = n - 12 /\ q[n].matrix = "B"
             /\ q[n].x = i + k /\ q[n].y = j + n - 13
  <2>1. /\ q[n].op = "store" /\ q[n].val = n - 12 /\ q[n].matrix = "B"
        /\ q[n].x = i + k /\ q[n].y = j + n - 13
    BY <1>3 DEF Store
  <2>2. n - 12 \in 0..8 /\ j + n - 13 \in 0..(shp.N - 1)
    BY <1>2
  <2> QED BY <1>2, <2>1, <2>2 DEF Proper, Inside
<1>7. ASSUME NEW n \in 1..16
      PROVE  Proper(shp, q[n]) /\ (q[n].matrix = "A" => q[n].x \in X /\ q[n].y \in Y)
  <2>1. CASE n \in 1..4
    BY <1>4, <2>1
  <2>2. CASE n \in 5..12
    <3>1. n - 4 \in 1..(2 * 4)
      BY <2>2
    <3>2. PICK c \in 1..4 : n - 4 = 2 * c - 1 \/ n - 4 = 2 * c
      BY <3>1, HalfOf
    <3>3. n = 4 + 2 * c - 1 \/ n = 4 + 2 * c
      BY <3>2
    <3>4. j + 3 + c \in X /\ b \in Y
      BY <1>y
    <3>5. q[4 + 2 * c].matrix # "A"
      BY <1>5
    <3> HIDE DEF X, Y
    <3> QED BY <1>5, <3>3, <3>4, <3>5
  <2>3. CASE n \in 13..16
    BY <1>6, <2>3
  <2> QED BY <2>1, <2>2, <2>3
<1>8. PICK g : /\ Runs(g, shp, q, 16) /\ g[0].B = mat
               /\ Performed(shp, mat, q) = g[16].B /\ g[16].B \in Matrices(shp)
  <2>1. Len(q) = 16 /\ AllProper(shp, q, 16)
    BY <1>3, <1>7 DEF AllProper
  <2>2. \E g : RunOf(g, shp, mat, q, 16)
    BY <2>1, RunFrom
  <2> QED BY <2>2 DEF RunOf
<1>9. HaveLoaded(g, shp, q, 0, 4)
  <2>1. 0 \in 0..16 /\ 4 \in 0..16 /\ (0 + 1)..4 = 1..4
    OBVIOUS
  <2>2. \A n \in (0 + 1)..4 : q[n].op = "load"
    BY <1>4, <2>1
  <2>3. \A c, n \in (0 + 1)..4 : q[c].val = q[n].val => c = n
    BY <1>4, <2>1
  <2> QED BY <1>8, <2>1, <2>2, <2>3, Loads
<1>10. HaveMoved(g, shp, q, 4, 4, 12)
  <2>1. 4 \in 0..16 /\ 4 \in Nat /\ 4 + 2 * 4 <= 16 /\ 12 = 4 + 2 * 4
    OBVIOUS
  <2>2. \A c \in 1..4 : IsMove(q, 4, c)
    BY <1>5
  <2> QED BY <1>8, <2>1, <2>2, Moves
<1>11. HaveStored(g, shp, q, 12, 16)
  <2>1. 12 \in 0..16 /\ 16 \in 12..16 /\ (12 + 1)..16 = 13..16
    OBVIOUS
  <2>2. \A n \in (12 + 1)..16 : q[n].op = "store"
    BY <1>6, <2>1
  <2>3. \A c, n \in (12 + 1)..16 : q[c].x = q[n].x /\ q[c].y = q[n].y => c = n
    <3> SUFFICES ASSUME NEW c \in 13..16, NEW n \in 13..16, q[c].y = q[n].y PROVE c = n
      BY <2>1
    <3>1. j + c - 13 = j + n - 13
      BY <1>6
    <3> QED BY <3>1
  <2> QED BY <1>8, <2>1, <2>2, <2>3, Stores
<1> DEFINE after == g[16].B
<1>12. \A c \in 1..4 : g[12].val[c] = mat[b][j + 3 + c]
  <2> SUFFICES ASSUME NEW c \in 1..4 PROVE g[12].val[c] = mat[b][j + 3 + c]
    OBVIOUS
  <2>1. c \in (0 + 1)..4 /\ c \in 1..8
    OBVIOUS
  <2>2. g[4].val[q[c].val] = Source(shp, g[0].B, q[c])
    BY <1>9, <2>1 DEF HaveLoaded
  <2>3. g[4].val[c] = mat[b][j + 3 + c]
    BY <1>4, <1>8, <2>2 DEF Source
  <2>4. g[12].val[c] = g[4].val[c]
    BY <1>10, <2>1 DEF HaveMoved
  <2> QED BY <2>3, <2>4
<1>13. ASSUME NEW x \in 0..(shp.N - 1), NEW y \in 0..(shp.M - 1),
              ~(y = i + k /\ x \in j..(j + 3))
       PROVE  after[y][x] = g[12].B[y][x]
  <2>1. \A c \in (12 + 1)..16 : y # q[c].x \/ x # q[c].y
    <3> SUFFICES ASSUME NEW c \in 13..16 PROVE y # q[c].x \/ x # q[c].y
      OBVIOUS
    <3>1. q[c].x = i + k /\ q[c].y = j + c - 13
      BY <1>6
    <3>2. j + c - 13 \in j..(j + 3)
      OBVIOUS
    <3> QED BY <1>13, <3>1, <3>2
  <2> QED BY <1>11, <2>1 DEF HaveStored
<1>14. ASSUME NEW x \in 0..(shp.N - 1), NEW y \in 0..(shp.M - 1), y = b, x \in (j + 4)..(j + 7)
       PROVE  after[y][x] = Element(shp, x, y)
  <2> DEFINE c == x - j - 3
  <2>1. c \in 1..4 /\ j + 3 + c = x
    BY <1>14
  <2> HIDE DEF c
  <2>2. g[12].B[q[4 + 2 * c].x][q[4 + 2 * c].y] = Element(shp, q[4 + 2 * c].y, q[4 + 2 * c].x)
    BY <1>10, <2>1 DEF HaveMoved
  <2>3. q[4 + 2 * c].x = y /\ q[4 + 2 * c].y = x
    BY <1>5, <1>14, <2>1
  <2>4. g[12].B[y][x] = Element(shp, x, y)
    BY <2>2, <2>3
  <2>5. after[y][x] = g[12].B[y][x]
    <3>1. y # i + k
      BY <1>2, <1>14
    <3> QED BY <1>13, <3>1
  <2> QED BY <2>4, <2>5
<1>15. ASSUME NEW x \in 0..(shp.N - 1), NEW y \in 0..(shp.M - 1), y = i + k, x \in j..(j + 3)
       PROVE  after[y][x] = mat[y - 4][x + 4]
  <2> DEFINE n == x - j + 13
  <2>1. /\ n \in 13..16 /\ n \in (12 + 1)..16 /\ j + n - 13 = x /\ n - 12 \in 1..4
        /\ j + 3 + (n - 12) = x + 4 /\ y - 4 = b
    BY <1>2, <1>15
  <2> HIDE DEF n
  <2>2. g[16].B[q[n].x][q[n].y] = g[12].val[q[n].val]
    BY <1>11, <2>1 DEF HaveStored
  <2>3. q[n].x = y /\ q[n].y = x /\ q[n].val = n - 12
    BY <1>6, <1>15, <2>1
  <2>4. g[12].val[n - 12] = mat[y - 4][x + 4]
    BY <1>12, <2>1
  <2> QED BY <2>2, <2>3, <2>4
<1>16. ASSUME NEW x \in 0..(shp.N - 1), NEW y \in 0..(shp.M - 1),
              ~(y = b /\ x \in (j + 4)..(j + 7)), ~(y = i + k /\ x \in j..(j + 3))
       PROVE  after[y][x] = mat[y][x]
  <2>1. \A c \in 1..4 : y # q[4 + 2 * c].x \/ x # q[4 + 2 * c].y
    <3> SUFFICES ASSUME NEW c \in 1..4 PROVE y # q[4 + 2 * c].x \/ x # q[4 + 2 * c].y
      OBVIOUS
    <3>1. q[4 + 2 * c].x = b /\ q[4 + 2 * c].y = j + 3 + c
      BY <1>5
    <3>2. j + 3 + c \in (j + 4)..(j + 7)
      OBVIOUS
    <3> QED BY <1>16, <3>1, <3>2
  <2>2. g[12].B[y][x] = g[4].B[y][x]
    BY <1>10, <2>1 DEF HaveMoved
  <2>3. g[4].B = mat
    BY <1>8, <1>9 DEF HaveLoaded
  <2> QED BY <1>13, <1>16, <2>2, <2>3
<1>17. Takes(shp, mat, q, after, X, Y)
  <2> HIDE DEF X, Y
  <2> QED BY <1>3, <1>7, <1>8 DEF Takes
<1> HIDE DEF after
<1>18. Unparks(shp, mat, after, i, j, k)
  BY <1>14, <1>15, <1>16 DEF Unparks, b
<1>19. \E a : Takes(shp, mat, q, a, X, Y) /\ Unparks(shp, mat, a, i, j, k)
  <2> HIDE DEF X, Y
  <2> QED BY <1>17, <1>18
<1> QED BY <1>19 DEF q

\* The last four fill the last quarter of the block.
LEMMA LastQuarterCopies ==
    ASSUME NEW shp \in Shape, NEW mat \in Matrices(shp), NEW i \in Nat, NEW j \in Nat, NEW k \in 8..11,
           i + 8 <= shp.M, j + 8 <= shp.N
    PROVE  Copies(shp, mat, Body64(i, j, k), (j + 4)..(j + 7), {i + k - 4})
<1> DEFINE xs == [c \in 1..4 |-> j + 3 + c]
           ys == [c \in 1..4 |-> i + k - 4]
           X == (j + 4)..(j + 7)
           Y == {i + k - 4}
           q == Body64(i, j, k)
<1>1. shp.M \in Nat /\ shp.N \in Nat /\ 4 \in Nat \ {0}
  BY DEF Shape
<1>2. xs \in [1..4 -> 0..(shp.N - 1)] /\ ys \in [1..4 -> 0..(shp.M - 1)]
  BY <1>1
<1>3. \A c \in 1..4 : xs[c] = j + 3 + c /\ ys[c] = i + k - 4
  OBVIOUS
<1>4. q = MovesFrom(4, xs, ys)
  <2> DEFINE i0 == IF k < 8 THEN k ELSE k - 8
  <2>1. ~(k < 4) /\ k \notin 4..7 /\ k >= 8 /\ i + 4 + i0 = i + k - 4
    OBVIOUS
  <2>2. q = FlattenSeq([c \in 1..4 |-> Move(j + 3 + c, i + 4 + i0)])
    BY <2>1 DEF Body64
  <2>3. [c \in 1..4 |-> Move(j + 3 + c, i + 4 + i0)] = [c \in 1..4 |-> Move(xs[c], ys[c])]
    <3> DEFINE v == i + 4 + i0
               w == i + k - 4
    <3>1. v = w
      BY <2>1
    <3> HIDE DEF v
    <3> QED BY <1>3, <3>1
  <2> QED BY <2>2, <2>3 DEF MovesFrom
<1> HIDE DEF q
<1>5. \A c \in 1..4 : xs[c] \in X /\ ys[c] \in Y
  OBVIOUS
<1>6. \A x \in X : \A y \in Y : \E c \in 1..4 : xs[c] = x /\ ys[c] = y
  <2> SUFFICES ASSUME NEW x \in X, NEW y \in Y PROVE \E c \in 1..4 : xs[c] = x /\ ys[c] = y
    OBVIOUS
  <2>1. x - j - 3 \in 1..4 /\ j + 3 + (x - j - 3) = x
    OBVIOUS
  <2>2. xs[x - j - 3] = x /\ ys[x - j - 3] = y
    BY <2>1
  <2> QED BY <2>1, <2>2
<1> HIDE DEF xs, ys, X, Y
<1>7. Copies(shp, mat, q, X, Y)
  BY <1>1, <1>2, <1>4, <1>5, <1>6, MovesCopy
<1> QED BY <1>7 DEF X, Y, q

----------------------------------------------------------------------------
\* The loops

\* The matrices have at most 256 rows and columns.
Sizes == [M : 1..256, N : 1..256]

\* The registered functions.
Functions == {"trans", "transpose_submit"}

\* All transposes but that of 64 by 64 copy parts of rows.
ByRows(f, shp) == f = "trans" \/ shp # Square(64)

\* The blocks of these two fit the matrix.
Even(f, shp) == f = "transpose_submit" /\ shp \in {Square(32), Square(64)}

\* The steps of the loops, and how often the innermost is run.
LoopsOK(f, shp, l) ==
    /\ l.di \in 1..16 /\ l.dj \in 1..256
    /\ \A i \in 0..(shp.N - 1) : l.rounds[i] \in 1..16
    /\ f = "trans" => l.di = 1 /\ l.dj = shp.M /\ \A i \in 0..(shp.N - 1) : l.rounds[i] = 1
    /\ Even(f, shp) => l.di = 8 /\ l.dj = 8
    /\ ~ByRows(f, shp) => \A i \in 0..(shp.N - 1) : l.rounds[i] = 12
    /\ f # "trans" /\ ~Even(f, shp) => l.dj = 16
    /\ ByRows(f, shp) =>
          \A i \in 0..(shp.N - 1) : (Even(f, shp) => i % 8 = 0)
                                      => l.rounds[i] = Lesser(l.di, shp.N - i)

\* What MIN of trans.c chooses.
LEMMA LesserIs ==
    ASSUME NEW m \in Int, NEW n \in Int
    PROVE  /\ Lesser(m, n) \in Int /\ Lesser(m, n) <= m /\ Lesser(m, n) <= n
           /\ Lesser(m, n) = m \/ Lesser(m, n) = n
<1> QED BY DEF Lesser

\* The loops of every function run within the matrices.
LEMMA LoopsRange ==
    ASSUME NEW f \in Functions, NEW shp \in Sizes
    PROVE  LoopsOK(f, shp, Loops(f, shp))
<1> DEFINE l == Loops(f, shp)
<1>1. shp.M \in 1..256 /\ shp.N \in 1..256 /\ shp.M \in Int /\ shp.N \in Int
  BY DEF Sizes
<1>2. /\ Square(32) # Square(64) /\ Square(32).M = 32 /\ Square(32).N = 32
      /\ Square(64).M = 64 /\ Square(64).N = 64
  BY DEF Square
<1>3. CASE f = "trans"
  <2>1. l = [di |-> 1, dj |-> shp.M, rounds |-> [i \in 0..shp.N |-> 1]]
    BY <1>3 DEF Loops
  <2>2. l.di = 1 /\ l.dj = shp.M /\ \A i \in 0..(shp.N - 1) : l.rounds[i] = 1
    <3> DEFINE r == [i \in 0..shp.N |-> 1]
    <3>1. \A i \in 0..(shp.N - 1) : r[i] = 1
      BY <1>1
    <3>2. l = [di |-> 1, dj |-> shp.M, rounds |-> r]
      BY <2>1
    <3> HIDE DEF l, r
    <3>3. l.di = 1 /\ l.dj = shp.M /\ l.rounds = r
      BY <3>2
    <3> QED BY <3>1, <3>3
  <2> HIDE DEF l
  <2>3. ~Even(f, shp) /\ ByRows(f, shp)
    BY <1>3 DEF Even, ByRows
  <2>4. \A i \in 0..(shp.N - 1) : Lesser(1, shp.N - i) = 1
    BY <1>1 DEF Lesser
  <2>5. 1 \in 1..16
    OBVIOUS
  <2> QED BY <1>1, <1>3, <2>2, <2>3, <2>4, <2>5 DEF LoopsOK, l
<1>4. CASE f = "transpose_submit" /\ shp = Square(32)
  <2>1. l = [di |-> 8, dj |-> 8, rounds |-> [i \in 0..32 |-> 8]]
    BY <1>2, <1>4 DEF Loops
  <2>2. l.di = 8 /\ l.dj = 8 /\ \A i \in 0..(shp.N - 1) : l.rounds[i] = 8
    BY <1>2, <1>4, <2>1
  <2> HIDE DEF l
  <2>3. Even(f, shp) /\ ByRows(f, shp) /\ f # "trans"
    BY <1>2, <1>4 DEF Even, ByRows
  <2>4. \A i \in 0..(shp.N - 1) : i % 8 = 0 => Lesser(8, shp.N - i) = 8
    BY <1>2, <1>4 DEF Lesser
  <2>5. 8 \in 1..16 /\ 8 \in 1..256
    OBVIOUS
  <2> QED BY <1>1, <2>2, <2>3, <2>4, <2>5 DEF LoopsOK, l
<1>5. CASE f = "transpose_submit" /\ shp = Square(64)
  <2>1. l = [di |-> 8, dj |-> 8, rounds |-> [i \in 0..64 |-> 12]]
    BY <1>2, <1>5 DEF Loops
  <2>2. l.di = 8 /\ l.dj = 8 /\ \A i \in 0..(shp.N - 1) : l.rounds[i] = 12
    BY <1>2, <1>5, <2>1
  <2> HIDE DEF l
  <2>3. Even(f, shp) /\ ~ByRows(f, shp) /\ f # "trans"
    BY <1>2, <1>5 DEF Even, ByRows
  <2>4. 8 \in 1..16 /\ 8 \in 1..256 /\ 12 \in 1..16
    OBVIOUS
  <2> QED BY <1>1, <2>2, <2>3, <2>4 DEF LoopsOK, l
<1>6. CASE f = "transpose_submit" /\ shp \notin {Square(32), Square(64)}
  <2>1. l = [di |-> 16, dj |-> 16, rounds |-> [i \in 0..shp.N |-> Lesser(16, shp.N - i)]]
    BY <1>6 DEF Loops
  <2>2. l.di = 16 /\ l.dj = 16 /\ \A i \in 0..(shp.N - 1) : l.rounds[i] = Lesser(16, shp.N - i)
    <3> DEFINE r == [i \in 0..shp.N |-> Lesser(16, shp.N - i)]
    <3>1. \A i \in 0..(shp.N - 1) : r[i] = Lesser(16, shp.N - i)
      BY <1>1
    <3>2. l = [di |-> 16, dj |-> 16, rounds |-> r]
      BY <2>1
    <3> HIDE DEF l, r
    <3>3. l.di = 16 /\ l.dj = 16 /\ l.rounds = r
      BY <3>2
    <3> QED BY <3>1, <3>3
  <2> HIDE DEF l
  <2>3. ~Even(f, shp) /\ ByRows(f, shp) /\ f # "trans"
    BY <1>6 DEF Even, ByRows
  <2>4. \A i \in 0..(shp.N - 1) : Lesser(16, shp.N - i) \in 1..16
    <3> SUFFICES ASSUME NEW i \in 0..(shp.N - 1) PROVE Lesser(16, shp.N - i) \in 1..16
      OBVIOUS
    <3> DEFINE d == shp.N - i
    <3>1. d \in Int /\ d >= 1
      BY <1>1
    <3> HIDE DEF d
    <3>2. Lesser(16, d) \in 1..16
      BY <3>1 DEF Lesser
    <3> QED BY <3>2 DEF d
  <2>5. 16 \in 1..16 /\ 16 \in 1..256
    OBVIOUS
  <2> QED BY <1>1, <2>2, <2>3, <2>4, <2>5 DEF LoopsOK, l
<1> QED BY <1>3, <1>4, <1>5, <1>6 DEF Functions

\* Where a function is between two iterations.
AtOK(f, shp, a) ==
    /\ a \in [i : 0..shp.N, j : 0..(shp.M - 1), k : 0..15]
    /\ a.i < shp.N => a.k < Loops(f, shp).rounds[a.i]
    /\ f = "trans" => a.j = 0 /\ a.k = 0
    /\ Even(f, shp) => a.i % 8 = 0 /\ a.j % 8 = 0

\* Iterations in the order in which they come.
Later(a, b) == a.i < b.i \/ (a.i = b.i /\ (a.j < b.j \/ (a.j = b.j /\ a.k < b.k)))

\* The first iteration is one of the loops.
LEMMA BeginOK ==
    ASSUME NEW f \in Functions, NEW shp \in Sizes
    PROVE  AtOK(f, shp, Begin(f, shp))
<1> DEFINE a == Begin(f, shp)
           l == Loops(f, shp)
<1>1. shp.M \in 1..256 /\ shp.N \in 1..256 /\ shp.M \in Int /\ shp.N \in Int
  BY DEF Sizes
<1>2. LoopsOK(f, shp, l)
  BY LoopsRange
<1> HIDE DEF l
<1>3. CASE f = "trans" \/ shp \in Known
  <2>1. a = [i |-> 0, j |-> 0, k |-> 0]
    BY <1>3 DEF Begin
  <2>2. 0 < l.rounds[0] /\ 0 % 8 = 0
    <3>1. 0 \in 0..(shp.N - 1)
      BY <1>1
    <3>2. l.rounds[0] \in 1..16
      BY <1>2, <3>1 DEF LoopsOK
    <3> QED BY <3>2
  <2> HIDE DEF a
  <2> QED BY <1>1, <2>1, <2>2 DEF AtOK, a, l
<1>4. CASE ~(f = "trans" \/ shp \in Known)
  <2>1. a = [i |-> shp.N, j |-> 0, k |-> 0]
    BY <1>4 DEF Begin
  <2>2. ~Even(f, shp)
    BY <1>4 DEF Even, Known
  <2> HIDE DEF a
  <2> QED BY <1>1, <1>4, <2>1, <2>2 DEF AtOK, a, l
<1> QED BY <1>3, <1>4

\* The three ways on.
LEMMA Advances ==
    ASSUME NEW f \in Functions, NEW shp \in Sizes, NEW a, AtOK(f, shp, a), a.i < shp.N,
           NEW l, l = Loops(f, shp), NEW b, b = Advance(f, shp, a)
    PROVE  \/ a.k + 1 < l.rounds[a.i] /\ b = [i |-> a.i, j |-> a.j, k |-> a.k + 1]
           \/ /\ a.k + 1 = l.rounds[a.i] /\ a.j + l.dj < shp.M
              /\ b = [i |-> a.i, j |-> a.j + l.dj, k |-> 0]
           \/ /\ a.k + 1 = l.rounds[a.i] /\ a.j + l.dj >= shp.M
              /\ b = [i |-> Lesser(a.i + l.di, shp.N), j |-> 0, k |-> 0]
<1>1. shp.M \in 1..256 /\ shp.N \in 1..256 /\ shp.M \in Int /\ shp.N \in Int
  BY DEF Sizes
<1>2. LoopsOK(f, shp, l)
  BY LoopsRange
<1>3. /\ a \in [i : 0..shp.N, j : 0..(shp.M - 1), k : 0..15] /\ a.k < l.rounds[a.i]
      /\ a.i \in Int /\ a.j \in Int /\ a.k \in Int
  BY <1>1 DEF AtOK
<1>4. /\ l.rounds[a.i] \in 1..16 /\ l.dj \in 1..256
      /\ l.rounds[a.i] \in Int /\ l.dj \in Int
  <2>1. a.i \in 0..(shp.N - 1)
    BY <1>1, <1>3
  <2> QED BY <1>2, <2>1 DEF LoopsOK
<1>5. CASE a.k + 1 < l.rounds[a.i]
  <2>1. b = [a EXCEPT !.k = a.k + 1]
    BY <1>5 DEF Advance
  <2>2. b = [i |-> a.i, j |-> a.j, k |-> a.k + 1]
    BY <1>3, <2>1
  <2> QED BY <1>5, <2>2
<1>6. CASE ~(a.k + 1 < l.rounds[a.i]) /\ a.j + l.dj < shp.M
  <2>1. b = [a EXCEPT !.k = 0, !.j = a.j + l.dj]
    BY <1>6 DEF Advance
  <2>2. b = [i |-> a.i, j |-> a.j + l.dj, k |-> 0]
    BY <1>3, <2>1
  <2>3. a.k + 1 = l.rounds[a.i]
    BY <1>3, <1>4, <1>6
  <2> QED BY <1>6, <2>2, <2>3
<1>7. CASE ~(a.k + 1 < l.rounds[a.i]) /\ ~(a.j + l.dj < shp.M)
  <2>1. b = [i |-> Lesser(a.i + l.di, shp.N), j |-> 0, k |-> 0]
    BY <1>7 DEF Advance
  <2>2. a.k + 1 = l.rounds[a.i] /\ a.j + l.dj >= shp.M
    BY <1>1, <1>3, <1>4, <1>7
  <2> QED BY <2>1, <2>2
<1> QED BY <1>5, <1>6, <1>7

\* So is the next of every iteration, up to the end.
LEMMA AdvanceOK ==
    ASSUME NEW f \in Functions, NEW shp \in Sizes, NEW a, AtOK(f, shp, a), a.i < shp.N
    PROVE  AtOK(f, shp, Advance(f, shp, a)) /\ Later(a, Advance(f, shp, a))
<1> DEFINE l == Loops(f, shp)
           b == Advance(f, shp, a)
<1>1. shp.M \in 1..256 /\ shp.N \in 1..256 /\ shp.M \in Int /\ shp.N \in Int
  BY DEF Sizes
<1>2. LoopsOK(f, shp, l)
  BY LoopsRange
<1>3. /\ a.i \in 0..(shp.N - 1) /\ a.j \in 0..(shp.M - 1) /\ a.k \in 0..15
      /\ a.i \in Int /\ a.j \in Int /\ a.k \in Int
      /\ a.k < l.rounds[a.i] /\ (f = "trans" => a.j = 0 /\ a.k = 0)
      /\ (Even(f, shp) => a.i % 8 = 0 /\ a.j % 8 = 0)
  BY <1>1 DEF AtOK
<1>4. \/ a.k + 1 < l.rounds[a.i] /\ b = [i |-> a.i, j |-> a.j, k |-> a.k + 1]
      \/ /\ a.k + 1 = l.rounds[a.i] /\ a.j + l.dj < shp.M
         /\ b = [i |-> a.i, j |-> a.j + l.dj, k |-> 0]
      \/ /\ a.k + 1 = l.rounds[a.i] /\ a.j + l.dj >= shp.M
         /\ b = [i |-> Lesser(a.i + l.di, shp.N), j |-> 0, k |-> 0]
  <2> HIDE DEF l, b
  <2> QED BY Advances DEF l, b
<1> HIDE DEF l, b
<1>5. /\ l.di \in 1..16 /\ l.dj \in 1..256 /\ l.rounds[a.i] \in 1..16
      /\ l.di \in Int /\ l.dj \in Int /\ l.rounds[a.i] \in Int
      /\ (f = "trans" => l.dj = shp.M /\ l.rounds[a.i] = 1)
      /\ (Even(f, shp) => l.di = 8 /\ l.dj = 8)
  BY <1>2, <1>3 DEF LoopsOK
<1>6. CASE a.k + 1 < l.rounds[a.i] /\ b = [i |-> a.i, j |-> a.j, k |-> a.k + 1]
  <2>1. b.i = a.i /\ b.j = a.j /\ b.k = a.k + 1
    BY <1>6
  <2>2. b \in [i : 0..shp.N, j : 0..(shp.M - 1), k : 0..15]
    BY <1>1, <1>3, <1>5, <1>6
  <2>3. f # "trans"
    BY <1>3, <1>5, <1>6
  <2>4. Later(a, b)
    BY <1>3, <2>1 DEF Later
  <2> QED BY <1>3, <1>6, <2>1, <2>2, <2>3, <2>4 DEF AtOK, l, b
<1>7. CASE a.j + l.dj < shp.M /\ b = [i |-> a.i, j |-> a.j + l.dj, k |-> 0]
  <2>1. b.i = a.i /\ b.j = a.j + l.dj /\ b.k = 0
    BY <1>7
  <2>2. b \in [i : 0..shp.N, j : 0..(shp.M - 1), k : 0..15]
    <3>1. a.i \in 0..shp.N /\ a.j + l.dj \in 0..(shp.M - 1) /\ 0 \in 0..15
      BY <1>1, <1>3, <1>5, <1>7
    <3> QED BY <1>7, <3>1
  <2>3. f # "trans"
    BY <1>1, <1>3, <1>5, <1>7
  <2>4. Later(a, b)
    BY <1>3, <1>5, <2>1 DEF Later
  <2>5. 0 < l.rounds[b.i]
    BY <1>5, <2>1
  <2>6. Even(f, shp) => b.i % 8 = 0 /\ b.j % 8 = 0
    BY <1>3, <1>5, <2>1
  <2> QED BY <2>1, <2>2, <2>3, <2>4, <2>5, <2>6 DEF AtOK, l, b
<1>8. CASE b = [i |-> Lesser(a.i + l.di, shp.N), j |-> 0, k |-> 0]
  <2> DEFINE i1 == Lesser(a.i + l.di, shp.N)
  <2>1. i1 \in 0..shp.N /\ a.i < i1
    <3>1. a.i + l.di \in Int /\ shp.N \in Int /\ a.i < a.i + l.di /\ a.i < shp.N
      BY <1>1, <1>3, <1>5
    <3>2. i1 = a.i + l.di \/ i1 = shp.N
      BY DEF Lesser
    <3>3. i1 <= shp.N
      BY <3>1, LesserIs
    <3> HIDE DEF i1
    <3> QED BY <1>1, <1>3, <1>5, <3>1, <3>2, <3>3
  <2>2. Even(f, shp) => i1 % 8 = 0
    <3>1. ASSUME Even(f, shp) PROVE shp.N \in {32, 64}
      BY <3>1 DEF Even, Square
    <3> QED BY <1>3, <1>5, <3>1 DEF Lesser
  <2> HIDE DEF i1
  <2>3. b.i = i1 /\ b.j = 0 /\ b.k = 0 /\ b = [i |-> i1, j |-> 0, k |-> 0]
    BY <1>8 DEF i1
  <2>4. b \in [i : 0..shp.N, j : 0..(shp.M - 1), k : 0..15]
    BY <1>1, <2>1, <2>3
  <2>5. Later(a, b)
    BY <2>1, <2>3 DEF Later
  <2>6. b.i < shp.N => 0 < l.rounds[b.i]
    <3>1. ASSUME b.i < shp.N PROVE l.rounds[b.i] \in 1..16
      <4>1. b.i \in 0..(shp.N - 1)
        BY <1>1, <2>1, <2>3, <3>1
      <4> QED BY <1>2, <4>1 DEF LoopsOK
    <3> QED BY <3>1
  <2>7. Even(f, shp) => b.i % 8 = 0 /\ b.j % 8 = 0
    BY <2>2, <2>3
  <2> QED BY <2>3, <2>4, <2>5, <2>6, <2>7 DEF AtOK, l, b
<1> QED BY <1>4, <1>6, <1>7, <1>8 DEF b

----------------------------------------------------------------------------
\* What has been loaded, and where it is

\* What is loaded by a transpose that copies parts of rows, and by the other.
LoadedByRows(l, a, x, y) ==
    \/ x < a.i
    \/ x < a.i + l.di /\ (y < a.j \/ (y < a.j + l.dj /\ x < a.i + a.k))

LoadedByBlocks(a, x, y) ==
    \/ y < a.i
    \/ /\ y < a.i + 8
       /\ \/ x < a.j
          \/ x < a.j + 8 /\ ((x < a.j + 4 /\ x < a.j + a.k) \/ y < a.i + a.k - 4)

\* The element A[x][y] has been loaded before the iteration a.
Loaded(f, shp, a, x, y) ==
    IF ByRows(f, shp) THEN LoadedByRows(Loops(f, shp), a, x, y) ELSE LoadedByBlocks(a, x, y)

\* It is four rows above and four columns behind its place in B.
Parked(f, shp, a, x, y) ==
    /\ ~ByRows(f, shp)
    /\ y \in (a.i + 4)..(a.i + 7) /\ x \in a.j..(a.j + 3)
    /\ x < a.j + a.k /\ y >= a.i + a.k

\* All that has been loaded is in its place or parked.
InPlace(f, shp, a, m) ==
    \A x \in 0..(shp.N - 1), y \in 0..(shp.M - 1) :
        Loaded(f, shp, a, x, y) =>
            Element(shp, x, y) = IF Parked(f, shp, a, x, y) THEN m[y - 4][x + 4] ELSE m[y][x]

\* The accesses q take a function from the iteration a to b, and B from m to after.
StepTakes(f, shp, a, b, q, after) ==
    /\ \A n \in DOMAIN q : /\ Proper(shp, q[n])
                           /\ q[n].matrix = "A" => Loaded(f, shp, b, q[n].x, q[n].y)
    /\ after \in Matrices(shp)
    /\ \A x \in 0..(shp.N - 1), y \in 0..(shp.M - 1) :
          Loaded(f, shp, a, x, y) => Loaded(f, shp, b, x, y)
    /\ InPlace(f, shp, b, after)

\* The columns of a part of a row.
Part(l, shp, a) == a.j..(a.j + Lesser(l.dj, shp.M - a.j) - 1)

\* An iteration of a transpose by rows loads the part of the row it is at.
LEMMA RowsLoaded ==
    ASSUME NEW f \in Functions, NEW shp \in Sizes, ByRows(f, shp),
           NEW a, AtOK(f, shp, a), a.i < shp.N,
           NEW l, l = Loops(f, shp), NEW b, b = Advance(f, shp, a),
           NEW x \in 0..(shp.N - 1), NEW y \in 0..(shp.M - 1)
    PROVE  LoadedByRows(l, b, x, y)
               <=> LoadedByRows(l, a, x, y) \/ (x = a.i + a.k /\ y \in Part(l, shp, a))
<1>1. shp.M \in Int /\ shp.N \in Int /\ x \in Int /\ y \in Int
  BY DEF Sizes
<1>2. LoopsOK(f, shp, l)
  BY LoopsRange
<1>3. /\ a.i \in 0..(shp.N - 1) /\ a.j \in 0..(shp.M - 1) /\ a.k \in 0..15
      /\ a.i \in Int /\ a.j \in Int /\ a.k \in Int
      /\ a.k < l.rounds[a.i] /\ (Even(f, shp) => a.i % 8 = 0)
  BY <1>1 DEF AtOK
<1>4. /\ l.di \in Int /\ l.dj \in Int /\ l.di >= 1 /\ l.dj >= 1
      /\ l.rounds[a.i] = Lesser(l.di, shp.N - a.i)
  BY <1>2, <1>3 DEF LoopsOK
<1> DEFINE r == Lesser(l.di, shp.N - a.i)
           w == Lesser(l.dj, shp.M - a.j)
<1>5. r \in Int /\ r <= l.di /\ r <= shp.N - a.i /\ (r = l.di \/ r = shp.N - a.i)
  BY <1>1, <1>3, <1>4 DEF Lesser
<1>6. w \in Int /\ w <= l.dj /\ w <= shp.M - a.j /\ (w = l.dj \/ w = shp.M - a.j)
  BY <1>1, <1>3, <1>4 DEF Lesser
<1>7. y \in Part(l, shp, a) <=> a.j <= y /\ y < a.j + l.dj
  <2>1. Part(l, shp, a) = a.j..(a.j + w - 1)
    BY DEF Part
  <2> HIDE DEF w
  <2>2. y < a.j + w <=> y < a.j + l.dj
    <3>1. CASE w = l.dj
      BY <3>1
    <3>2. CASE w = shp.M - a.j
      <4>1. y < a.j + w
        BY <1>1, <1>3, <3>2
      <4>2. a.j + w <= a.j + l.dj
        BY <1>3, <1>4, <1>6
      <4> QED BY <1>1, <1>3, <1>4, <1>6, <4>1, <4>2
    <3> QED BY <1>6, <3>1, <3>2
  <2>3. y \in a.j..(a.j + w - 1) <=> a.j <= y /\ y < a.j + w
    BY <1>1, <1>3, <1>6
  <2> QED BY <2>1, <2>2, <2>3
<1>8. a.k < r /\ l.rounds[a.i] = r
  BY <1>3, <1>4
<1> HIDE DEF r, w
<1>9. \/ a.k + 1 < l.rounds[a.i] /\ b = [i |-> a.i, j |-> a.j, k |-> a.k + 1]
      \/ /\ a.k + 1 = l.rounds[a.i] /\ a.j + l.dj < shp.M
         /\ b = [i |-> a.i, j |-> a.j + l.dj, k |-> 0]
      \/ /\ a.k + 1 = l.rounds[a.i] /\ a.j + l.dj >= shp.M
         /\ b = [i |-> Lesser(a.i + l.di, shp.N), j |-> 0, k |-> 0]
  BY Advances
<1>10. CASE a.k + 1 < l.rounds[a.i] /\ b = [i |-> a.i, j |-> a.j, k |-> a.k + 1]
  <2>1. b.i = a.i /\ b.j = a.j /\ b.k = a.k + 1
    BY <1>10
  <2> QED BY <1>1, <1>3, <1>4, <1>5, <1>7, <1>8, <2>1 DEF LoadedByRows
<1>11. CASE /\ a.k + 1 = l.rounds[a.i] /\ a.j + l.dj < shp.M
            /\ b = [i |-> a.i, j |-> a.j + l.dj, k |-> 0]
  <2>1. b.i = a.i /\ b.j = a.j + l.dj /\ b.k = 0 /\ a.k + 1 = r
    BY <1>8, <1>11
  <2>2. LoadedByRows(l, b, x, y) <=> x < a.i \/ (x < a.i + l.di /\ y < a.j + l.dj)
    BY <1>1, <1>3, <1>4, <2>1 DEF LoadedByRows
  <2>3. LoadedByRows(l, a, x, y) \/ (x = a.i + a.k /\ y \in Part(l, shp, a))
            <=> x < a.i \/ (x < a.i + l.di /\ y < a.j + l.dj)
    <3>1. x < a.i + l.di => x < a.i + a.k \/ x = a.i + a.k
      <4>1. x < shp.N
        BY <1>1
      <4>2. x < a.i + l.di => x < a.i + r
        BY <1>1, <1>3, <1>4, <1>5, <4>1
      <4>3. a.i + r = a.i + a.k + 1
        BY <1>3, <2>1
      <4> QED BY <1>1, <1>3, <4>2, <4>3
    <3>2. a.i + a.k < a.i + l.di
      BY <1>1, <1>3, <1>4, <1>5, <2>1
    <3> QED BY <1>1, <1>3, <1>4, <1>7, <3>1, <3>2 DEF LoadedByRows
  <2> QED BY <2>2, <2>3
<1>12. CASE /\ a.k + 1 = l.rounds[a.i] /\ a.j + l.dj >= shp.M
            /\ b = [i |-> Lesser(a.i + l.di, shp.N), j |-> 0, k |-> 0]
  <2> DEFINE i1 == Lesser(a.i + l.di, shp.N)
  <2>1. /\ i1 \in Int /\ i1 <= a.i + l.di /\ i1 <= shp.N /\ (i1 = a.i + l.di \/ i1 = shp.N)
    BY <1>1, <1>3, <1>4 DEF Lesser
  <2>2. b.i = i1 /\ b.j = 0 /\ b.k = 0 /\ a.k + 1 = r /\ a.j + l.dj >= shp.M
    BY <1>8, <1>12
  <2> HIDE DEF i1
  <2> QED BY <1>1, <1>3, <1>4, <1>5, <1>7, <2>1, <2>2 DEF LoadedByRows
<1> QED BY <1>9, <1>10, <1>11, <1>12

\* Its accesses copy this part.
LEMMA RowsCopied ==
    ASSUME NEW f \in Functions, NEW shp \in Sizes, ByRows(f, shp),
           NEW a, AtOK(f, shp, a), a.i < shp.N, NEW l, l = Loops(f, shp),
           NEW m \in Matrices(shp)
    PROVE  Copies(shp, m, Body(f, shp, a), {a.i + a.k}, Part(l, shp, a))
<1>1. shp.M \in Int /\ shp.N \in Int /\ shp.M >= 1 /\ shp \in Shape /\ shp.M \in Nat
  BY DEF Sizes, Shape
<1>2. LoopsOK(f, shp, l)
  BY LoopsRange
<1>3. /\ a.i \in 0..(shp.N - 1) /\ a.j \in 0..(shp.M - 1) /\ a.k \in 0..15
      /\ a.i \in Nat /\ a.j \in Nat /\ a.k \in Nat
      /\ a.k < l.rounds[a.i] /\ (Even(f, shp) => a.i % 8 = 0 /\ a.j % 8 = 0)
      /\ (f = "trans" => a.j = 0 /\ a.k = 0)
  BY <1>1 DEF AtOK
<1>4. /\ l.di \in Int /\ l.dj \in Int /\ l.di >= 1 /\ l.dj >= 1
      /\ l.rounds[a.i] = Lesser(l.di, shp.N - a.i)
      /\ (f = "trans" => l.dj = shp.M) /\ (Even(f, shp) => l.di = 8 /\ l.dj = 8)
      /\ (f # "trans" /\ ~Even(f, shp) => l.dj = 16)
  BY <1>2, <1>3 DEF LoopsOK
<1>5. /\ Lesser(l.di, shp.N - a.i) \in Int /\ Lesser(l.di, shp.N - a.i) <= shp.N - a.i
      /\ Lesser(l.di, shp.N - a.i) <= l.di
  BY <1>1, <1>3, <1>4 DEF Lesser
<1>6. a.i + a.k < shp.N /\ a.k < l.di
  BY <1>1, <1>3, <1>4, <1>5
<1>7. CASE f = "trans"
  <2>1. Body(f, shp, a) = BodyRow(shp, a.i, 0, 0, shp.M)
    BY <1>7 DEF Body
  <2>2. Copies(shp, m, BodyRow(shp, a.i, 0, 0, shp.M), {a.i + 0}, 0..(0 + Lesser(shp.M, shp.M - 0) - 1))
    <3>1. shp.M \in Nat \ {0} /\ 0 \in Nat /\ a.i + 0 < shp.N /\ 0 < shp.M
      BY <1>1, <1>3
    <3> QED BY <1>1, <1>3, <3>1, BodyRowCopies
  <2>3. a.i + 0 = a.i + a.k /\ 0..(0 + Lesser(shp.M, shp.M - 0) - 1) = Part(l, shp, a)
    BY <1>3, <1>4, <1>7 DEF Part
  <2> QED BY <2>1, <2>2, <2>3
<1>8. CASE f = "transpose_submit" /\ shp = Square(32)
  <2>1. Body(f, shp, a) = Body32(a.i, a.j, a.k)
    <3>1. Square(32) # Square(64) /\ f # "trans"
      BY <1>8 DEF Square
    <3> QED BY <1>8, <3>1 DEF Body
  <2>2. Even(f, shp) /\ shp.M = 32 /\ shp.N = 32
    BY <1>8 DEF Even, Square
  <2>3. a.j + 8 <= 32
    BY <1>3, <2>2
  <2>4. Copies(shp, m, Body32(a.i, a.j, a.k), {a.i + a.k}, a.j..(a.j + 7))
    BY <1>1, <1>3, <1>6, <2>2, <2>3, Body32Copies
  <2>5. a.j..(a.j + 7) = Part(l, shp, a)
    <3>1. Lesser(8, shp.M - a.j) = 8
      BY <1>3, <2>2, <2>3 DEF Lesser
    <3>2. Part(l, shp, a) = a.j..(a.j + 8 - 1)
      BY <1>4, <2>2, <3>1 DEF Part
    <3>3. a.j + 8 - 1 = a.j + 7
      BY <1>3
    <3> QED BY <3>2, <3>3
  <2> QED BY <2>1, <2>4, <2>5
<1>9. CASE f = "transpose_submit" /\ shp # Square(32)
  <2>1. shp \notin {Square(32), Square(64)} /\ f # "trans" /\ ~Even(f, shp)
    BY <1>9 DEF ByRows, Even
  <2>2. Body(f, shp, a) = BodyRow(shp, a.i, a.j, a.k, 16)
    BY <1>9, <2>1 DEF Body
  <2>3. Copies(shp, m, BodyRow(shp, a.i, a.j, a.k, 16), {a.i + a.k},
               a.j..(a.j + Lesser(16, shp.M - a.j) - 1))
    <3>1. 16 \in Nat \ {0} /\ a.j < shp.M
      BY <1>1, <1>3
    <3> QED BY <1>1, <1>3, <1>6, <3>1, BodyRowCopies
  <2>4. a.j..(a.j + Lesser(16, shp.M - a.j) - 1) = Part(l, shp, a)
    BY <1>4, <2>1 DEF Part
  <2> QED BY <2>2, <2>3, <2>4
<1> QED BY <1>7, <1>8, <1>9 DEF Functions

\* So an iteration of a transpose by rows keeps what is loaded in place.
LEMMA RowStep ==
    ASSUME NEW f \in Functions, NEW shp \in Sizes, ByRows(f, shp),
           NEW a, AtOK(f, shp, a), a.i < shp.N, NEW m \in Matrices(shp), InPlace(f, shp, a, m)
    PROVE  StepTakes(f, shp, a, Advance(f, shp, a), Body(f, shp, a),
                  Performed(shp, m, Body(f, shp, a)))
<1> DEFINE l == Loops(f, shp)
           b == Advance(f, shp, a)
           q == Body(f, shp, a)
           X == {a.i + a.k}
           Y == Part(l, shp, a)
<1>1. Copies(shp, m, q, X, Y)
  BY RowsCopied
<1> HIDE DEF l, b, q
<1>2. PICK after : Takes(shp, m, q, after, X, Y) /\ Fills(shp, m, after, X, Y)
  BY <1>1 DEF Copies
<1>3. ASSUME NEW x \in 0..(shp.N - 1), NEW y \in 0..(shp.M - 1)
      PROVE  Loaded(f, shp, b, x, y) <=> Loaded(f, shp, a, x, y) \/ (x \in X /\ y \in Y)
  <2>1. LoadedByRows(l, b, x, y)
            <=> LoadedByRows(l, a, x, y) \/ (x = a.i + a.k /\ y \in Part(l, shp, a))
    BY RowsLoaded DEF l, b
  <2> QED BY <2>1 DEF Loaded, l
<1> HIDE DEF X, Y
<1>4. /\ \A n \in DOMAIN q :
            Proper(shp, q[n]) /\ (q[n].matrix = "A" => q[n].x \in X /\ q[n].y \in Y)
      /\ Performed(shp, m, q) = after /\ after \in Matrices(shp)
  BY <1>2 DEF Takes
<1>5. ASSUME NEW n \in DOMAIN q, q[n].matrix = "A" PROVE Loaded(f, shp, b, q[n].x, q[n].y)
  <2>1. q[n].x \in 0..(shp.N - 1) /\ q[n].y \in 0..(shp.M - 1)
    BY <1>4, <1>5 DEF Proper, Inside
  <2> QED BY <1>3, <1>4, <1>5, <2>1
<1>6. InPlace(f, shp, b, after)
  <2> SUFFICES ASSUME NEW x \in 0..(shp.N - 1), NEW y \in 0..(shp.M - 1), Loaded(f, shp, b, x, y)
               PROVE  Element(shp, x, y) = after[y][x]
    BY DEF InPlace, Parked
  <2>1. after[y][x] = IF x \in X /\ y \in Y THEN Element(shp, x, y) ELSE m[y][x]
    BY <1>2 DEF Fills
  <2>2. CASE x \in X /\ y \in Y
    BY <2>1, <2>2
  <2>3. CASE ~(x \in X /\ y \in Y)
    <3>1. Loaded(f, shp, a, x, y)
      BY <1>3, <2>3
    <3>2. Element(shp, x, y) = m[y][x]
      BY <3>1 DEF InPlace, Parked
    <3> QED BY <2>1, <2>3, <3>2
  <2> QED BY <2>2, <2>3
<1>7. StepTakes(f, shp, a, b, q, after)
  BY <1>3, <1>4, <1>5, <1>6 DEF StepTakes
<1> QED BY <1>4, <1>7 DEF b, q

\* The iteration a of the transpose of 64 by 64 loads these elements.
LoadedAt(a, x, y) ==
    \/ a.k < 4 /\ x = a.j + a.k /\ y \in a.i..(a.i + 7)
    \/ a.k >= 4 /\ x \in (a.j + 4)..(a.j + 7) /\ y = a.i + a.k - 4

\* It has elements parked, or moves parked ones to their place.
ParkedNext(f, shp, a, x, y) ==
    \/ Parked(f, shp, a, x, y) /\ (a.k >= 4 => y # a.i + a.k)
    \/ a.k < 4 /\ x = a.j + a.k /\ y \in (a.i + 4)..(a.i + 7)

\* A block of the 64 by 64 transpose lies within the matrices.
LEMMA BlockBounds ==
    ASSUME NEW f \in Functions, NEW shp \in Sizes, ~ByRows(f, shp),
           NEW a, AtOK(f, shp, a), a.i < shp.N
    PROVE  /\ shp.M = 64 /\ shp.N = 64 /\ f = "transpose_submit" /\ shp = Square(64)
           /\ a.i \in Nat /\ a.j \in Nat /\ a.k \in 0..11 /\ a.k \in Nat
           /\ a.i + 8 <= 64 /\ a.j + 8 <= 64
<1>1. shp = Square(64) /\ f = "transpose_submit" /\ Even(f, shp) /\ shp.M = 64 /\ shp.N = 64
  BY DEF ByRows, Functions, Even, Square
<1>2. LoopsOK(f, shp, Loops(f, shp))
  BY LoopsRange
<1>3. /\ a.i \in 0..63 /\ a.j \in 0..63 /\ a.k \in 0..15 /\ a.i % 8 = 0 /\ a.j % 8 = 0
      /\ a.k < Loops(f, shp).rounds[a.i] /\ a.i \in Nat /\ a.j \in Nat /\ a.k \in Nat
  BY <1>1 DEF AtOK
<1>4. Loops(f, shp).rounds[a.i] = 12
  BY <1>1, <1>2, <1>3 DEF LoopsOK
<1>5. a.i + 8 <= 64 /\ a.j + 8 <= 64
  <2>1. ASSUME NEW n \in 0..63, n % 8 = 0 PROVE n + 8 <= 64
    BY <2>1
  <2> QED BY <1>3, <2>1
<1>6. a.k \in 0..11
  BY <1>3, <1>4
<1> QED BY <1>1, <1>3, <1>5, <1>6

\* What an iteration of the 64 by 64 transpose adds to what is loaded, and what it parks.
LEMMA BlocksLoaded ==
    ASSUME NEW f \in Functions, NEW shp \in Sizes, ~ByRows(f, shp),
           NEW a, AtOK(f, shp, a), a.i < shp.N, NEW b, b = Advance(f, shp, a),
           NEW x \in 0..(shp.N - 1), NEW y \in 0..(shp.M - 1)
    PROVE  /\ LoadedByBlocks(b, x, y) <=> LoadedByBlocks(a, x, y) \/ LoadedAt(a, x, y)
           /\ Parked(f, shp, b, x, y) <=> ParkedNext(f, shp, a, x, y)
<1> DEFINE l == Loops(f, shp)
<1>1. /\ shp.M = 64 /\ shp.N = 64 /\ f = "transpose_submit" /\ shp = Square(64)
      /\ a.i \in Nat /\ a.j \in Nat /\ a.k \in 0..11 /\ a.k \in Nat
      /\ a.i + 8 <= 64 /\ a.j + 8 <= 64
  BY BlockBounds
<1>2. l.dj = 8 /\ l.di = 8 /\ l.rounds[a.i] = 12
  <2>1. LoopsOK(f, shp, l)
    BY LoopsRange
  <2>2. Even(f, shp) /\ a.i \in 0..(shp.N - 1)
    BY <1>1 DEF Even
  <2> HIDE DEF l
  <2> QED BY <2>1, <2>2 DEF LoopsOK
<1>3. \/ a.k + 1 < l.rounds[a.i] /\ b = [i |-> a.i, j |-> a.j, k |-> a.k + 1]
      \/ /\ a.k + 1 = l.rounds[a.i] /\ a.j + l.dj < shp.M
         /\ b = [i |-> a.i, j |-> a.j + l.dj, k |-> 0]
      \/ /\ a.k + 1 = l.rounds[a.i] /\ a.j + l.dj >= shp.M
         /\ b = [i |-> Lesser(a.i + l.di, shp.N), j |-> 0, k |-> 0]
  <2> HIDE DEF l
  <2> QED BY Advances DEF l
<1> HIDE DEF l
<1>4. x \in 0..63 /\ y \in 0..63 /\ x \in Int /\ y \in Int
  BY <1>1
<1>5. CASE a.k + 1 < 12 /\ b = [i |-> a.i, j |-> a.j, k |-> a.k + 1]
  <2>1. b.i = a.i /\ b.j = a.j /\ b.k = a.k + 1
    BY <1>5
  <2>2. LoadedByBlocks(b, x, y) <=> LoadedByBlocks(a, x, y) \/ LoadedAt(a, x, y)
    BY <1>1, <1>4, <2>1 DEF LoadedByBlocks, LoadedAt
  <2>3. Parked(f, shp, b, x, y) <=> ParkedNext(f, shp, a, x, y)
    BY <1>1, <1>4, <1>5, <2>1 DEF Parked, ParkedNext
  <2> QED BY <2>2, <2>3
<1>6. CASE a.k + 1 = 12 /\ a.j + 8 < 64 /\ b = [i |-> a.i, j |-> a.j + 8, k |-> 0]
  <2>1. b.i = a.i /\ b.j = a.j + 8 /\ b.k = 0 /\ a.k = 11
    BY <1>1, <1>6
  <2>2. LoadedByBlocks(b, x, y) <=> LoadedByBlocks(a, x, y) \/ LoadedAt(a, x, y)
    BY <1>1, <1>4, <2>1 DEF LoadedByBlocks, LoadedAt
  <2>3. Parked(f, shp, b, x, y) <=> ParkedNext(f, shp, a, x, y)
    BY <1>1, <1>4, <2>1 DEF Parked, ParkedNext
  <2> QED BY <2>2, <2>3
<1>7. CASE a.k + 1 = 12 /\ a.j + 8 >= 64 /\ b = [i |-> Lesser(a.i + 8, 64), j |-> 0, k |-> 0]
  <2>0. Lesser(a.i + 8, 64) = a.i + 8
    BY <1>1 DEF Lesser
  <2>1. b.i = a.i + 8 /\ b.j = 0 /\ b.k = 0 /\ a.k = 11 /\ a.j = 56
    BY <1>1, <1>7, <2>0
  <2>2. LoadedByBlocks(b, x, y) <=> LoadedByBlocks(a, x, y) \/ LoadedAt(a, x, y)
    BY <1>1, <1>4, <2>1 DEF LoadedByBlocks, LoadedAt
  <2>3. Parked(f, shp, b, x, y) <=> ParkedNext(f, shp, a, x, y)
    BY <1>1, <1>4, <2>1 DEF Parked, ParkedNext
  <2> QED BY <2>2, <2>3
<1>8. \/ a.k + 1 < 12 /\ b = [i |-> a.i, j |-> a.j, k |-> a.k + 1]
      \/ a.k + 1 = 12 /\ a.j + 8 < 64 /\ b = [i |-> a.i, j |-> a.j + 8, k |-> 0]
      \/ a.k + 1 = 12 /\ a.j + 8 >= 64 /\ b = [i |-> Lesser(a.i + 8, 64), j |-> 0, k |-> 0]
  BY <1>1, <1>2, <1>3
<1> QED BY <1>5, <1>6, <1>7, <1>8

\* What an iteration of the transpose of 64 by 64 does to B.
Effect64(shp, m, after, a) ==
    \/ a.k \in 0..3 /\ Parks(shp, m, after, a.i, a.j, a.k)
    \/ a.k \in 4..7 /\ Unparks(shp, m, after, a.i, a.j, a.k)
    \/ a.k \in 8..11 /\ Fills(shp, m, after, (a.j + 4)..(a.j + 7), {a.i + a.k - 4})

\* It leaves the elements where they should be.
LEMMA BlockEffect ==
    ASSUME NEW f \in Functions, NEW shp \in Sizes, ~ByRows(f, shp),
           NEW a, AtOK(f, shp, a), a.i < shp.N, NEW m \in Matrices(shp), InPlace(f, shp, a, m),
           NEW after, Effect64(shp, m, after, a), NEW b, b = Advance(f, shp, a)
    PROVE  InPlace(f, shp, b, after)
<1>1. /\ shp.M = 64 /\ shp.N = 64 /\ a.i \in Nat /\ a.j \in Nat /\ a.k \in 0..11 /\ a.k \in Nat
      /\ a.i + 8 <= 64 /\ a.j + 8 <= 64
  BY BlockBounds
<1>r. 0..(shp.N - 1) = 0..63 /\ 0..(shp.M - 1) = 0..63
  BY <1>1
<1> SUFFICES ASSUME NEW x \in 0..63, NEW y \in 0..63, Loaded(f, shp, b, x, y)
             PROVE  Element(shp, x, y) =
                        IF Parked(f, shp, b, x, y) THEN after[y - 4][x + 4] ELSE after[y][x]
  BY <1>r DEF InPlace
<1>2. /\ LoadedByBlocks(b, x, y) <=> LoadedByBlocks(a, x, y) \/ LoadedAt(a, x, y)
      /\ Parked(f, shp, b, x, y) <=> ParkedNext(f, shp, a, x, y)
  <2>1. x \in 0..(shp.N - 1) /\ y \in 0..(shp.M - 1)
    BY <1>r
  <2> QED BY <2>1, BlocksLoaded
<1>3. LoadedByBlocks(a, x, y) \/ LoadedAt(a, x, y)
  BY <1>2 DEF Loaded
<1>n. x \in Int /\ y \in Int
  OBVIOUS
<1>4. ASSUME LoadedByBlocks(a, x, y)
      PROVE  Element(shp, x, y) = IF Parked(f, shp, a, x, y) THEN m[y - 4][x + 4] ELSE m[y][x]
  BY <1>r, <1>4 DEF InPlace, Loaded
<1>5. Parked(f, shp, a, x, y) => y - 4 \in 0..63 /\ x + 4 \in 0..63
  BY <1>1, <1>n DEF Parked
<1>6. CASE a.k \in 0..3 /\ Parks(shp, m, after, a.i, a.j, a.k)
  <2>0. a.k \in 0..3 /\ a.k \in Int
    BY <1>1, <1>6
  <2>1. ASSUME NEW v \in 0..63, NEW w \in 0..63
        PROVE  /\ v = a.j + a.k /\ w \in a.i..(a.i + 3) => after[w][v] = Element(shp, v, w)
               /\ v = a.j + a.k + 4 /\ w \in a.i..(a.i + 3) => after[w][v] = Element(shp, v - 4, w + 4)
               /\ ~(v \in {a.j + a.k, a.j + a.k + 4} /\ w \in a.i..(a.i + 3)) => after[w][v] = m[w][v]
    BY <1>r, <1>6 DEF Parks
  <2>2. CASE LoadedAt(a, x, y) /\ y \in a.i..(a.i + 3)
    <3>1. x = a.j + a.k
      BY <2>0, <2>2 DEF LoadedAt
    <3>2. after[y][x] = Element(shp, x, y)
      BY <2>1, <2>2, <3>1
    <3>3. ~ParkedNext(f, shp, a, x, y)
      BY <1>1, <1>n, <2>2 DEF ParkedNext, Parked
    <3> QED BY <1>2, <3>2, <3>3
  <2>3. CASE LoadedAt(a, x, y) /\ ~(y \in a.i..(a.i + 3))
    <3>1. x = a.j + a.k /\ y \in (a.i + 4)..(a.i + 7)
      BY <1>1, <1>n, <2>0, <2>3 DEF LoadedAt
    <3> DEFINE v == x + 4
               w == y - 4
    <3>2. v \in 0..63 /\ w \in 0..63 /\ v = a.j + a.k + 4 /\ w \in a.i..(a.i + 3) /\ v - 4 = x /\ w + 4 = y
      BY <1>1, <1>n, <2>0, <3>1
    <3> HIDE DEF v, w
    <3>3. after[w][v] = Element(shp, x, y)
      BY <2>1, <3>2
    <3>4. ParkedNext(f, shp, a, x, y)
      BY <2>0, <3>1 DEF ParkedNext
    <3> QED BY <1>2, <3>3, <3>4 DEF v, w
  <2>4. CASE LoadedByBlocks(a, x, y) /\ ~LoadedAt(a, x, y) /\ Parked(f, shp, a, x, y)
    <3> DEFINE v == x + 4
               w == y - 4
    <3>1. v \in 0..63 /\ w \in 0..63 /\ v \notin {a.j + a.k, a.j + a.k + 4}
      BY <1>1, <1>n, <1>5, <2>0, <2>4 DEF Parked
    <3>2. Element(shp, x, y) = m[w][v]
      BY <1>4, <2>4
    <3> HIDE DEF v, w
    <3>3. after[w][v] = m[w][v]
      BY <2>1, <3>1
    <3>4. ParkedNext(f, shp, a, x, y)
      BY <1>1, <1>n, <2>0, <2>4 DEF ParkedNext
    <3> QED BY <1>2, <3>2, <3>3, <3>4 DEF v, w
  <2>5. CASE LoadedByBlocks(a, x, y) /\ ~LoadedAt(a, x, y) /\ ~Parked(f, shp, a, x, y)
    <3>1. ~(x \in {a.j + a.k, a.j + a.k + 4} /\ y \in a.i..(a.i + 3))
      BY <1>1, <1>n, <2>0, <2>5 DEF LoadedByBlocks, LoadedAt
    <3>2. after[y][x] = m[y][x]
      BY <2>1, <3>1
    <3>3. ~ParkedNext(f, shp, a, x, y)
      BY <1>1, <1>n, <2>0, <2>5 DEF ParkedNext, LoadedAt
    <3> QED BY <1>2, <1>4, <2>5, <3>2, <3>3
  <2> QED BY <1>3, <2>2, <2>3, <2>4, <2>5
<1>7. CASE a.k \in 4..7 /\ Unparks(shp, m, after, a.i, a.j, a.k)
  <2>0. a.k \in 4..7 /\ a.k \in Int
    BY <1>1, <1>7
  <2>1. ASSUME NEW v \in 0..63, NEW w \in 0..63
        PROVE  /\ w = a.i + a.k - 4 /\ v \in (a.j + 4)..(a.j + 7) => after[w][v] = Element(shp, v, w)
               /\ w = a.i + a.k /\ v \in a.j..(a.j + 3) => after[w][v] = m[w - 4][v + 4]
               /\ ~(w = a.i + a.k - 4 /\ v \in (a.j + 4)..(a.j + 7))
                     /\ ~(w = a.i + a.k /\ v \in a.j..(a.j + 3)) => after[w][v] = m[w][v]
    BY <1>r, <1>7 DEF Unparks
  <2>2. CASE LoadedAt(a, x, y)
    <3>1. y = a.i + a.k - 4 /\ x \in (a.j + 4)..(a.j + 7)
      BY <1>1, <1>n, <2>0, <2>2 DEF LoadedAt
    <3>2. after[y][x] = Element(shp, x, y)
      BY <2>1, <3>1
    <3>3. ~ParkedNext(f, shp, a, x, y)
      BY <1>1, <1>n, <2>0, <3>1 DEF ParkedNext, Parked
    <3> QED BY <1>2, <3>2, <3>3
  <2>3. CASE LoadedByBlocks(a, x, y) /\ ~LoadedAt(a, x, y) /\ Parked(f, shp, a, x, y) /\ y = a.i + a.k
    <3>1. x \in a.j..(a.j + 3)
      BY <2>3 DEF Parked
    <3>2. after[y][x] = m[y - 4][x + 4]
      BY <2>1, <2>3, <3>1
    <3>3. ~ParkedNext(f, shp, a, x, y)
      BY <1>1, <1>n, <2>0, <2>3 DEF ParkedNext
    <3> QED BY <1>2, <1>4, <2>3, <3>2, <3>3
  <2>4. CASE LoadedByBlocks(a, x, y) /\ ~LoadedAt(a, x, y) /\ Parked(f, shp, a, x, y) /\ y # a.i + a.k
    <3> DEFINE v == x + 4
               w == y - 4
    <3>1. v \in 0..63 /\ w \in 0..63 /\ w # a.i + a.k - 4 /\ w # a.i + a.k
      BY <1>1, <1>n, <1>5, <2>0, <2>4 DEF Parked
    <3>2. Element(shp, x, y) = m[w][v]
      BY <1>4, <2>4
    <3> HIDE DEF v, w
    <3>3. after[w][v] = m[w][v]
      BY <2>1, <3>1
    <3>4. ParkedNext(f, shp, a, x, y)
      BY <1>1, <1>n, <2>0, <2>4 DEF ParkedNext
    <3> QED BY <1>2, <3>2, <3>3, <3>4 DEF v, w
  <2>5. CASE LoadedByBlocks(a, x, y) /\ ~LoadedAt(a, x, y) /\ ~Parked(f, shp, a, x, y)
    <3>1. ~(y = a.i + a.k - 4 /\ x \in (a.j + 4)..(a.j + 7))
      BY <1>1, <1>n, <2>0, <2>5 DEF LoadedAt
    <3>2. ~(y = a.i + a.k /\ x \in a.j..(a.j + 3))
      <4> SUFFICES ASSUME y = a.i + a.k, x \in a.j..(a.j + 3) PROVE Parked(f, shp, a, x, y)
        BY <2>5
      <4>1. y \in (a.i + 4)..(a.i + 7) /\ x < a.j + a.k /\ y >= a.i + a.k
        BY <1>1, <1>n, <2>0
      <4> QED BY <4>1 DEF Parked
    <3>3. after[y][x] = m[y][x]
      BY <2>1, <3>1, <3>2
    <3>4. ~ParkedNext(f, shp, a, x, y)
      BY <1>1, <1>n, <2>0, <2>5 DEF ParkedNext
    <3> QED BY <1>2, <1>4, <2>5, <3>3, <3>4
  <2> QED BY <1>3, <2>2, <2>3, <2>4, <2>5
<1>8. CASE a.k \in 8..11 /\ Fills(shp, m, after, (a.j + 4)..(a.j + 7), {a.i + a.k - 4})
  <2>0. a.k \in 8..11 /\ a.k \in Int
    BY <1>1, <1>8
  <2>1. after[y][x] = IF x \in (a.j + 4)..(a.j + 7) /\ y = a.i + a.k - 4 THEN Element(shp, x, y) ELSE m[y][x]
    BY <1>r, <1>8 DEF Fills
  <2>2. ~Parked(f, shp, a, x, y) /\ ~ParkedNext(f, shp, a, x, y)
    BY <1>1, <1>n, <2>0 DEF Parked, ParkedNext
  <2>3. LoadedAt(a, x, y) <=> x \in (a.j + 4)..(a.j + 7) /\ y = a.i + a.k - 4
    BY <1>1, <1>n, <2>0 DEF LoadedAt
  <2> QED BY <1>2, <1>3, <1>4, <2>1, <2>2, <2>3
<1> QED BY <1>6, <1>7, <1>8 DEF Effect64

\* So an iteration of the 64 by 64 transpose keeps what is loaded in place or parked.
LEMMA BlockStep ==
    ASSUME NEW f \in Functions, NEW shp \in Sizes, ~ByRows(f, shp),
           NEW a, AtOK(f, shp, a), a.i < shp.N, NEW m \in Matrices(shp), InPlace(f, shp, a, m)
    PROVE  StepTakes(f, shp, a, Advance(f, shp, a), Body(f, shp, a),
                  Performed(shp, m, Body(f, shp, a)))
<1> DEFINE b == Advance(f, shp, a)
           q == Body(f, shp, a)
           after == Performed(shp, m, q)
           X == IF a.k < 4 THEN {a.j + a.k} ELSE (a.j + 4)..(a.j + 7)
           Y == IF a.k < 4 THEN a.i..(a.i + 7) ELSE {a.i + a.k - 4}
<1>1. /\ shp.M = 64 /\ shp.N = 64 /\ f = "transpose_submit" /\ shp = Square(64)
      /\ a.i \in Nat /\ a.j \in Nat /\ a.k \in 0..11 /\ a.k \in Nat
      /\ a.i + 8 <= 64 /\ a.j + 8 <= 64
  BY BlockBounds
<1>2. q = Body64(a.i, a.j, a.k)
  <2>1. f # "trans" /\ Square(64) # Square(32)
    BY <1>1 DEF Square
  <2> QED BY <1>1, <2>1 DEF Body
<1>3. shp \in Shape
  BY DEF Sizes, Shape
<1>4. a.i + 8 <= shp.M /\ a.j + 8 <= shp.N
  BY <1>1
<1> HIDE DEF q
<1>5. Takes(shp, m, q, after, X, Y) /\ Effect64(shp, m, after, a)
  <2>1. CASE a.k \in 0..3
    <3>1. PICK p : /\ Takes(shp, m, Body64(a.i, a.j, a.k), p, {a.j + a.k}, a.i..(a.i + 7))
                   /\ Parks(shp, m, p, a.i, a.j, a.k)
      BY <1>1, <1>3, <1>4, <2>1, ParkingEffect
    <3>2. X = {a.j + a.k} /\ Y = a.i..(a.i + 7)
      BY <2>1
    <3> HIDE DEF X, Y
    <3>3. Takes(shp, m, q, p, X, Y)
      BY <1>2, <3>1, <3>2
    <3>4. p = after
      BY <3>3 DEF Takes
    <3> QED BY <2>1, <3>1, <3>3, <3>4 DEF Effect64
  <2>2. CASE a.k \in 4..7
    <3>1. PICK p : /\ Takes(shp, m, Body64(a.i, a.j, a.k), p, (a.j + 4)..(a.j + 7), {a.i + a.k - 4})
                   /\ Unparks(shp, m, p, a.i, a.j, a.k)
      BY <1>1, <1>3, <1>4, <2>2, UnparkingEffect
    <3>2. X = (a.j + 4)..(a.j + 7) /\ Y = {a.i + a.k - 4}
      BY <2>2
    <3> HIDE DEF X, Y
    <3>3. Takes(shp, m, q, p, X, Y)
      BY <1>2, <3>1, <3>2
    <3>4. p = after
      BY <3>3 DEF Takes
    <3> QED BY <2>2, <3>1, <3>3, <3>4 DEF Effect64
  <2>3. CASE a.k \in 8..11
    <3>1. Copies(shp, m, Body64(a.i, a.j, a.k), (a.j + 4)..(a.j + 7), {a.i + a.k - 4})
      BY <1>1, <1>3, <1>4, <2>3, LastQuarterCopies
    <3>2. X = (a.j + 4)..(a.j + 7) /\ Y = {a.i + a.k - 4}
      BY <2>3
    <3>3. PICK p : /\ Takes(shp, m, q, p, X, Y)
                   /\ Fills(shp, m, p, (a.j + 4)..(a.j + 7), {a.i + a.k - 4})
      <4> HIDE DEF X, Y
      <4> QED BY <1>2, <3>1, <3>2 DEF Copies
    <3> HIDE DEF X, Y
    <3>4. p = after
      BY <3>3 DEF Takes
    <3> QED BY <2>3, <3>3, <3>4 DEF Effect64
  <2> QED BY <1>1, <2>1, <2>2, <2>3
<1> HIDE DEF after, b
<1>6. InPlace(f, shp, b, after)
  BY <1>5, BlockEffect DEF b
<1>7. ASSUME NEW x \in 0..(shp.N - 1), NEW y \in 0..(shp.M - 1)
      PROVE  /\ Loaded(f, shp, b, x, y) <=> Loaded(f, shp, a, x, y) \/ LoadedAt(a, x, y)
  BY BlocksLoaded DEF Loaded, b
<1>8. /\ \A n \in DOMAIN q :
            Proper(shp, q[n]) /\ (q[n].matrix = "A" => q[n].x \in X /\ q[n].y \in Y)
      /\ after \in Matrices(shp)
  <2> HIDE DEF X, Y
  <2> QED BY <1>5 DEF Takes
<1>9. ASSUME NEW x \in X, NEW y \in Y PROVE LoadedAt(a, x, y)
  <2>1. CASE a.k < 4
    BY <1>1, <2>1 DEF LoadedAt
  <2>2. CASE ~(a.k < 4)
    BY <1>1, <2>2 DEF LoadedAt
  <2> QED BY <2>1, <2>2
<1> HIDE DEF X, Y
<1>10. ASSUME NEW n \in DOMAIN q, q[n].matrix = "A" PROVE Loaded(f, shp, b, q[n].x, q[n].y)
  <2>1. q[n].x \in 0..(shp.N - 1) /\ q[n].y \in 0..(shp.M - 1)
    BY <1>8, <1>10 DEF Proper, Inside
  <2> QED BY <1>7, <1>8, <1>9, <1>10, <2>1
<1>11. StepTakes(f, shp, a, b, q, after)
  BY <1>6, <1>7, <1>8, <1>10 DEF StepTakes
<1> QED BY <1>11 DEF b, q, after

\* One iteration of any of the transposes.
LEMMA Iteration ==
    ASSUME NEW f \in Functions, NEW shp \in Sizes, NEW a, AtOK(f, shp, a), a.i < shp.N,
           NEW m \in Matrices(shp), InPlace(f, shp, a, m)
    PROVE  StepTakes(f, shp, a, Advance(f, shp, a), Body(f, shp, a),
                  Performed(shp, m, Body(f, shp, a)))
<1> QED BY RowStep, BlockStep

\* Nothing has been loaded in the beginning, and all at the end.
LEMMA NothingLoaded ==
    ASSUME NEW f \in Functions, NEW shp \in Sizes, f = "trans" \/ shp \in Known,
           NEW x \in 0..(shp.N - 1), NEW y \in 0..(shp.M - 1)
    PROVE  ~Loaded(f, shp, Begin(f, shp), x, y)
<1> DEFINE a == Begin(f, shp)
           l == Loops(f, shp)
<1>1. a = [i |-> 0, j |-> 0, k |-> 0]
  BY DEF Begin
<1>2. a.i = 0 /\ a.j = 0 /\ a.k = 0
  BY <1>1
<1>3. l.di \in Int /\ l.dj \in Int
  <2>1. LoopsOK(f, shp, l)
    BY LoopsRange
  <2> HIDE DEF l
  <2> QED BY <2>1 DEF LoopsOK
<1>4. x \in Int /\ y \in Int /\ x >= 0 /\ y >= 0
  BY DEF Sizes
<1> HIDE DEF a, l
<1>5. ~LoadedByRows(l, a, x, y)
  BY <1>2, <1>3, <1>4 DEF LoadedByRows
<1>6. ~LoadedByBlocks(a, x, y)
  BY <1>2, <1>4 DEF LoadedByBlocks
<1> QED BY <1>5, <1>6 DEF Loaded, a, l

\* Behind the last iteration all of A is loaded and nothing is parked.
LEMMA AllLoaded ==
    ASSUME NEW f \in Functions, NEW shp \in Sizes, NEW a, AtOK(f, shp, a), a.i = shp.N,
           NEW m, InPlace(f, shp, a, m)
    PROVE  is_transpose(shp, m)
<1>1. shp.M \in Int /\ shp.N \in Int
  BY DEF Sizes
<1> SUFFICES ASSUME NEW x \in 0..(shp.N - 1), NEW y \in 0..(shp.M - 1)
             PROVE  Element(shp, x, y) = m[y][x]
  BY DEF is_transpose
<1>2. Loaded(f, shp, a, x, y) /\ ~Parked(f, shp, a, x, y)
  <2>1. CASE ByRows(f, shp)
    <3>1. x < a.i
      BY <1>1
    <3> QED BY <2>1, <3>1 DEF Loaded, LoadedByRows, Parked
  <2>2. CASE ~ByRows(f, shp)
    <3>1. shp.M = 64 /\ shp.N = 64
      BY <2>2 DEF ByRows, Square
    <3>2. y < a.i /\ y \notin (a.i + 4)..(a.i + 7)
      BY <1>1, <3>1
    <3> QED BY <2>2, <3>2 DEF Loaded, LoadedByBlocks, Parked
  <2> QED BY <2>1, <2>2
<1> QED BY <1>2 DEF InPlace

----------------------------------------------------------------------------
\* The evaluation

\* The functions in the order of their registration.
FunctionAt(f) == IF f = 1 THEN "transpose_submit" ELSE "trans"

\* The functions whose verdict should be "correct".
Right(f, shp) == f = 2 \/ shp \in Known

\* The list of functions has an entry for each.
FuncListOK(l) ==
    /\ l = [f \in 1..2 |-> l[f]] /\ Len(l) = 2
    /\ \A f \in 1..2 : /\ l[f].function = FunctionAt(f)
                       /\ {"function", "correct", "num_misses"} \subseteq DOMAIN l[f]

\* What is read are elements that have been loaded.
ReadOK(f, shp, a, r) ==
    \A e \in r : \E x \in 0..(shp.N - 1), y \in 0..(shp.M - 1) :
        Loaded(f, shp, a, x, y) /\ e = Element(shp, x, y)

\* A function that is right has all that it has loaded in its place; the other does
\* nothing, and the matrix is as it was.
RunOK ==
    /\ AtOK(FunctionAt(fn), shape, at)
    /\ Right(fn, shape) => /\ InPlace(FunctionAt(fn), shape, at, B)
                           /\ ReadOK(FunctionAt(fn), shape, at, read)
    /\ ~Right(fn, shape) => at.i = shape.N /\ read = {}

\* The functions evaluated so far have their verdict, the others have none.
VerdictsOK ==
    \A f \in 1..2 :
        /\ f < fn \/ (f = fn /\ pc = "collect") => (func_list[f].correct = 1 <=> Right(f, shape))
        /\ f > fn \/ (f = fn /\ pc \in {"launch", "run", "validate"}) => func_list[f].correct # 1

\* The results at the end.
Judged ==
    \/ output = [correct |-> 0, misses |-> 0]
    \/ tool = "tracegen" /\ output.correct = IF shape \in Known THEN 0 ELSE 1
    \/ tool = "test-trans" /\ \A f \in 1..2 : func_list[f].correct = 1 <=> Right(f, shape)

\* The inductive invariant.
Inv ==
    /\ tool \in {"test-trans", "tracegen"} /\ shape \in Sizes
    /\ pc \in {"launch", "run", "validate", "collect", "done"} /\ fn \in 1..2
    /\ FuncListOK(func_list)
    /\ B \in Matrices(shape)
    /\ at \in [i : 0..shape.N, j : 0..(shape.M - 1), k : 0..15]
    /\ ~Right(fn, shape) => B = initMatrix
    /\ pc = "run" => RunOK
    /\ pc = "validate" => (is_transpose(shape, B) <=> Right(fn, shape))
    /\ pc = "collect" => Right(fn, shape) /\ tool = "test-trans"
    /\ tool = "test-trans" /\ pc # "done" => VerdictsOK
    /\ tool = "tracegen" /\ fn = 2 => shape \in Known
    /\ pc = "done" => Judged

\* The sizes tried are such sizes.
LEMMA ShapesAreSizes == Shapes \subseteq Sizes
<1>1. OtherSizes \subseteq 1..256
  BY SizesAssumption
<1>2. Known \subseteq Sizes
  BY DEF Known, Sizes, Square
<1>3. [M : OtherSizes, N : OtherSizes] \subseteq Sizes
  BY <1>1 DEF Sizes
<1> QED BY <1>2, <1>3 DEF Shapes

\* What has two places is of length two.
LEMMA PairLength ==
    ASSUME NEW l, l = [g \in 1..2 |-> l[g]]
    PROVE  Len(l) = 2
<1>1. l \in [1..2 -> {l[1], l[2]}]
  <2>1. \A g \in 1..2 : g = 1 \/ g = 2
    OBVIOUS
  <2>2. \A g \in 1..2 : l[g] \in {l[1], l[2]}
    BY <2>1
  <2> DEFINE S == {l[1], l[2]}
  <2>3. \A g \in 1..2 : l[g] \in S
    BY <2>2
  <2> HIDE DEF S
  <2>4. l \in [1..2 -> S]
    BY <2>3
  <2> QED BY <2>4 DEF S
<1>2. \A S : l \in [1..2 -> S] => Len(l) = 2
  OBVIOUS
<1> QED BY <1>1, <1>2

\* A verdict is noted, or a number of misses, and nothing else changes in the list.
Noted(l, l1, f, v) ==
    /\ FuncListOK(l1) /\ l1[f].correct = v
    /\ \A g \in 1..2 : g # f => l1[g].correct = l[g].correct

\* A verdict is noted for the function that got it alone.
LEMMA FuncListUpdate ==
    ASSUME NEW l, FuncListOK(l), NEW f \in 1..2, NEW v
    PROVE  Noted(l, [l EXCEPT ![f].correct = v], f, v)
<1> DEFINE l1 == [l EXCEPT ![f].correct = v]
<1>1. DOMAIN l = 1..2 /\ l = [g \in 1..2 |-> l[g]]
  BY DEF FuncListOK
<1>2. l1 = [g \in 1..2 |-> IF g = f THEN [l[g] EXCEPT !.correct = v] ELSE l[g]]
  BY <1>1
<1> HIDE DEF l1
<1>3. l1 = [g \in 1..2 |-> l1[g]] /\ Len(l1) = 2
  <2>1. l1 = [g \in 1..2 |-> l1[g]] /\ DOMAIN l1 = 1..2
    BY <1>2
  <2> QED BY <2>1, PairLength
<1>4. l1[f] = [l[f] EXCEPT !.correct = v] /\ \A g \in 1..2 : g # f => l1[g] = l[g]
  BY <1>2
<1>5. /\ {"function", "correct", "num_misses"} \subseteq DOMAIN l[f]
      /\ l[f].function = FunctionAt(f)
  BY DEF FuncListOK
<1>6. /\ l1[f].correct = v /\ l1[f].function = l[f].function
      /\ {"function", "correct", "num_misses"} \subseteq DOMAIN l1[f]
  BY <1>4, <1>5
<1>7. FuncListOK(l1)
  <2>1. ASSUME NEW g \in 1..2
        PROVE  /\ l1[g].function = FunctionAt(g)
               /\ {"function", "correct", "num_misses"} \subseteq DOMAIN l1[g]
    <3>1. CASE g = f
      BY <1>5, <1>6, <3>1
    <3>2. CASE g # f
      BY <1>4, <3>2 DEF FuncListOK
    <3> QED BY <3>1, <3>2
  <2> QED BY <1>3, <2>1 DEF FuncListOK
<1> QED BY <1>4, <1>6, <1>7 DEF Noted, l1

\* The list keeps its entries and their verdicts.
Counted(l, l1) == FuncListOK(l1) /\ \A g \in 1..2 : l1[g].correct = l[g].correct

\* The misses of a function are noted without touching a verdict.
LEMMA FuncListCount ==
    ASSUME NEW l, FuncListOK(l), NEW f \in 1..2, NEW v
    PROVE  Counted(l, [l EXCEPT ![f].num_misses = v])
<1> DEFINE l1 == [l EXCEPT ![f].num_misses = v]
<1>1. DOMAIN l = 1..2 /\ l = [g \in 1..2 |-> l[g]]
  BY DEF FuncListOK
<1>2. l1 = [g \in 1..2 |-> IF g = f THEN [l[g] EXCEPT !.num_misses = v] ELSE l[g]]
  BY <1>1
<1> HIDE DEF l1
<1>3. l1 = [g \in 1..2 |-> l1[g]] /\ Len(l1) = 2
  <2>1. l1 = [g \in 1..2 |-> l1[g]] /\ DOMAIN l1 = 1..2
    BY <1>2
  <2> QED BY <2>1, PairLength
<1>4. l1[f] = [l[f] EXCEPT !.num_misses = v] /\ \A g \in 1..2 : g # f => l1[g] = l[g]
  BY <1>2
<1>5. /\ {"function", "correct", "num_misses"} \subseteq DOMAIN l[f]
      /\ l[f].function = FunctionAt(f)
  BY DEF FuncListOK
<1>6. /\ l1[f].correct = l[f].correct /\ l1[f].function = l[f].function
      /\ {"function", "correct", "num_misses"} \subseteq DOMAIN l1[f]
  BY <1>4, <1>5
<1>7. FuncListOK(l1)
  <2>1. ASSUME NEW g \in 1..2
        PROVE  /\ l1[g].function = FunctionAt(g)
               /\ {"function", "correct", "num_misses"} \subseteq DOMAIN l1[g]
    <3>1. CASE g = f
      BY <1>5, <1>6, <3>1
    <3>2. CASE g # f
      BY <1>4, <3>2 DEF FuncListOK
    <3> QED BY <3>1, <3>2
  <2> QED BY <1>3, <2>1 DEF FuncListOK
<1> QED BY <1>4, <1>6, <1>7 DEF Counted, l1

\* B as initMatrix leaves it is no transpose of A.
LEMMA EmptyMatrix ==
    ASSUME shape \in Sizes
    PROVE  initMatrix \in Matrices(shape) /\ ~is_transpose(shape, initMatrix)
<1>1. shape.M \in Int /\ shape.N \in Int /\ shape.M >= 1 /\ shape.N >= 1 /\ shape \in Shape
  BY DEF Sizes, Shape
<1>2. 0 \in Values(shape)
  <2>1. shape.M * shape.N \in Nat
    BY <1>1
  <2> QED BY <2>1 DEF Values
<1>3. initMatrix \in Matrices(shape)
  BY <1>2 DEF initMatrix, Matrices
<1>4. 0 \in 0..(shape.N - 1) /\ 0 \in 0..(shape.M - 1)
  BY <1>1
<1>5. initMatrix[0][0] = 0
  BY <1>4 DEF initMatrix
<1>6. Element(shape, 0, 0) \in 1..(shape.M * shape.N)
  BY <1>1, <1>4, ElementRange
<1>7. Element(shape, 0, 0) # 0
  BY <1>1, <1>6
<1> QED BY <1>3, <1>4, <1>5, <1>7 DEF is_transpose

\* The invariant, from Init and through every action.
LEMMA InvInit == Init => Inv
<1> SUFFICES ASSUME Init PROVE Inv
  OBVIOUS
<1> USE DEF Init
<1>1. shape \in Sizes
  BY ShapesAreSizes
<1>2. FuncListOK(func_list) /\ \A f \in 1..2 : func_list[f].correct = 0
  <2> DEFINE e1 == [function |-> "transpose_submit", correct |-> 0, num_misses |-> 0]
             e2 == [function |-> "trans", correct |-> 0, num_misses |-> 0]
  <2>1. func_list = <<e1, e2>>
    BY DEF registerFunctions
  <2>2. /\ e1.function = "transpose_submit" /\ e1.correct = 0 /\ e2.function = "trans" /\ e2.correct = 0
        /\ {"function", "correct", "num_misses"} \subseteq DOMAIN e1
        /\ {"function", "correct", "num_misses"} \subseteq DOMAIN e2
    OBVIOUS
  <2> HIDE DEF e1, e2
  <2>3. func_list = [f \in 1..2 |-> func_list[f]] /\ Len(func_list) = 2
        /\ func_list[1] = e1 /\ func_list[2] = e2
    BY <2>1
  <2>4. \A f \in 1..2 : f = 1 \/ f = 2
    OBVIOUS
  <2> QED BY <2>2, <2>3, <2>4 DEF FuncListOK, FunctionAt
<1>3. B \in Matrices(shape) /\ B = initMatrix
  BY <1>1, EmptyMatrix
<1>4. at \in [i : 0..shape.N, j : 0..(shape.M - 1), k : 0..15]
  <2>1. AtOK("trans", shape, at)
    BY <1>1, BeginOK DEF Functions
  <2> QED BY <2>1 DEF AtOK
<1>5. VerdictsOK
  BY <1>2 DEF VerdictsOK
<1> QED BY <1>1, <1>2, <1>3, <1>4, <1>5 DEF Inv

\* The function being evaluated is the one registered.
LEMMA FunctionIs ==
    ASSUME Inv
    PROVE  /\ Function = FunctionAt(fn) /\ FunctionAt(fn) \in Functions
           /\ Right(fn, shape) <=> FunctionAt(fn) = "trans" \/ shape \in Known
           /\ DOMAIN func_list = 1..2 /\ Len(func_list) = 2
<1>1. fn \in 1..2 /\ FuncListOK(func_list)
  BY DEF Inv
<1>2. Function = FunctionAt(fn) /\ DOMAIN func_list = 1..2 /\ Len(func_list) = 2
  BY <1>1 DEF FuncListOK, Function
<1>3. fn = 1 \/ fn = 2
  BY <1>1
<1>4. FunctionAt(1) = "transpose_submit" /\ FunctionAt(2) = "trans"
  BY DEF FunctionAt
<1> QED BY <1>2, <1>3, <1>4 DEF Right, Functions

\* An iteration of a right function.
LEMMA Iterates ==
    ASSUME Inv, pc = "run", ~Finished(shape, at)
    PROVE  /\ Right(fn, shape)
           /\ StepTakes(Function, shape, at, Advance(Function, shape, at), Body(Function, shape, at),
                     Performed(shape, B, Body(Function, shape, at)))
           /\ AtOK(Function, shape, Advance(Function, shape, at))
           /\ Later(at, Advance(Function, shape, at))
<1>1. /\ Function = FunctionAt(fn) /\ Function \in Functions
      /\ RunOK /\ shape \in Sizes /\ B \in Matrices(shape)
      /\ at \in [i : 0..shape.N, j : 0..(shape.M - 1), k : 0..15]
  BY FunctionIs DEF Inv
<1>2. at.i # shape.N
  BY DEF Finished
<1>3. /\ Right(fn, shape) /\ InPlace(Function, shape, at, B) /\ AtOK(Function, shape, at)
  BY <1>1, <1>2 DEF RunOK
<1>4. at.i < shape.N
  <2>1. shape.N \in Int
    BY <1>1 DEF Sizes
  <2> QED BY <1>1, <1>2, <2>1
<1>5. StepTakes(Function, shape, at, Advance(Function, shape, at), Body(Function, shape, at),
             Performed(shape, B, Body(Function, shape, at)))
  BY <1>1, <1>3, <1>4, Iteration
<1>6. AtOK(Function, shape, Advance(Function, shape, at)) /\ Later(at, Advance(Function, shape, at))
  BY <1>1, <1>3, <1>4, AdvanceOK
<1> QED BY <1>3, <1>5, <1>6

\* A function starts with nothing loaded.
LEMMA InvLaunch == Inv /\ Launch => Inv'
<1> SUFFICES ASSUME Inv, Launch PROVE Inv'
  OBVIOUS
<1>1. /\ pc = "launch" /\ pc' = "run" /\ at' = Begin(Function, shape) /\ read' = {}
      /\ tool' = tool /\ shape' = shape /\ fn' = fn /\ func_list' = func_list
      /\ B' = initMatrix \/ B' = B
  BY DEF Launch
<1>2. /\ tool \in {"test-trans", "tracegen"} /\ shape \in Sizes /\ fn \in 1..2
      /\ FuncListOK(func_list) /\ B \in Matrices(shape)
      /\ (~Right(fn, shape) => B = initMatrix)
      /\ (tool = "test-trans" => VerdictsOK)
      /\ (tool = "tracegen" /\ fn = 2 => shape \in Known)
  BY <1>1 DEF Inv
<1>3. /\ Function = FunctionAt(fn) /\ Function \in Functions
      /\ (Right(fn, shape) <=> Function = "trans" \/ shape \in Known)
  BY FunctionIs
<1>4. initMatrix' = initMatrix
  BY <1>1 DEF initMatrix
<1>5. B' \in Matrices(shape) /\ (~Right(fn, shape) => B' = initMatrix)
  BY <1>1, <1>2, EmptyMatrix
<1>6. AtOK(Function, shape, at')
  BY <1>1, <1>2, <1>3, BeginOK
<1>7. at' \in [i : 0..shape.N, j : 0..(shape.M - 1), k : 0..15]
  BY <1>6 DEF AtOK
<1>8. RunOK'
  <2>1. ASSUME Right(fn, shape) PROVE InPlace(Function, shape, at', B')
    <3>1. \A x \in 0..(shape.N - 1), y \in 0..(shape.M - 1) : ~Loaded(Function, shape, at', x, y)
      BY <1>1, <1>2, <1>3, <2>1, NothingLoaded
    <3> QED BY <3>1 DEF InPlace
  <2>2. ReadOK(Function, shape, at', read')
    BY <1>1 DEF ReadOK
  <2>3. ASSUME ~Right(fn, shape) PROVE at'.i = shape.N
    BY <1>1, <1>3, <2>3 DEF Begin
  <2> QED BY <1>1, <1>3, <1>6, <2>1, <2>2, <2>3 DEF RunOK
<1>9. tool = "test-trans" => VerdictsOK'
  BY <1>1, <1>2 DEF VerdictsOK
<1> QED BY <1>1, <1>2, <1>4, <1>5, <1>7, <1>8, <1>9 DEF Inv

\* An iteration is what the lemmas on its accesses say.
LEMMA InvIterate == Inv /\ Iterate => Inv'
<1> SUFFICES ASSUME Inv, Iterate PROVE Inv'
  OBVIOUS
<1> DEFINE q == Body(Function, shape, at)
           b == Advance(Function, shape, at)
           f == FunctionAt(fn)
<1>1. /\ pc = "run" /\ ~Finished(shape, at) /\ at' = b /\ B' = Performed(shape, B, q)
      /\ read' = read \cup {Element(shape, q[n].x, q[n].y) :
                               n \in {n \in DOMAIN q : q[n].matrix = "A"}}
      /\ tool' = tool /\ shape' = shape /\ pc' = pc /\ fn' = fn /\ func_list' = func_list
  BY DEF Iterate
<1>2. /\ tool \in {"test-trans", "tracegen"} /\ shape \in Sizes /\ fn \in 1..2
      /\ FuncListOK(func_list) /\ RunOK
      /\ (tool = "test-trans" => VerdictsOK)
      /\ (tool = "tracegen" /\ fn = 2 => shape \in Known)
  BY <1>1 DEF Inv
<1>3. Function = f
  BY FunctionIs
<1>4. Right(fn, shape) /\ StepTakes(Function, shape, at, b, q, B') /\ AtOK(Function, shape, b)
  BY <1>1, Iterates
<1> HIDE DEF q, b, f
<1>5. /\ \A n \in DOMAIN q : /\ Proper(shape, q[n])
                             /\ q[n].matrix = "A" => Loaded(f, shape, at', q[n].x, q[n].y)
      /\ B' \in Matrices(shape) /\ InPlace(f, shape, at', B')
      /\ \A x \in 0..(shape.N - 1), y \in 0..(shape.M - 1) :
            Loaded(f, shape, at, x, y) => Loaded(f, shape, at', x, y)
  BY <1>1, <1>3, <1>4 DEF StepTakes
<1>6. ReadOK(f, shape, at', read')
  <2> SUFFICES ASSUME NEW e \in read'
               PROVE  \E x \in 0..(shape.N - 1), y \in 0..(shape.M - 1) :
                          Loaded(f, shape, at', x, y) /\ e = Element(shape, x, y)
    BY DEF ReadOK
  <2>1. CASE e \in read
    <3>1. ReadOK(f, shape, at, read)
      BY <1>2, <1>4 DEF RunOK, f
    <3> QED BY <1>5, <2>1, <3>1 DEF ReadOK
  <2>2. CASE e \notin read
    <3>1. PICK n \in DOMAIN q : q[n].matrix = "A" /\ e = Element(shape, q[n].x, q[n].y)
      BY <1>1, <2>2
    <3>2. q[n].x \in 0..(shape.N - 1) /\ q[n].y \in 0..(shape.M - 1)
      BY <1>5, <3>1 DEF Proper, Inside
    <3> QED BY <1>5, <3>1, <3>2
  <2> QED BY <2>1, <2>2
<1>7. RunOK'
  BY <1>1, <1>3, <1>4, <1>5, <1>6 DEF RunOK, f
<1>8. at' \in [i : 0..shape.N, j : 0..(shape.M - 1), k : 0..15]
  BY <1>1, <1>4 DEF AtOK
<1>9. tool = "test-trans" => VerdictsOK'
  BY <1>1, <1>2 DEF VerdictsOK
<1> QED BY <1>1, <1>2, <1>4, <1>5, <1>7, <1>8, <1>9 DEF Inv

\* A function that returns has loaded everything.
LEMMA InvReturn == Inv /\ Return => Inv'
<1> SUFFICES ASSUME Inv, Return PROVE Inv'
  OBVIOUS
<1>1. /\ pc = "run" /\ at.i = shape.N /\ pc' = "validate"
      /\ tool' = tool /\ shape' = shape /\ fn' = fn /\ at' = at /\ B' = B
      /\ func_list' = func_list
  BY DEF Return, Finished
<1>2. /\ tool \in {"test-trans", "tracegen"} /\ shape \in Sizes /\ fn \in 1..2
      /\ FuncListOK(func_list) /\ B \in Matrices(shape) /\ RunOK
      /\ (~Right(fn, shape) => B = initMatrix)
      /\ at \in [i : 0..shape.N, j : 0..(shape.M - 1), k : 0..15]
      /\ (tool = "test-trans" => VerdictsOK)
      /\ (tool = "tracegen" /\ fn = 2 => shape \in Known)
  BY <1>1 DEF Inv
<1>3. initMatrix' = initMatrix
  BY <1>1 DEF initMatrix
<1>4. is_transpose(shape, B) <=> Right(fn, shape)
  <2>1. ASSUME Right(fn, shape) PROVE is_transpose(shape, B)
    <3>1. /\ FunctionAt(fn) \in Functions /\ AtOK(FunctionAt(fn), shape, at)
          /\ InPlace(FunctionAt(fn), shape, at, B)
      BY <1>2, <2>1, FunctionIs DEF RunOK
    <3> QED BY <1>1, <1>2, <3>1, AllLoaded
  <2>2. ASSUME ~Right(fn, shape) PROVE ~is_transpose(shape, B)
    BY <1>2, <2>2, EmptyMatrix
  <2> QED BY <2>1, <2>2
<1>5. (is_transpose(shape, B) <=> Right(fn, shape))'
  <2>1. is_transpose(shape, B)' <=> is_transpose(shape, B)
    BY <1>1 DEF is_transpose, Element
  <2> QED BY <1>1, <1>4, <2>1 DEF Right
<1>6. tool = "test-trans" => VerdictsOK'
  BY <1>1, <1>2 DEF VerdictsOK
<1> QED BY <1>1, <1>2, <1>3, <1>5, <1>6 DEF Inv

\* The verdict is of this function's own matrix.
LEMMA InvValidate == Inv /\ Validate => Inv'
<1> SUFFICES ASSUME Inv, Validate PROVE Inv'
  OBVIOUS
<1>1. /\ pc = "validate" /\ tool = "test-trans"
      /\ tool' = tool /\ shape' = shape /\ at' = at /\ B' = B
  BY DEF Validate
<1>2. /\ shape \in Sizes /\ fn \in 1..2
      /\ FuncListOK(func_list) /\ B \in Matrices(shape)
      /\ (~Right(fn, shape) => B = initMatrix)
      /\ at \in [i : 0..shape.N, j : 0..(shape.M - 1), k : 0..15]
      /\ (is_transpose(shape, B) <=> Right(fn, shape))
      /\ VerdictsOK
  BY <1>1 DEF Inv
<1>3. initMatrix' = initMatrix
  BY <1>1 DEF initMatrix
<1>4. CASE is_transpose(shape, B)
  <2>1. func_list' = [func_list EXCEPT ![fn].correct = 1] /\ pc' = "collect" /\ fn' = fn
    BY <1>4 DEF Validate
  <2>2. /\ FuncListOK(func_list') /\ func_list'[fn].correct = 1
        /\ \A g \in 1..2 : g # fn => func_list'[g].correct = func_list[g].correct
    <3>1. Noted(func_list, func_list', fn, 1)
      BY <1>2, <2>1, FuncListUpdate
    <3> QED BY <3>1 DEF Noted
  <2>3. Right(fn, shape)
    BY <1>2, <1>4
  <2>4. VerdictsOK'
    BY <1>1, <1>2, <2>1, <2>2, <2>3 DEF VerdictsOK
  <2> QED BY <1>1, <1>2, <1>3, <2>1, <2>2, <2>3, <2>4 DEF Inv
<1>5. CASE ~is_transpose(shape, B)
  <2>1. func_list' = func_list /\ NextFunction
    BY <1>5 DEF Validate
  <2>2. fn = 1 /\ ~Right(fn, shape)
    BY <1>2, <1>5 DEF Right
  <2>3. fn < Len(func_list)
    BY <2>2, FunctionIs
  <2>4. fn' = 2 /\ pc' = "launch"
    BY <2>1, <2>2, <2>3 DEF NextFunction
  <2>5. VerdictsOK'
    BY <1>1, <1>2, <2>1, <2>2, <2>4 DEF VerdictsOK
  <2>6. Right(2, shape)
    BY DEF Right
  <2> QED BY <1>1, <1>2, <1>3, <2>1, <2>4, <2>5, <2>6 DEF Inv
<1> QED BY <1>4, <1>5

\* tracegen judges the one matrix that all its functions write.
LEMMA InvValidateAll == Inv /\ ValidateAll => Inv'
<1> SUFFICES ASSUME Inv, ValidateAll PROVE Inv'
  OBVIOUS
<1>1. /\ pc = "validate" /\ tool = "tracegen"
      /\ tool' = tool /\ shape' = shape /\ at' = at /\ B' = B /\ func_list' = func_list
  BY DEF ValidateAll
<1>2. /\ shape \in Sizes /\ fn \in 1..2
      /\ FuncListOK(func_list) /\ B \in Matrices(shape)
      /\ (~Right(fn, shape) => B = initMatrix)
      /\ at \in [i : 0..shape.N, j : 0..(shape.M - 1), k : 0..15]
      /\ (is_transpose(shape, B) <=> Right(fn, shape))
      /\ (fn = 2 => shape \in Known)
  BY <1>1 DEF Inv
<1>3. initMatrix' = initMatrix
  BY <1>1 DEF initMatrix
<1>4. CASE ~is_transpose(shape, B)
  <2>1. fn' = fn /\ pc' = "done" /\ output' = [NONE EXCEPT !.correct = fn]
    BY <1>4 DEF ValidateAll
  <2>2. fn = 1 /\ shape \notin Known
    BY <1>2, <1>4 DEF Right
  <2>3. output'.correct = 1
    BY <2>1, <2>2 DEF NONE
  <2>4. Judged'
    BY <1>1, <2>2, <2>3 DEF Judged
  <2> QED BY <1>1, <1>2, <1>3, <2>1, <2>4 DEF Inv
<1>5. CASE is_transpose(shape, B) /\ fn = 1
  <2>1. fn < Len(func_list)
    BY <1>5, FunctionIs
  <2>2. fn' = 2 /\ pc' = "launch"
    BY <1>5, <2>1 DEF ValidateAll
  <2>3. shape \in Known
    BY <1>2, <1>5 DEF Right
  <2>4. Right(2, shape)
    BY DEF Right
  <2> QED BY <1>1, <1>2, <1>3, <2>2, <2>3, <2>4 DEF Inv
<1>6. CASE is_transpose(shape, B) /\ fn = 2
  <2>1. ~(fn < Len(func_list))
    <3>1. Len(func_list) = 2
      BY FunctionIs
    <3> QED BY <1>6, <3>1
  <2>2. fn' = fn /\ pc' = "done" /\ output' = [NONE EXCEPT !.correct = 0]
    BY <1>6, <2>1 DEF ValidateAll
  <2>3. output'.correct = 0 /\ shape \in Known
    BY <1>2, <1>6, <2>2 DEF NONE
  <2>4. Judged'
    BY <1>1, <2>3 DEF Judged
  <2> QED BY <1>1, <1>2, <1>3, <2>2, <2>4 DEF Inv
<1> QED BY <1>2, <1>4, <1>5, <1>6

\* The misses are those of a function that was right.
LEMMA InvCollect == Inv /\ Collect => Inv'
<1> SUFFICES ASSUME Inv, Collect PROVE Inv'
  OBVIOUS
<1>1. /\ pc = "collect" /\ func_list' = [func_list EXCEPT ![fn].num_misses = sim.misses]
      /\ NextFunction
      /\ tool' = tool /\ shape' = shape /\ at' = at /\ B' = B
  BY DEF Collect
<1>2. /\ tool = "test-trans" /\ shape \in Sizes /\ fn \in 1..2
      /\ FuncListOK(func_list) /\ B \in Matrices(shape)
      /\ at \in [i : 0..shape.N, j : 0..(shape.M - 1), k : 0..15]
      /\ Right(fn, shape) /\ VerdictsOK
  BY <1>1 DEF Inv
<1>3. FuncListOK(func_list') /\ \A g \in 1..2 : func_list'[g].correct = func_list[g].correct
  <2>1. Counted(func_list, func_list')
    BY <1>1, <1>2, FuncListCount
  <2> QED BY <2>1 DEF Counted
<1>4. CASE fn = 1
  <2>1. fn < Len(func_list)
    BY <1>4, FunctionIs
  <2>2. fn' = 2 /\ pc' = "launch"
    BY <1>1, <1>4, <2>1 DEF NextFunction
  <2>3. VerdictsOK'
    BY <1>1, <1>2, <1>3, <1>4, <2>2 DEF VerdictsOK
  <2>4. Right(2, shape)
    BY DEF Right
  <2> QED BY <1>1, <1>2, <1>3, <2>2, <2>3, <2>4 DEF Inv
<1>5. CASE fn = 2
  <2>1. ~(fn < Len(func_list))
    <3>1. Len(func_list) = 2
      BY FunctionIs
    <3> QED BY <1>5, <3>1
  <2>2. fn' = fn /\ pc' = "done"
    BY <1>1, <2>1 DEF NextFunction
  <2>3. \A f \in 1..2 : func_list'[f].correct = 1 <=> Right(f, shape)
    BY <1>1, <1>2, <1>3, <1>5 DEF VerdictsOK
  <2>4. Judged'
    BY <1>1, <1>2, <2>3 DEF Judged
  <2> QED BY <1>1, <1>2, <1>3, <2>2, <2>4 DEF Inv
<1> QED BY <1>2, <1>4, <1>5

\* The alarm leaves the verdicts as they are.
LEMMA InvAlarm == Inv /\ Alarm => Inv'
<1> SUFFICES ASSUME Inv, Alarm PROVE Inv'
  OBVIOUS
<1>1. /\ pc' = "done" /\ output' = [correct |-> 0, misses |-> 0]
      /\ tool' = tool /\ shape' = shape /\ fn' = fn /\ at' = at /\ B' = B /\ func_list' = func_list
  BY DEF Alarm
<1>2. Judged'
  BY <1>1 DEF Judged
<1>3. initMatrix' = initMatrix
  BY <1>1 DEF initMatrix
<1> QED BY <1>1, <1>2, <1>3 DEF Inv

\* Nothing happens.
LEMMA InvUnchanged == Inv /\ UNCHANGED vars => Inv'
<1> SUFFICES ASSUME Inv, UNCHANGED vars PROVE Inv'
  OBVIOUS
<1>1. /\ tool' = tool /\ shape' = shape /\ pc' = pc /\ fn' = fn /\ at' = at /\ B' = B
      /\ read' = read /\ func_list' = func_list /\ output' = output
  BY DEF vars
<1>2. initMatrix' = initMatrix
  BY <1>1 DEF initMatrix
<1>3. is_transpose(shape, B)' <=> is_transpose(shape, B)
  BY <1>1 DEF is_transpose, Element
<1> QED BY <1>1, <1>2, <1>3 DEF Inv, RunOK, VerdictsOK, Judged

\* One step.
LEMMA InvNext == Inv /\ [Next]_vars => Inv'
<1> QED BY InvLaunch, InvIterate, InvReturn, InvValidate, InvValidateAll, InvCollect, InvAlarm,
           InvUnchanged DEF Next, Exited

\* Every state.
LEMMA InvHolds == Spec => []Inv
<1> QED BY InvInit, InvNext, PTL DEF Spec

----------------------------------------------------------------------------
\* Theorems

\* The values in B, the function that is evaluated, and every access of test-trans
\* inside A and B: at every size, no transpose touches memory outside them.
THEOREM Typing == Spec => []TypeOK
<1>1. Inv => TypeOK
  <2> SUFFICES ASSUME Inv PROVE TypeOK
    OBVIOUS
  <2>1. /\ pc \in {"launch", "run", "validate", "collect", "done"} /\ fn \in DOMAIN func_list
        /\ B \in Matrices(shape)
    BY FunctionIs DEF Inv
  <2>2. \A x \in DOMAIN B : \A y \in DOMAIN B[x] : B[x][y] \in 0..(shape.M * shape.N)
    BY <2>1 DEF Matrices, Values
  <2>3. ASSUME pc = "run", ~Finished(shape, at), NEW n \in DOMAIN Body(Function, shape, at)
        PROVE  Inside(shape, Body(Function, shape, at)[n])
    BY <2>3, Iterates DEF StepTakes, Proper
  <2> QED BY <2>1, <2>2, <2>3 DEF TypeOK
<1> QED BY <1>1, InvHolds, PTL

\* Whatever a transpose has loaded of A is in B between two iterations, in its place or
\* where the transpose of 64 by 64 has parked it: no store loses an element.
THEOREM LosesNothing == Spec => []NothingReadIsLost
<1>1. Inv => NothingReadIsLost
  <2> SUFFICES ASSUME Inv, pc = "run", NEW e \in read
               PROVE  \E x \in DOMAIN B : \E y \in DOMAIN B[x] : e = B[x][y]
    BY DEF NothingReadIsLost
  <2>1. /\ RunOK /\ shape \in Sizes /\ B \in Matrices(shape)
        /\ at \in [i : 0..shape.N, j : 0..(shape.M - 1), k : 0..15]
    BY DEF Inv
  <2>2. Right(fn, shape)
    BY <2>1 DEF RunOK
  <2>3. InPlace(FunctionAt(fn), shape, at, B) /\ ReadOK(FunctionAt(fn), shape, at, read)
    BY <2>1, <2>2 DEF RunOK
  <2>4. PICK x \in 0..(shape.N - 1), y \in 0..(shape.M - 1) :
             Loaded(FunctionAt(fn), shape, at, x, y) /\ e = Element(shape, x, y)
    BY <2>3 DEF ReadOK
  <2>5. e = IF Parked(FunctionAt(fn), shape, at, x, y) THEN B[y - 4][x + 4] ELSE B[y][x]
    BY <2>3, <2>4 DEF InPlace
  <2>6. /\ DOMAIN B = 0..(shape.M - 1)
        /\ \A v \in 0..(shape.M - 1) : DOMAIN B[v] = 0..(shape.N - 1)
    BY <2>1 DEF Matrices
  <2>7. CASE Parked(FunctionAt(fn), shape, at, x, y)
    <3>1. y - 4 \in 0..(shape.M - 1) /\ x + 4 \in 0..(shape.N - 1)
      <4>1. shape.M = 64 /\ shape.N = 64 /\ ~ByRows(FunctionAt(fn), shape)
        BY <2>7 DEF Parked, ByRows, Square
      <4>2. at.i < shape.N
        <5>1. y < 64 /\ y >= at.i + 4 /\ at.i \in Int /\ y \in Int
          BY <2>1, <2>7, <4>1 DEF Parked
        <5> QED BY <4>1, <5>1
      <4>3. at.i \in Nat /\ at.j \in Nat /\ at.i + 8 <= 64 /\ at.j + 8 <= 64
        BY <2>1, <4>1, <4>2, FunctionIs, BlockBounds DEF RunOK
      <4>4. y \in (at.i + 4)..(at.i + 7) /\ x \in at.j..(at.j + 3)
        BY <2>7 DEF Parked
      <4> QED BY <4>1, <4>3, <4>4
    <3> QED BY <2>5, <2>6, <2>7, <3>1
  <2>8. CASE ~Parked(FunctionAt(fn), shape, at, x, y)
    BY <2>4, <2>5, <2>6, <2>8
  <2> QED BY <2>7, <2>8
<1> QED BY <1>1, InvHolds, PTL

\* Both programs come to the right verdicts at every size up to 256 by 256 that is
\* tried: trans is a transpose at all, transpose_submit at the three it knows and at
\* no other.
THEOREM RightVerdicts == Spec => []VerdictsAreRight
<1>1. Inv => VerdictsAreRight
  <2> SUFFICES ASSUME Inv, Reported PROVE VerdictsAreRight
    BY DEF VerdictsAreRight
  <2>1. Judged /\ output # [correct |-> 0, misses |-> 0] /\ tool \in {"test-trans", "tracegen"}
    BY DEF Inv, Reported
  <2>2. CASE tool = "tracegen"
    BY <2>1, <2>2 DEF VerdictsAreRight, Judged
  <2>3. CASE tool = "test-trans"
    <3>1. \A f \in 1..2 : func_list[f].correct = 1 <=> Right(f, shape)
      BY <2>1, <2>3 DEF Judged
    <3>2. ASSUME NEW f \in 1..2
          PROVE  Right(f, shape) <=> func_list[f].function = "trans" \/ shape \in Known
      <4>1. func_list[f].function = FunctionAt(f)
        BY DEF Inv, FuncListOK
      <4>2. f = 1 \/ f = 2
        OBVIOUS
      <4> QED BY <4>1, <4>2 DEF FunctionAt, Right
    <3>3. DOMAIN func_list = 1..2
      BY FunctionIs
    <3> QED BY <2>3, <3>1, <3>2, <3>3 DEF VerdictsAreRight
  <2> QED BY <2>1, <2>2, <2>3
<1> QED BY <1>1, InvHolds, PTL

\* Progress as a number of four digits of base 257, and what brings it forward.
Digit == 0..256
Weight(n, i, j, k) == ((n * 257 + i) * 257 + j) * 257 + k
Ahead(n, i, j, k, n1, i1, j1, k1) ==
    n < n1 \/ (n = n1 /\ (i < i1 \/ (i = i1 /\ (j < j1 \/ (j = j1 /\ k < k1)))))

\* Such a number grows with its leading digits.
LEMMA Lexicographic ==
    ASSUME NEW n \in Int, NEW n1 \in Int,
           NEW i \in Digit, NEW j \in Digit, NEW k \in Digit,
           NEW i1 \in Digit, NEW j1 \in Digit, NEW k1 \in Digit,
           Ahead(n, i, j, k, n1, i1, j1, k1)
    PROVE  Weight(n1, i1, j1, k1) > Weight(n, i, j, k)
<1> SUFFICES ((n1 * 257 + i1) * 257 + j1) * 257 + k1 > ((n * 257 + i) * 257 + j) * 257 + k
  BY DEF Weight
<1> USE DEF Digit
<1>1. CASE n < n1
  <2>1. n1 * 257 + i1 >= n * 257 + i + 1
    BY <1>1
  <2>2. (n1 * 257 + i1) * 257 + j1 >= (n * 257 + i) * 257 + j + 1
    BY <2>1
  <2> QED BY <2>2
<1>2. CASE n = n1 /\ i < i1
  <2>1. (n1 * 257 + i1) * 257 + j1 >= (n * 257 + i) * 257 + j + 1
    BY <1>2
  <2> QED BY <2>1
<1>3. CASE n = n1 /\ i = i1 /\ j < j1
  BY <1>3
<1>4. CASE n = n1 /\ i = i1 /\ j = j1 /\ k < k1
  BY <1>4
<1> QED BY <1>1, <1>2, <1>3, <1>4 DEF Ahead

\* The digits of Progress: the position in the evaluation, and the iteration.
Position == fn * 5 + Stage
Digits == at.i \in Digit /\ at.j \in Digit /\ at.k \in Digit /\ Position \in Int

\* They are digits in every state.
LEMMA DigitsHold == Inv => Digits
<1> SUFFICES ASSUME Inv
             PROVE  Digits
  OBVIOUS
<1>1. /\ at \in [i : 0..shape.N, j : 0..(shape.M - 1), k : 0..15]
      /\ shape.N \in 1..256 /\ shape.M \in 1..256 /\ shape.N \in Int /\ shape.M \in Int
      /\ pc \in {"launch", "run", "validate", "collect", "done"} /\ fn \in 1..2
  BY DEF Inv, Sizes
<1>2. Stage \in 0..4
  BY <1>1 DEF Stage
<1>3. at.i \in 0..shape.N /\ at.j \in 0..(shape.M - 1) /\ at.k \in 0..15
  BY <1>1
<1> DEFINE i == at.i
           j == at.j
           k == at.k
           M == shape.M
           N == shape.N
<1>4. /\ i \in 0..N /\ j \in 0..(M - 1) /\ k \in 0..15
      /\ M \in Int /\ N \in Int /\ M <= 256 /\ N <= 256
  BY <1>1, <1>3
<1> HIDE DEF i, j, k, M, N
<1>5. i \in Digit /\ j \in Digit /\ k \in Digit
  BY <1>4 DEF Digit
<1>6. Position \in Int
  BY <1>1, <1>2 DEF Position
<1> QED BY <1>5, <1>6 DEF Digits, i, j, k

\* Every step that changes anything brings the evaluation forward, at every size: it
\* repeats no function, no iteration and no stage.
THEOREM Advancing == Spec => StepsAdvance
<1>1. Inv /\ Inv' => Digits /\ Digits'
  BY DigitsHold, PTL
<1>2. ASSUME Inv, Inv',
             \/ Position < Position'
             \/ Position = Position' /\ Later(at, at')
      PROVE  Progress' > Progress
  <2>1. Digits /\ Digits'
    BY <1>1, <1>2
  <2>2. /\ Progress = Weight(Position, at.i, at.j, at.k)
        /\ Progress' = Weight(Position', at'.i, at'.j, at'.k)
    BY DEF Progress, Weight, Position
  <2>3. Ahead(Position, at.i, at.j, at.k, Position', at'.i, at'.j, at'.k)
    BY <1>2 DEF Later, Ahead
  <2>4. Weight(Position', at'.i, at'.j, at'.k) > Weight(Position, at.i, at.j, at.k)
    <3>1. /\ at.i \in Digit /\ at.j \in Digit /\ at.k \in Digit /\ Position \in Int
          /\ at'.i \in Digit /\ at'.j \in Digit /\ at'.k \in Digit /\ Position' \in Int
      BY <2>1 DEF Digits, Digit
    <3> QED BY <2>3, <3>1, Lexicographic
  <2> QED BY <2>2, <2>4
<1>3. ASSUME Inv, Next, ~UNCHANGED vars
      PROVE  Position < Position' \/ (Position = Position' /\ Later(at, at'))
  <2>1. fn \in Int /\ Len(func_list) = 2 /\ fn \in 1..2
        /\ pc \in {"launch", "run", "validate", "collect", "done"}
    BY <1>3, FunctionIs DEF Inv
  <2>2. CASE Launch
    <3>1. Stage = 0 /\ Stage' = 1 /\ fn' = fn
      BY <2>2 DEF Launch, Stage
    <3> QED BY <2>1, <3>1 DEF Position
  <2>3. CASE Iterate
    <3>1. Stage' = Stage /\ fn' = fn /\ at' = Advance(Function, shape, at)
      BY <2>3 DEF Iterate, Stage
    <3>2. Later(at, at')
      BY <1>3, <2>3, <3>1, Iterates DEF Iterate
    <3>3. Position' = Position
      BY <3>1 DEF Position
    <3> QED BY <3>2, <3>3
  <2>4. CASE Return
    <3>1. Stage = 1 /\ Stage' = 2 /\ fn' = fn
      BY <2>4 DEF Return, Stage
    <3> QED BY <2>1, <3>1 DEF Position
  <2>5. ASSUME NextFunction, Stage \in {2, 3} PROVE Position < Position'
    <3>1. CASE fn < Len(func_list)
      <4>1. Stage' = 0 /\ fn' = fn + 1
        BY <2>5, <3>1 DEF NextFunction, Stage
      <4> QED BY <2>1, <2>5, <4>1 DEF Position
    <3>2. CASE ~(fn < Len(func_list))
      <4>1. Stage' = 4 /\ fn' = fn
        BY <2>5, <3>2 DEF NextFunction, Stage
      <4> QED BY <2>1, <2>5, <4>1 DEF Position
    <3> QED BY <3>1, <3>2
  <2>6. CASE Validate
    <3>1. Stage = 2
      BY <2>6 DEF Validate, Stage
    <3>2. CASE is_transpose(shape, B)
      <4>1. Stage' = 3 /\ fn' = fn
        BY <2>6, <3>2 DEF Validate, Stage
      <4> QED BY <2>1, <3>1, <4>1 DEF Position
    <3>3. CASE ~is_transpose(shape, B)
      BY <2>5, <2>6, <3>1, <3>3 DEF Validate
    <3> QED BY <3>2, <3>3
  <2>7. CASE ValidateAll
    <3>1. Stage = 2
      BY <2>7 DEF ValidateAll, Stage
    <3>2. (fn' = fn /\ Stage' = 4) \/ (fn' = fn + 1 /\ Stage' = 0)
      BY <2>7 DEF ValidateAll, Stage
    <3> QED BY <2>1, <3>1, <3>2 DEF Position
  <2>8. CASE Collect
    <3>1. Stage = 3 /\ NextFunction
      BY <2>8 DEF Collect, Stage
    <3> QED BY <2>5, <3>1
  <2>9. CASE Alarm
    <3>1. Stage' = 4 /\ fn' = fn
      BY <2>9 DEF Alarm, Stage
    <3>2. Stage \in 0..3
      BY <2>1, <2>9 DEF Alarm, Stage
    <3> QED BY <2>1, <3>1, <3>2 DEF Position
  <2> QED BY <1>3, <2>2, <2>3, <2>4, <2>6, <2>7, <2>8, <2>9 DEF Next, Exited
<1>4. Inv /\ Inv' /\ [Next]_vars => [Progress' > Progress]_vars
  BY <1>2, <1>3
<1> QED BY <1>4, InvHolds, PTL DEF Spec, StepsAdvance
=============================================================================
