-------------------------- MODULE SegregatedLemmas --------------------------
(* What the routines of module SegregatedList do to a heap: which words they *)
(* write, how they change the free lists, and how they take a tiling of the *)
(* heap to another one.                                                     *)
EXTENDS SegregatedList, Scans

----------------------------------------------------------------------------
\* Heaps

HeapWords(brk) == {WSIZE * i : i \in 0..(brk \div WSIZE - 1)}

Lists == 0..(LISTLIMIT - 1)

IsHeap(h) ==
    /\ h \in [mem : [HeapWords(h.brk) -> Int], brk : Nat, lists : [Lists -> Int]]
    /\ h.brk % 8 = 0

\* The heap g has the words of the heap h, but for those in W.
Differ(h, g, W) ==
    /\ IsHeap(g) /\ g.brk = h.brk /\ DOMAIN g.mem = DOMAIN h.mem
    /\ \A a \in DOMAIN h.mem : a \notin W => g.mem[a] = h.mem[a]

\* Sums and differences of multiples of 8 are multiples of 8.
LEMMA EightsAdd ==
    ASSUME NEW x \in Int, x % 8 = 0, NEW y \in Int, y % 8 = 0
    PROVE  (x + y) % 8 = 0 /\ (x - y) % 8 = 0
  OBVIOUS

\* A block starts at a multiple of 8: its header is at none ...
LEMMA HeaderIsAligned ==
    ASSUME NEW x \in Int, x % 8 = 0
    PROVE  (x - 4) % 4 = 0 /\ (x - 4) % 8 = 4 /\ (x + 4) % 4 = 0 /\ (x + 4) % 8 = 4
  OBVIOUS

\* ... its footer and its first link are at one ...
LEMMA FooterIsAligned ==
    ASSUME NEW x \in Int, x % 8 = 0
    PROVE  (x - 8) % 4 = 0 /\ (x - 8) % 8 = 0 /\ x % 4 = 0
  OBVIOUS

\* ... and there is room for both tags.
LEMMA EightsApart ==
    ASSUME NEW x \in Int, x % 8 = 0, NEW y \in Int, y % 8 = 0, x < y
    PROVE  x + 8 <= y
  OBVIOUS

\* The words of a heap are at the multiples of 4 below its end.
LEMMA HeapWordsAre ==
    ASSUME NEW brk \in Nat, brk % 8 = 0
    PROVE  \A a \in Int : a \in HeapWords(brk) <=> a % 4 = 0 /\ 0 <= a /\ a < brk
<1>1. brk \div 4 \in Int /\ 4 * (brk \div 4) = brk
  OBVIOUS
<1>2. ASSUME NEW a \in Int, a % 4 = 0, 0 <= a, a < brk PROVE a \in HeapWords(brk)
  <2>1. a \div 4 \in 0..(brk \div 4 - 1) /\ a = 4 * (a \div 4)
    BY <1>1, <1>2
  <2> QED BY <2>1 DEF HeapWords, WSIZE
<1>3. ASSUME NEW a \in HeapWords(brk) PROVE a % 4 = 0 /\ 0 <= a /\ a < brk
  <2>1. PICK i \in 0..(brk \div 4 - 1) : a = 4 * i
    BY DEF HeapWords, WSIZE
  <2> QED BY <1>1, <2>1
<1> QED BY <1>2, <1>3

\* What is in a heap.
LEMMA HeapHas ==
    ASSUME NEW h, IsHeap(h)
    PROVE  /\ h.brk \in Nat /\ h.brk % 8 = 0
           /\ DOMAIN h.mem = HeapWords(h.brk)
           /\ \A a \in DOMAIN h.mem : h.mem[a] \in Int /\ a \in Int
           /\ \A a \in Int : a \in DOMAIN h.mem <=> a % 4 = 0 /\ 0 <= a /\ a < h.brk
           /\ DOMAIN h.lists = Lists /\ \A c \in Lists : h.lists[c] \in Int
<1>1. h.brk \in Nat /\ h.brk % 8 = 0 /\ h.mem \in [HeapWords(h.brk) -> Int] /\ h.lists \in [Lists -> Int]
  BY DEF IsHeap
<1>2. \A a \in HeapWords(h.brk) : a \in Int
  BY DEF HeapWords, WSIZE
<1> QED BY <1>1, <1>2, HeapWordsAre

\* A heap with another memory keeps its end and its lists ...
LEMMA MemChanged ==
    ASSUME NEW h, IsHeap(h), NEW mem \in [DOMAIN h.mem -> Int]
    PROVE  LET g == [h EXCEPT !.mem = mem]
           IN  IsHeap(g) /\ g.mem = mem /\ g.brk = h.brk /\ g.lists = h.lists
<1> DEFINE M == [HeapWords(h.brk) -> Int]
           L == [Lists -> Int]
           g == [h EXCEPT !.mem = mem]
<1>1. h \in [mem : M, brk : Nat, lists : L] /\ h.brk % 8 = 0 /\ mem \in M
  BY HeapHas DEF IsHeap
<1> HIDE DEF M, L
<1>2. g \in [mem : M, brk : Nat, lists : L] /\ g.mem = mem /\ g.brk = h.brk /\ g.lists = h.lists
  BY <1>1
<1> HIDE DEF g
<1>3. IsHeap(g)
  BY <1>1, <1>2 DEF IsHeap, M, L
<1> QED BY <1>2, <1>3 DEF g

\* ... and with another head of a list its words.
LEMMA HeadChanged ==
    ASSUME NEW h, IsHeap(h), NEW c \in Lists, NEW p \in Int
    PROVE  LET g == SetHead(h, c, p)
           IN  /\ IsHeap(g) /\ g.mem = h.mem /\ g.brk = h.brk
               /\ g.lists = [h.lists EXCEPT ![c] = p]
<1> DEFINE M == [HeapWords(h.brk) -> Int]
           L == [Lists -> Int]
           lists == [h.lists EXCEPT ![c] = p]
           g == [h EXCEPT !.lists = lists]
<1>1. h \in [mem : M, brk : Nat, lists : L] /\ h.brk % 8 = 0 /\ h.lists \in L
  BY DEF IsHeap
<1>2. lists \in L
  BY <1>1
<1>3. g = SetHead(h, c, p)
  BY DEF SetHead
<1> HIDE DEF M, L, lists
<1>4. g \in [mem : M, brk : Nat, lists : L] /\ g.mem = h.mem /\ g.brk = h.brk /\ g.lists = lists
  BY <1>1, <1>2
<1> HIDE DEF g
<1>5. IsHeap(g)
  BY <1>1, <1>4 DEF IsHeap, M, L
<1> QED BY <1>3, <1>4, <1>5 DEF lists

\* Put writes one word.
LEMMA PutEffect ==
    ASSUME NEW h, IsHeap(h), NEW a \in DOMAIN h.mem, NEW val \in Int
    PROVE  LET g == Put(h, a, val)
           IN  Differ(h, g, {a}) /\ g.mem[a] = val /\ g.lists = h.lists
<1> DEFINE mem == [h.mem EXCEPT ![a] = val]
           g == [h EXCEPT !.mem = mem]
<1>1. Put(h, a, val) = g
  BY DEF Put
<1>2. h.mem \in [DOMAIN h.mem -> Int]
  BY DEF IsHeap
<1>3. mem \in [DOMAIN h.mem -> Int]
  BY <1>2
<1>4. mem[a] = val /\ \A w \in DOMAIN h.mem : w \notin {a} => mem[w] = h.mem[w]
  BY <1>2
<1> HIDE DEF mem
<1>5. IsHeap(g) /\ g.mem = mem /\ g.brk = h.brk /\ g.lists = h.lists
  BY <1>3, MemChanged
<1> HIDE DEF g
<1>6. DOMAIN g.mem = DOMAIN h.mem
  BY <1>3, <1>5
<1> QED BY <1>1, <1>4, <1>5, <1>6 DEF Differ

\* Heaps that differ from one another, one after the other.
LEMMA DifferTwice ==
    ASSUME NEW h, IsHeap(h), NEW f, NEW g, NEW V, NEW W, Differ(h, f, V), Differ(f, g, W)
    PROVE  Differ(h, g, V \cup W)
  BY DEF Differ

\* The header and the footer of a block.
TagWords(bp, size) == {bp - WSIZE, bp + size - DSIZE}

\* PutBlock writes a header and a footer and nothing else.
LEMMA PutBlockEffect ==
    ASSUME NEW h, IsHeap(h), NEW bp \in Int, NEW size \in Int, NEW alloc \in {0, 1},
           bp - WSIZE \in DOMAIN h.mem, bp + size - DSIZE \in DOMAIN h.mem
    PROVE  LET g == PutBlock(h, bp, size, alloc)
           IN  /\ Differ(h, g, TagWords(bp, size)) /\ g.lists = h.lists
               /\ g.mem[bp - WSIZE] = PACK(size, alloc)
               /\ g.mem[bp + size - DSIZE] = PACK(size, alloc)
<1> DEFINE word == PACK(size, alloc)
           f == Put(h, bp - WSIZE, word)
           g == Put(f, bp + size - DSIZE, word)
<1>1. word \in Int
  BY DEF PACK
<1>2. PutBlock(h, bp, size, alloc) = g
  BY DEF PutBlock
<1> HIDE DEF word
<1>3. Differ(h, f, {bp - WSIZE}) /\ f.mem[bp - WSIZE] = word /\ f.lists = h.lists
  BY <1>1, PutEffect
<1> HIDE DEF f
<1>4. IsHeap(f) /\ bp + size - DSIZE \in DOMAIN f.mem
  BY <1>3 DEF Differ
<1>5. /\ Differ(f, g, {bp + size - DSIZE}) /\ g.mem[bp + size - DSIZE] = word
      /\ g.lists = f.lists
  BY <1>1, <1>4, PutEffect
<1> HIDE DEF g
<1>6. Differ(h, g, {bp - WSIZE} \cup {bp + size - DSIZE})
  BY <1>3, <1>5, DifferTwice
<1>7. {bp - WSIZE} \cup {bp + size - DSIZE} = TagWords(bp, size)
  BY DEF TagWords
<1>8. g.mem[bp - WSIZE] = word
  BY <1>3, <1>5 DEF Differ
<1> QED BY <1>2, <1>3, <1>5, <1>6, <1>7, <1>8 DEF word

----------------------------------------------------------------------------
\* The lists of the size classes

\* Min of a set of integers that has a smallest element.
LEMMA MinIs ==
    ASSUME NEW S \in SUBSET Int, IsFiniteSet(S), S # {}
    PROVE  Sets!Min(S) \in S /\ \A y \in S : Sets!Min(S) <= y
<1>1. \E x \in S : \A y \in S : x <= y
  BY SmallestExists
<1> QED BY <1>1 DEF Sets!Min

\* The limit of the loops, a list before the last one or the last one.
LEMMA ListsAre ==
    /\ LISTLIMIT - 1 \in Lists /\ IsFiniteSet(Lists) /\ Lists \subseteq Nat
    /\ \A l \in Lists : l <= LISTLIMIT - 1
<1>1. LISTLIMIT \in Nat /\ LISTLIMIT > 0
  BY SegregatedAssumption
<1>2. IsFiniteSet(0..(LISTLIMIT - 1))
  BY <1>1, FS_Interval
<1> QED BY <1>1, <1>2 DEF Lists

\* The list of a size is the first at which the loops may stop.
LEMMA ClassIs ==
    ASSUME NEW size \in Int
    PROVE  /\ Class(size) \in Lists
           /\ Class(size) = LISTLIMIT - 1 \/ size < 2^(Class(size) + 1)
           /\ \A l \in Lists : l = LISTLIMIT - 1 \/ size < 2^(l + 1) => Class(size) <= l
<1> DEFINE S == {l \in Lists : l = LISTLIMIT - 1 \/ size < 2^(l + 1)}
<1>1. S \in SUBSET Int /\ S # {}
  <2>1. LISTLIMIT - 1 \in S /\ \A l \in Lists : l \in Int
    BY ListsAre
  <2> QED BY <2>1
<1>2. IsFiniteSet(S)
  BY ListsAre, FS_Subset
<1>3. Class(size) = Sets!Min(S)
  BY DEF Class, Lists
<1>4. Sets!Min(S) \in S /\ \A y \in S : Sets!Min(S) <= y
  <2> HIDE DEF S
  <2> QED BY <1>1, <1>2, MinIs
<1> QED BY <1>3, <1>4

\* Larger sizes are in later lists.
LEMMA ClassMonotone ==
    ASSUME NEW size \in Int, NEW larger \in Int, size <= larger
    PROVE  Class(size) <= Class(larger)
<1>1. Class(larger) \in Lists /\ (Class(larger) = LISTLIMIT - 1 \/ larger < 2^(Class(larger) + 1))
  BY ClassIs
<1>2. Class(larger) + 1 \in Nat
  <2>1. Class(larger) \in Nat
    BY <1>1, ListsAre
  <2> QED BY <2>1
<1>3. 2^(Class(larger) + 1) \in Int
  BY <1>2
<1>4. Class(larger) = LISTLIMIT - 1 \/ size < 2^(Class(larger) + 1)
  BY <1>1, <1>3
<1> QED BY <1>1, <1>4, ClassIs

----------------------------------------------------------------------------
\* What delete_node and insert_node write

\* delete_node writes the links of the neighbours, or the head of the list.
LEMMA DeleteEffect ==
    ASSUME NEW h, IsHeap(h), NEW bp, bp \in DOMAIN h.mem, NEXT_PTR(bp) \in DOMAIN h.mem,
           SizeOf(h, bp) \in Int,
           PREV(h, bp) # NULL => NEXT_PTR(PREV(h, bp)) \in DOMAIN h.mem,
           NEXT(h, bp) # NULL => NEXT(h, bp) \in DOMAIN h.mem,
           PREV(h, bp) # NULL => NEXT_PTR(PREV(h, bp)) # NEXT(h, bp)
    PROVE  LET g == delete_node(h, bp)
               prev == PREV(h, bp)
               next == NEXT(h, bp)
           IN  /\ Differ(h, g, (IF prev = NULL THEN {} ELSE {NEXT_PTR(prev)})
                               \cup (IF next = NULL THEN {} ELSE {next}))
               /\ prev # NULL => NEXT(g, prev) = next
               /\ next # NULL => PREV(g, next) = prev
               /\ \A c \in Lists : g.lists[c] = IF next = NULL /\ c = Class(SizeOf(h, bp))
                                                THEN prev ELSE h.lists[c]
<1> DEFINE prev == PREV(h, bp)
           next == NEXT(h, bp)
           f == IF prev = NULL THEN h ELSE Put(h, NEXT_PTR(prev), next)
           class == Class(SizeOf(h, bp))
           g == IF next # NULL THEN Put(f, PREV_PTR(next), prev)
                ELSE SetHead(f, class, prev)
           V == IF prev = NULL THEN {} ELSE {NEXT_PTR(prev)}
           W == IF next = NULL THEN {} ELSE {next}
<1>1. delete_node(h, bp) = g
  BY DEF delete_node
<1>2. prev \in Int /\ next \in Int
  BY HeapHas DEF PREV, NEXT, PREV_PTR
<1>3. class \in Lists
  BY ClassIs
<1> HIDE DEF class
<1>4. /\ Differ(h, f, V) /\ f.lists = h.lists
      /\ prev # NULL => f.mem[NEXT_PTR(prev)] = next
  <2> HIDE DEF prev, next
  <2>1. CASE prev = NULL
    BY <2>1 DEF Differ
  <2>2. CASE prev # NULL
    BY <1>2, <2>2, PutEffect DEF prev, next
  <2> QED BY <2>1, <2>2
<1> HIDE DEF f
<1>5. IsHeap(f) /\ DOMAIN f.mem = DOMAIN h.mem
  BY <1>4 DEF Differ
<1>6. CASE next # NULL
  <2>1. g = Put(f, next, prev)
    BY <1>6 DEF PREV_PTR
  <2> HIDE DEF g
  <2>2. Differ(f, g, {next}) /\ g.mem[next] = prev /\ g.lists = f.lists
    <3>1. next \in DOMAIN f.mem
      BY <1>5, <1>6
    <3> HIDE DEF prev, next
    <3> QED BY <1>2, <1>5, <2>1, <3>1, PutEffect
  <2>3. Differ(h, g, V \cup W)
    BY <1>4, <1>6, <2>2, DifferTwice
  <2>4. prev # NULL => g.mem[NEXT_PTR(prev)] = next
    BY <1>4, <1>5, <2>2 DEF Differ
  <2>5. PREV(g, next) = prev /\ (prev # NULL => NEXT(g, prev) = next)
    BY <2>2, <2>4 DEF PREV, NEXT, PREV_PTR
  <2> HIDE DEF prev, next
  <2>6. \A c \in Lists : g.lists[c] = h.lists[c]
    BY <1>4, <2>2
  <2> HIDE DEF V, W
  <2>7. /\ Differ(h, g, V \cup W)
        /\ (prev # NULL => NEXT(g, prev) = next) /\ (next # NULL => PREV(g, next) = prev)
        /\ \A c \in Lists : g.lists[c] = IF next = NULL /\ c = class THEN prev ELSE h.lists[c]
    BY <1>6, <2>3, <2>5, <2>6
  <2> QED BY <1>1, <2>7 DEF V, W, prev, next, class
<1>7. CASE next = NULL
  <2>1. g = SetHead(f, class, prev)
    BY <1>7
  <2>2. /\ IsHeap(g) /\ g.mem = f.mem /\ g.brk = f.brk
        /\ g.lists = [f.lists EXCEPT ![class] = prev]
    BY <1>2, <1>3, <1>5, <2>1, HeadChanged
  <2> HIDE DEF g
  <2>3. Differ(h, g, V \cup W)
    BY <1>4, <1>7, <2>2 DEF Differ
  <2>4. prev # NULL => NEXT(g, prev) = next
    BY <1>4, <2>2 DEF NEXT
  <2> HIDE DEF prev, next
  <2>5. f.lists \in [Lists -> Int]
    BY <1>5 DEF IsHeap
  <2>6. \A c \in Lists : g.lists[c] = IF c = class THEN prev ELSE h.lists[c]
    BY <1>4, <2>2, <2>5
  <2> HIDE DEF V, W
  <2>7. /\ Differ(h, g, V \cup W)
        /\ (prev # NULL => NEXT(g, prev) = next) /\ (next # NULL => PREV(g, next) = prev)
        /\ \A c \in Lists : g.lists[c] = IF next = NULL /\ c = class THEN prev ELSE h.lists[c]
    BY <1>7, <2>3, <2>4, <2>6
  <2> QED BY <1>1, <2>7 DEF V, W, prev, next, class
<1> QED BY <1>6, <1>7

\* insert_node writes the links of the new node and those of its neighbours that
\* lead to it, or the head of the list.
LEMMA InsertEffect ==
    ASSUME NEW h, IsHeap(h), NEW bp \in Int, PREV_PTR(bp) \in DOMAIN h.mem,
           NEXT_PTR(bp) \in DOMAIN h.mem, NEW size \in Int, size > 16,
           NEW search \in Int, NEW insert \in Int,
           PlaceIn(h, Class(size), size) = [search |-> search, insert |-> insert],
           search # NULL => NEXT_PTR(search) \in DOMAIN h.mem \ {PREV_PTR(bp), NEXT_PTR(bp)},
           insert # NULL => insert \in DOMAIN h.mem \ {PREV_PTR(bp), NEXT_PTR(bp)},
           search # NULL /\ insert # NULL => NEXT_PTR(search) # insert
    PROVE  LET g == insert_node(h, bp, size)
           IN  /\ Differ(h, g, {PREV_PTR(bp), NEXT_PTR(bp)}
                               \cup (IF search = NULL THEN {} ELSE {NEXT_PTR(search)})
                               \cup (IF insert = NULL THEN {} ELSE {insert}))
               /\ PREV(g, bp) = search /\ NEXT(g, bp) = insert
               /\ search # NULL => NEXT(g, search) = bp
               /\ insert # NULL => PREV(g, insert) = bp
               /\ \A c \in Lists : g.lists[c] = IF insert = NULL /\ c = Class(size)
                                                THEN bp ELSE h.lists[c]
<1> DEFINE class == Class(size)
           own == {PREV_PTR(bp), NEXT_PTR(bp)}
           V == IF search = NULL THEN {} ELSE {NEXT_PTR(search)}
           W == IF insert = NULL THEN {} ELSE {insert}
           first == Put(h, PREV_PTR(bp), search)
           linked == Put(first, NEXT_PTR(bp), insert)
           back == IF search = NULL THEN linked ELSE Put(linked, NEXT_PTR(search), bp)
           g == IF insert = NULL THEN SetHead(back, class, bp) ELSE Put(back, insert, bp)
<1>1. insert_node(h, bp, size) = g
  BY DEF insert_node, PREV_PTR, DSIZE
<1>2. class \in Lists
  BY ClassIs
<1>3. PREV_PTR(bp) # NEXT_PTR(bp)
  BY DEF PREV_PTR, NEXT_PTR, WSIZE
<1>4. Differ(h, first, {PREV_PTR(bp)}) /\ first.mem[PREV_PTR(bp)] = search /\ first.lists = h.lists
  BY PutEffect
<1> HIDE DEF first
<1>5. /\ Differ(first, linked, {NEXT_PTR(bp)}) /\ linked.mem[NEXT_PTR(bp)] = insert
      /\ linked.lists = first.lists
  <2>1. IsHeap(first) /\ NEXT_PTR(bp) \in DOMAIN first.mem
    BY <1>4 DEF Differ
  <2> QED BY <2>1, PutEffect
<1> HIDE DEF linked
<1>6. /\ Differ(h, linked, own) /\ linked.lists = h.lists
      /\ linked.mem[PREV_PTR(bp)] = search /\ linked.mem[NEXT_PTR(bp)] = insert
  <2>1. Differ(h, linked, {PREV_PTR(bp)} \cup {NEXT_PTR(bp)})
    BY <1>4, <1>5, DifferTwice
  <2>2. {PREV_PTR(bp)} \cup {NEXT_PTR(bp)} = own
    OBVIOUS
  <2>3. linked.mem[PREV_PTR(bp)] = search
    BY <1>3, <1>4, <1>5 DEF Differ
  <2> QED BY <1>4, <1>5, <2>1, <2>2, <2>3
<1>7. /\ Differ(linked, back, V) /\ back.lists = h.lists
      /\ search # NULL => back.mem[NEXT_PTR(search)] = bp
  <2>1. IsHeap(linked) /\ DOMAIN linked.mem = DOMAIN h.mem
    BY <1>6 DEF Differ
  <2>2. CASE search = NULL
    BY <1>6, <2>1, <2>2 DEF Differ
  <2>3. CASE search # NULL
    BY <1>6, <2>1, <2>3, PutEffect
  <2> QED BY <2>2, <2>3
<1> HIDE DEF back
<1>8. /\ Differ(back, g, W)
      /\ insert # NULL => g.mem[insert] = bp
      /\ \A c \in Lists : g.lists[c] = IF insert = NULL /\ c = class THEN bp ELSE h.lists[c]
  <2> HIDE DEF class
  <2>1. IsHeap(back) /\ DOMAIN back.mem = DOMAIN h.mem
    BY <1>6, <1>7 DEF Differ
  <2>2. CASE insert = NULL
    <3>1. g = SetHead(back, class, bp)
      BY <2>2
    <3> HIDE DEF g
    <3>2. /\ IsHeap(g) /\ g.mem = back.mem /\ g.brk = back.brk
          /\ g.lists = [back.lists EXCEPT ![class] = bp]
      BY <1>2, <2>1, <3>1, HeadChanged
    <3>3. back.lists \in [Lists -> Int]
      BY <2>1 DEF IsHeap
    <3>4. \A c \in Lists : g.lists[c] = IF c = class THEN bp ELSE h.lists[c]
      BY <1>7, <3>2, <3>3
    <3>5. Differ(back, g, W)
      BY <2>1, <3>2 DEF Differ
    <3> QED BY <2>2, <3>4, <3>5
  <2>3. CASE insert # NULL
    <3>1. g = Put(back, insert, bp)
      BY <2>3
    <3> HIDE DEF g
    <3>2. Differ(back, g, {insert}) /\ g.mem[insert] = bp /\ g.lists = back.lists
      BY <2>1, <2>3, <3>1, PutEffect
    <3> QED BY <1>7, <2>3, <3>2
  <2> QED BY <2>2, <2>3
<1> HIDE DEF g
<1>9. Differ(h, g, own \cup V \cup W)
  <2> HIDE DEF own, V, W
  <2>1. Differ(h, back, own \cup V)
    BY <1>6, <1>7, DifferTwice
  <2> QED BY <1>8, <2>1, DifferTwice
<1>10. g.mem[PREV_PTR(bp)] = search /\ g.mem[NEXT_PTR(bp)] = insert
  <2>1. /\ PREV_PTR(bp) \in DOMAIN linked.mem /\ NEXT_PTR(bp) \in DOMAIN linked.mem
        /\ PREV_PTR(bp) \in DOMAIN back.mem /\ NEXT_PTR(bp) \in DOMAIN back.mem
    BY <1>6, <1>7 DEF Differ
  <2>2. own \cap V = {} /\ own \cap W = {}
    OBVIOUS
  <2>3. PREV_PTR(bp) \notin V /\ PREV_PTR(bp) \notin W /\ NEXT_PTR(bp) \notin V /\ NEXT_PTR(bp) \notin W
    BY <2>2
  <2> HIDE DEF V, W
  <2> QED BY <1>6, <1>7, <1>8, <2>1, <2>3 DEF Differ
<1>11. search # NULL => g.mem[NEXT_PTR(search)] = bp
  <2> SUFFICES ASSUME search # NULL PROVE g.mem[NEXT_PTR(search)] = bp
    OBVIOUS
  <2>1. NEXT_PTR(search) \notin W /\ NEXT_PTR(search) \in DOMAIN back.mem
    BY <1>6, <1>7 DEF Differ
  <2> HIDE DEF W
  <2> QED BY <1>7, <1>8, <2>1 DEF Differ
<1>12. /\ PREV(g, bp) = search /\ NEXT(g, bp) = insert
       /\ search # NULL => NEXT(g, search) = bp
       /\ insert # NULL => PREV(g, insert) = bp
  BY <1>8, <1>10, <1>11 DEF PREV, NEXT, PREV_PTR
<1> QED BY <1>1, <1>8, <1>9, <1>12

----------------------------------------------------------------------------
\* Chains

\* From each node in F the function f leads to another one or to the end; g leads
\* back; and f never comes round.
Chain(F, f, g) ==
    /\ \A p \in F : f[p] \in F \cup {NULL} /\ (f[p] # NULL => g[f[p]] = p)
    /\ \A S \in SUBSET F : S # {} => \E p \in S : f[p] \notin S

\* The functions of a chain, f and g, when x has been inserted between z and y.
Inserted(F, f, g, x, y, z, f2, g2) ==
    /\ f2[x] = y /\ g2[x] = z
    /\ z # NULL => f2[z] = x
    /\ y # NULL => g2[y] = x
    /\ \A p \in F : p # z => f2[p] = f[p]
    /\ \A p \in F : p # y => g2[p] = g[p]

\* A new node x is inserted between z and y, which follow one another.
LEMMA ChainInserted ==
    ASSUME NEW F, NULL \notin F, NEW f, NEW g, Chain(F, f, g),
           NEW x, x \notin F, x # NULL,
           NEW y \in F \cup {NULL}, NEW z \in F \cup {NULL},
           y # NULL => g[y] = z, z # NULL => f[z] = y,
           NEW f2, NEW g2, Inserted(F, f, g, x, y, z, f2, g2)
    PROVE  Chain(F \cup {x}, f2, g2)
<1> DEFINE G == F \cup {x}
<1>1. \A p \in F : f[p] \in F \cup {NULL} /\ (f[p] # NULL => g[f[p]] = p)
  BY DEF Chain
<1>2. /\ f2[x] = y /\ g2[x] = z
      /\ z # NULL => f2[z] = x
      /\ y # NULL => g2[y] = x
      /\ \A p \in F : p # z => f2[p] = f[p]
      /\ \A p \in F : p # y => g2[p] = g[p]
  BY DEF Inserted
<1>3. ASSUME NEW p \in G PROVE f2[p] \in G \cup {NULL} /\ (f2[p] # NULL => g2[f2[p]] = p)
  <2>1. CASE p = x
    BY <1>2, <2>1
  <2>2. CASE p = z /\ p # x
    BY <1>2, <2>2
  <2>3. CASE p # z /\ p # x
    <3>1. p \in F /\ f2[p] = f[p]
      BY <1>2, <2>3
    <3>2. f[p] # NULL => f[p] # y
      BY <1>1, <2>3, <3>1
    <3> QED BY <1>1, <1>2, <3>1, <3>2
  <2> QED BY <2>1, <2>2, <2>3
<1>4. ASSUME NEW S \in SUBSET G, S # {} PROVE \E p \in S : f2[p] \notin S
  <2>1. CASE S = {x}
    BY <1>2, <2>1
  <2>2. CASE S # {x}
    <3>1. S \ {x} \in SUBSET F /\ S \ {x} # {}
      BY <1>4, <2>2
    <3>2. PICK p \in S \ {x} : f[p] \notin S \ {x}
      BY <3>1 DEF Chain
    <3>3. f[p] # x
      BY <1>1, <3>1
    <3>4. CASE p # z
      BY <1>2, <3>1, <3>2, <3>3, <3>4
    <3>5. CASE p = z
      <4>1. p # NULL /\ f[p] = y /\ y \notin S
        BY <3>1, <3>2, <3>3, <3>5
      <4>2. CASE x \in S
        BY <1>2, <4>1, <4>2
      <4>3. CASE x \notin S
        BY <1>2, <3>5, <4>1, <4>3
      <4> QED BY <4>2, <4>3
    <3> QED BY <3>4, <3>5
  <2> QED BY <2>1, <2>2
<1> QED BY <1>3, <1>4 DEF Chain

\* The functions of a chain when x has been taken out between z and y.
Removed(F, f, g, x, f2, g2) ==
    /\ g[x] # NULL => f2[g[x]] = f[x]
    /\ f[x] # NULL => g2[f[x]] = g[x]
    /\ \A p \in F : p # g[x] /\ p # x => f2[p] = f[p]
    /\ \A p \in F : p # f[x] /\ p # x => g2[p] = g[p]

\* The node x is taken out of a chain.
LEMMA ChainRemoved ==
    ASSUME NEW F, NULL \notin F, NEW f, NEW g, Chain(F, f, g), Chain(F, g, f), NEW x \in F,
           NEW f2, NEW g2, Removed(F, f, g, x, f2, g2)
    PROVE  Chain(F \ {x}, f2, g2)
<1> DEFINE G == F \ {x}
           y == f[x]
           z == g[x]
<1>1. \A p \in F : f[p] \in F \cup {NULL} /\ (f[p] # NULL => g[f[p]] = p)
  BY DEF Chain
<1>2. \A p \in F : g[p] \in F \cup {NULL} /\ (g[p] # NULL => f[g[p]] = p)
  BY DEF Chain
<1>3. /\ z # NULL => f2[z] = y
      /\ y # NULL => g2[y] = z
      /\ \A p \in F : p # z /\ p # x => f2[p] = f[p]
      /\ \A p \in F : p # y /\ p # x => g2[p] = g[p]
  BY DEF Removed
<1>4. y # x
  <2>1. {x} \in SUBSET F /\ {x} # {}
    OBVIOUS
  <2>2. \E p \in {x} : f[p] \notin {x}
    BY <2>1 DEF Chain
  <2> QED BY <2>2
<1>5. y \in G \cup {NULL} /\ z \in F \cup {NULL}
  BY <1>1, <1>2, <1>4
<1>6. (y # NULL => g[y] = x) /\ (z # NULL => f[z] = x)
  BY <1>1, <1>2
<1> HIDE DEF y, z
<1>7. ASSUME NEW p \in G PROVE f2[p] \in G \cup {NULL} /\ (f2[p] # NULL => g2[f2[p]] = p)
  <2>1. CASE p = z
    <3>1. p # NULL /\ f2[p] = y
      BY <1>3, <2>1
    <3> QED BY <1>3, <1>5, <2>1, <3>1
  <2>2. CASE p # z
    <3>1. f2[p] = f[p] /\ f[p] \in F \cup {NULL} /\ (f[p] # NULL => g[f[p]] = p)
      BY <1>1, <1>3, <2>2
    <3>2. f[p] # x
      BY <3>1, <2>2 DEF z
    <3>3. f[p] # NULL => f[p] # y
      BY <1>6, <3>1
    <3>4. f[p] # NULL => g2[f[p]] = p
      BY <1>3, <3>1, <3>2, <3>3
    <3> QED BY <3>1, <3>2, <3>4
  <2> QED BY <2>1, <2>2
<1>8. ASSUME NEW S \in SUBSET G, S # {} PROVE \E p \in S : f2[p] \notin S
  <2>1. CASE z \in S
    <3>1. S \cup {x} \in SUBSET F /\ S \cup {x} # {}
      OBVIOUS
    <3>2. PICK q \in S \cup {x} : f[q] \notin S \cup {x}
      BY <3>1 DEF Chain
    <3>3. CASE q = x
      <4>1. y \notin S /\ z # NULL
        BY <2>1, <3>2, <3>3 DEF y
      <4> QED BY <1>3, <2>1, <4>1
    <3>4. CASE q # x
      <4>1. q \in S /\ q \in F /\ q # z
        BY <1>6, <3>2, <3>4
      <4> QED BY <1>3, <3>2, <3>4, <4>1
    <3> QED BY <3>3, <3>4
  <2>2. CASE z \notin S
    <3>1. PICK q \in S : f[q] \notin S
      BY <1>8 DEF Chain
    <3> QED BY <1>3, <2>2, <3>1
  <2> QED BY <2>1, <2>2
<1> QED BY <1>7, <1>8 DEF Chain

----------------------------------------------------------------------------
\* Free lists

\* There is room for the links of the nodes in F, each with a header before it.
ArePlaces(h, F) ==
    /\ \A p \in F : p \in Int /\ p % 8 = 0 /\ p >= 8 /\ p + 8 <= h.brk
    /\ \A p, q \in F : p < q => p + 16 <= q

LinkWords(F) == F \cup {NEXT_PTR(p) : p \in F}

Prevs(h, F) == [p \in F |-> PREV(h, p)]

Nexts(h, F) == [p \in F |-> NEXT(h, p)]

ClassOf(h, p) == Class(SizeOf(h, p))

\* The nodes in F are linked into the lists of their sizes, both ways.
Linked(h, F) ==
    /\ ArePlaces(h, F)
    /\ Chain(F, Prevs(h, F), Nexts(h, F))
    /\ Chain(F, Nexts(h, F), Prevs(h, F))
    /\ \A p \in F : PREV(h, p) # NULL => ClassOf(h, PREV(h, p)) = ClassOf(h, p)
    /\ \A p \in F : NEXT(h, p) = NULL <=> h.lists[ClassOf(h, p)] = p
    /\ \A c \in Lists : h.lists[c] # NULL => h.lists[c] \in F /\ ClassOf(h, h.lists[c]) = c

\* The words of a node, which are no other node's.
LEMMA PlacesAre ==
    ASSUME NEW h, IsHeap(h), NEW F, ArePlaces(h, F)
    PROVE  /\ \A p \in F : /\ p \in Int /\ p # NULL
                           /\ p \in DOMAIN h.mem /\ NEXT_PTR(p) \in DOMAIN h.mem
                           /\ p - WSIZE \in DOMAIN h.mem /\ p - WSIZE \notin LinkWords(F)
                           /\ SizeOf(h, p) \in Int /\ ClassOf(h, p) \in Lists
                           /\ PREV(h, p) \in Int /\ NEXT(h, p) \in Int
           /\ \A p, q \in F : NEXT_PTR(p) # q /\ (NEXT_PTR(p) = NEXT_PTR(q) => p = q)
           /\ NULL \notin F
<1>1. /\ \A a \in DOMAIN h.mem : h.mem[a] \in Int
      /\ \A a \in Int : a \in DOMAIN h.mem <=> a % 4 = 0 /\ 0 <= a /\ a < h.brk
      /\ h.brk \in Int
  BY HeapHas
<1>2. \A p \in F : p \in Int /\ p % 8 = 0 /\ p >= 8 /\ p + 8 <= h.brk
  BY DEF ArePlaces
<1>3. ASSUME NEW p \in F
      PROVE  /\ p \in DOMAIN h.mem /\ p + 4 \in DOMAIN h.mem /\ p - 4 \in DOMAIN h.mem
             /\ (p + 4) % 8 = 4 /\ (p - 4) % 8 = 4
  <2>1. p % 4 = 0 /\ (p + 4) % 4 = 0 /\ (p - 4) % 4 = 0 /\ (p + 4) % 8 = 4 /\ (p - 4) % 8 = 4
    BY <1>2, HeaderIsAligned, FooterIsAligned
  <2>2. p \in Int /\ p >= 8 /\ p + 8 <= h.brk
    BY <1>2
  <2> QED BY <1>1, <2>1, <2>2
<1>4. ASSUME NEW p \in F, NEW q \in F PROVE p + 4 # q /\ p - 4 # q /\ p - 4 # q + 4
  <2>1. p < q => p + 16 <= q
    BY DEF ArePlaces
  <2>2. q < p => q + 16 <= p
    BY DEF ArePlaces
  <2> QED BY <1>2, <2>1, <2>2
<1>5. \A p \in F : p - 4 \notin LinkWords(F)
  BY <1>4 DEF LinkWords, NEXT_PTR, WSIZE
<1>6. \A p, q \in F : NEXT_PTR(p) # q /\ (NEXT_PTR(p) = NEXT_PTR(q) => p = q)
  BY <1>2, <1>4 DEF NEXT_PTR, WSIZE
<1>7. ASSUME NEW p \in F PROVE SizeOf(h, p) \in Int /\ ClassOf(h, p) \in Lists
  <2>1. h.mem[p - 4] \in Int
    BY <1>1, <1>3
  <2>2. SizeOf(h, p) \in Int
    BY <2>1 DEF SizeOf, GET_SIZE, WSIZE
  <2> QED BY <2>2, ClassIs DEF ClassOf
<1>8. \A p \in F : PREV(h, p) \in Int /\ NEXT(h, p) \in Int
  BY <1>1, <1>3 DEF PREV, NEXT, PREV_PTR, NEXT_PTR, WSIZE
<1>9. ASSUME NEW p \in F
      PROVE  /\ p \in Int /\ p # NULL
             /\ p \in DOMAIN h.mem /\ NEXT_PTR(p) \in DOMAIN h.mem
             /\ p - WSIZE \in DOMAIN h.mem /\ p - WSIZE \notin LinkWords(F)
  BY <1>2, <1>3, <1>5 DEF NEXT_PTR, WSIZE, NULL
<1> QED BY <1>6, <1>7, <1>8, <1>9

\* What the links of a node lead to.
LEMMA LinksAre ==
    ASSUME NEW h, NEW F, Linked(h, F)
    PROVE  /\ \A p \in F : /\ PREV(h, p) \in F \cup {NULL} /\ NEXT(h, p) \in F \cup {NULL}
                           /\ PREV(h, p) # NULL => NEXT(h, PREV(h, p)) = p
                           /\ NEXT(h, p) # NULL => PREV(h, NEXT(h, p)) = p
                           /\ PREV(h, p) # NULL => ClassOf(h, PREV(h, p)) = ClassOf(h, p)
                           /\ NEXT(h, p) = NULL <=> h.lists[ClassOf(h, p)] = p
           /\ \A c \in Lists : h.lists[c] # NULL => h.lists[c] \in F /\ ClassOf(h, h.lists[c]) = c
           /\ \A S \in SUBSET F : S # {} => (\E p \in S : PREV(h, p) \notin S)
           /\ \A S \in SUBSET F : S # {} => (\E p \in S : NEXT(h, p) \notin S)
<1>1. /\ \A p \in F : Prevs(h, F)[p] = PREV(h, p)
      /\ \A p \in F : Nexts(h, F)[p] = NEXT(h, p)
  BY DEF Prevs, Nexts
<1>2. ASSUME NEW p \in F
      PROVE  /\ PREV(h, p) \in F \cup {NULL} /\ NEXT(h, p) \in F \cup {NULL}
             /\ PREV(h, p) # NULL => NEXT(h, PREV(h, p)) = p
             /\ NEXT(h, p) # NULL => PREV(h, NEXT(h, p)) = p
  BY <1>1 DEF Linked, Chain
<1>3. \A S \in SUBSET F : S # {} => (\E p \in S : PREV(h, p) \notin S)
  BY <1>1 DEF Linked, Chain
<1>4. \A S \in SUBSET F : S # {} => (\E p \in S : NEXT(h, p) \notin S)
  BY <1>1 DEF Linked, Chain
<1>5. ASSUME NEW p \in F
      PROVE  /\ PREV(h, p) # NULL => ClassOf(h, PREV(h, p)) = ClassOf(h, p)
             /\ NEXT(h, p) = NULL <=> h.lists[ClassOf(h, p)] = p
  BY DEF Linked
<1>6. \A c \in Lists : h.lists[c] # NULL => h.lists[c] \in F /\ ClassOf(h, h.lists[c]) = c
  BY DEF Linked
<1> QED BY <1>2, <1>3, <1>4, <1>5, <1>6

\* Writing links leaves the headers of the nodes alone.
LEMMA SameHeaders ==
    ASSUME NEW h, IsHeap(h), NEW F, ArePlaces(h, F), NEW g, Differ(h, g, LinkWords(F))
    PROVE  /\ ArePlaces(g, F)
           /\ \A p \in F : SizeOf(g, p) = SizeOf(h, p) /\ ClassOf(g, p) = ClassOf(h, p)
<1>1. ArePlaces(g, F)
  BY DEF ArePlaces, Differ
<1>2. ASSUME NEW p \in F PROVE SizeOf(g, p) = SizeOf(h, p)
  <2>1. p - WSIZE \in DOMAIN h.mem /\ p - WSIZE \notin LinkWords(F)
    BY PlacesAre
  <2>2. g.mem[p - WSIZE] = h.mem[p - WSIZE]
    BY <2>1 DEF Differ
  <2> QED BY <2>2 DEF SizeOf
<1> QED BY <1>1, <1>2 DEF ClassOf

\* delete_node takes a node out of its list and writes nothing but links.
LEMMA DeleteLinked ==
    ASSUME NEW h, IsHeap(h), NEW F, Linked(h, F), NEW bp \in F
    PROVE  /\ Differ(h, delete_node(h, bp), LinkWords(F \ {bp}))
           /\ Linked(delete_node(h, bp), F \ {bp})
<1> DEFINE g == delete_node(h, bp)
           G == F \ {bp}
           prev == PREV(h, bp)
           next == NEXT(h, bp)
           class == ClassOf(h, bp)
           W == (IF prev = NULL THEN {} ELSE {NEXT_PTR(prev)})
                \cup (IF next = NULL THEN {} ELSE {next})
<1>1. ArePlaces(h, F)
  BY DEF Linked
<1>2. /\ \A p \in F : /\ p \in Int /\ p # NULL
                      /\ p \in DOMAIN h.mem /\ NEXT_PTR(p) \in DOMAIN h.mem
                      /\ SizeOf(h, p) \in Int /\ ClassOf(h, p) \in Lists
      /\ \A p, q \in F : NEXT_PTR(p) # q /\ (NEXT_PTR(p) = NEXT_PTR(q) => p = q)
      /\ NULL \notin F
  BY <1>1, PlacesAre
<1>3. /\ \A p \in F : /\ PREV(h, p) \in F \cup {NULL} /\ NEXT(h, p) \in F \cup {NULL}
                      /\ PREV(h, p) # NULL => NEXT(h, PREV(h, p)) = p
                      /\ NEXT(h, p) # NULL => PREV(h, NEXT(h, p)) = p
                      /\ PREV(h, p) # NULL => ClassOf(h, PREV(h, p)) = ClassOf(h, p)
                      /\ NEXT(h, p) = NULL <=> h.lists[ClassOf(h, p)] = p
      /\ \A c \in Lists : h.lists[c] # NULL => h.lists[c] \in F /\ ClassOf(h, h.lists[c]) = c
      /\ \A S \in SUBSET F : S # {} => (\E p \in S : PREV(h, p) \notin S)
      /\ \A S \in SUBSET F : S # {} => (\E p \in S : NEXT(h, p) \notin S)
  BY LinksAre
<1>4. prev # bp /\ next # bp
  <2>1. {bp} \in SUBSET F /\ {bp} # {}
    OBVIOUS
  <2>2. (\E p \in {bp} : PREV(h, p) \notin {bp}) /\ (\E p \in {bp} : NEXT(h, p) \notin {bp})
    BY <1>3, <2>1
  <2> QED BY <2>2
<1>5. prev \in G \cup {NULL} /\ next \in G \cup {NULL}
  BY <1>3, <1>4
<1>6. /\ Differ(h, g, W)
      /\ prev # NULL => NEXT(g, prev) = next
      /\ next # NULL => PREV(g, next) = prev
      /\ \A c \in Lists : g.lists[c] = IF next = NULL /\ c = class THEN prev ELSE h.lists[c]
  <2>1. /\ bp \in DOMAIN h.mem /\ NEXT_PTR(bp) \in DOMAIN h.mem /\ SizeOf(h, bp) \in Int
        /\ PREV(h, bp) # NULL => NEXT_PTR(PREV(h, bp)) \in DOMAIN h.mem
        /\ NEXT(h, bp) # NULL => NEXT(h, bp) \in DOMAIN h.mem
        /\ PREV(h, bp) # NULL => NEXT_PTR(PREV(h, bp)) # NEXT(h, bp)
    <3>1. PREV(h, bp) # NULL => NEXT_PTR(PREV(h, bp)) # NEXT(h, bp)
      <4>1. CASE NEXT(h, bp) = NULL
        <5> SUFFICES ASSUME PREV(h, bp) # NULL PROVE NEXT_PTR(PREV(h, bp)) # NULL
          BY <4>1
        <5>1. PREV(h, bp) >= 8
          BY <1>1, <1>3 DEF ArePlaces
        <5>2. PREV(h, bp) \in Int
          BY <1>2, <1>3
        <5> QED BY <5>1, <5>2 DEF NEXT_PTR, WSIZE, NULL
      <4>2. CASE NEXT(h, bp) # NULL
        BY <1>2, <1>3, <4>2
      <4> QED BY <4>1, <4>2
    <3> QED BY <1>2, <1>3, <3>1
  <2> QED BY <2>1, DeleteEffect DEF ClassOf
<1> HIDE DEF g
<1>7. W \subseteq LinkWords(G)
  BY <1>5 DEF LinkWords
<1>8. Differ(h, g, LinkWords(G))
  <2> HIDE DEF W
  <2> QED BY <1>6, <1>7 DEF Differ
<1>9. ASSUME NEW p \in G
      PROVE  /\ NEXT(g, p) = IF p = prev THEN next ELSE NEXT(h, p)
             /\ PREV(g, p) = IF p = next THEN prev ELSE PREV(h, p)
  <2>1. p # prev => NEXT_PTR(p) \notin W
    BY <1>2, <1>5
  <2>2. p # next => p \notin W
    BY <1>2, <1>5
  <2>3. p \in DOMAIN h.mem /\ NEXT_PTR(p) \in DOMAIN h.mem /\ p # NULL
    BY <1>2
  <2> HIDE DEF W, prev, next
  <2>4. p # prev => NEXT(g, p) = NEXT(h, p)
    BY <1>6, <2>1, <2>3 DEF Differ, NEXT
  <2>5. p # next => PREV(g, p) = PREV(h, p)
    BY <1>6, <2>2, <2>3 DEF Differ, PREV, PREV_PTR
  <2> QED BY <1>6, <2>3, <2>4, <2>5
<1>10. ArePlaces(g, G) /\ \A p \in G : ClassOf(g, p) = ClassOf(h, p)
  <2>1. ArePlaces(h, G)
    BY <1>1 DEF ArePlaces
  <2> QED BY <1>8, <2>1, SameHeaders
<1>11. /\ Chain(F, Prevs(h, F), Nexts(h, F)) /\ Chain(F, Nexts(h, F), Prevs(h, F))
       /\ Prevs(h, F)[bp] = prev /\ Nexts(h, F)[bp] = next
       /\ \A p \in F : Prevs(h, F)[p] = PREV(h, p) /\ Nexts(h, F)[p] = NEXT(h, p)
       /\ \A p \in G : Prevs(g, G)[p] = PREV(g, p) /\ Nexts(g, G)[p] = NEXT(g, p)
  BY DEF Linked, Prevs, Nexts
<1>12. /\ Removed(F, Prevs(h, F), Nexts(h, F), bp, Prevs(g, G), Nexts(g, G))
       /\ Removed(F, Nexts(h, F), Prevs(h, F), bp, Nexts(g, G), Prevs(g, G))
  <2> HIDE DEF prev, next
  <2> QED BY <1>5, <1>9, <1>11 DEF Removed
<1>13. Chain(G, Prevs(g, G), Nexts(g, G)) /\ Chain(G, Nexts(g, G), Prevs(g, G))
  BY <1>2, <1>11, <1>12, ChainRemoved
<1>14. ASSUME NEW p \in G, PREV(g, p) # NULL PROVE ClassOf(g, PREV(g, p)) = ClassOf(g, p)
  <2>1. PREV(g, p) \in G
    <3>1. Prevs(g, G)[p] \in G \cup {NULL}
      BY <1>13 DEF Chain
    <3> QED BY <1>11, <1>14, <3>1
  <2>2. CASE p = next
    <3>1. PREV(g, p) = prev /\ PREV(h, p) = bp
      BY <1>3, <1>9, <2>2
    <3>2. ClassOf(h, prev) = ClassOf(h, bp) /\ ClassOf(h, bp) = ClassOf(h, p)
      BY <1>2, <1>3, <1>14, <3>1
    <3> QED BY <1>10, <2>1, <3>1, <3>2
  <2>3. CASE p # next
    BY <1>3, <1>9, <1>10, <1>14, <2>1, <2>3
  <2> QED BY <2>2, <2>3
<1>15. ASSUME NEW p \in G PROVE NEXT(g, p) = NULL <=> g.lists[ClassOf(g, p)] = p
  <2>1. /\ ClassOf(g, p) = ClassOf(h, p) /\ ClassOf(h, p) \in Lists
        /\ NEXT(h, p) = NULL <=> h.lists[ClassOf(h, p)] = p
        /\ next = NULL <=> h.lists[class] = bp
    BY <1>2, <1>3, <1>10
  <2>2. CASE p = prev
    <3>1. NEXT(g, p) = next /\ NEXT(h, p) = bp /\ ClassOf(h, p) = class
      BY <1>2, <1>3, <1>9, <2>2
    <3> HIDE DEF prev, next, class
    <3> QED BY <1>2, <1>6, <2>1, <2>2, <3>1
  <2>3. CASE p # prev
    <3>1. NEXT(g, p) = NEXT(h, p)
      BY <1>9, <2>3
    <3> HIDE DEF prev, next, class
    <3> QED BY <1>6, <2>1, <2>3, <3>1
  <2> QED BY <2>2, <2>3
<1>16. ASSUME NEW c \in Lists, g.lists[c] # NULL
       PROVE  g.lists[c] \in G /\ ClassOf(g, g.lists[c]) = c
  <2>1. CASE next = NULL /\ c = class
    <3>1. g.lists[c] = prev /\ prev \in G
      BY <1>5, <1>6, <1>16, <2>1
    <3>2. ClassOf(h, prev) = class
      BY <1>2, <1>3, <3>1
    <3> QED BY <1>10, <2>1, <3>1, <3>2
  <2>2. CASE ~(next = NULL /\ c = class)
    <3>1. g.lists[c] = h.lists[c]
      <4> HIDE DEF prev, next, class
      <4> QED BY <1>6, <2>2
    <3>2. h.lists[c] \in F /\ ClassOf(h, h.lists[c]) = c
      BY <1>3, <1>16, <3>1
    <3>3. h.lists[c] # bp
      BY <1>3, <2>2, <3>2
    <3> QED BY <1>10, <3>1, <3>2, <3>3
  <2> QED BY <2>1, <2>2
<1>17. Linked(g, G)
  BY <1>10, <1>13, <1>14, <1>15, <1>16 DEF Linked
<1> QED BY <1>8, <1>17 DEF g

\* The search for the place of a new node, as an equation.
LEMMA PlaceWalk ==
    ASSUME NEW h, IsHeap(h), NEW list, NEW size
    PROVE  \E walk :
              /\ walk = [at \in [search : Int, insert : Int] |->
                            IF /\ at.search # NULL /\ at.search \in DOMAIN h.mem
                               /\ size \div 2^list > SizeOf(h, at.search)
                            THEN walk[[search |-> PREV(h, at.search), insert |-> at.search]]
                            ELSE at]
              /\ PlaceIn(h, list, size) = walk[[search |-> h.lists[list], insert |-> NULL]]
<1> DEFINE D == [search : Int, insert : Int]
           Goes(at) == /\ at.search # NULL /\ at.search \in DOMAIN h.mem
                       /\ size \div 2^list > SizeOf(h, at.search)
           On(at) == [search |-> PREV(h, at.search), insert |-> at.search]
           T == {at \in D : Goes(at)}
           next == [at \in T |-> On(at)]
           value == [at \in D |-> at]
           Searches(w) == w = [at \in D |-> IF Goes(at) THEN w[On(at)] ELSE at]
<1>1. T \in SUBSET D
  OBVIOUS
<1>2. ASSUME NEW at \in T PROVE On(at) \in D
  <2>1. at.search \in DOMAIN h.mem /\ at.search \in Int
    OBVIOUS
  <2>2. PREV(h, at.search) \in Int
    BY <2>1, HeapHas DEF PREV, PREV_PTR
  <2> QED BY <2>1, <2>2
<1>3. next \in [T -> D]
  <2> HIDE DEF D, T, On
  <2> QED BY <1>2
<1>4. PICK walk : IsSearch(walk, D, T, next, value)
  <2> HIDE DEF D, T, next, value
  <2> QED BY <1>1, <1>3, SearchExists
<1>5. Searches(walk)
  <2>1. \A x \in D : (IF x \in T THEN walk[next[x]] ELSE value[x])
                     = (IF Goes(x) THEN walk[On(x)] ELSE x)
    <3> HIDE DEF D, Goes, On
    <3> QED OBVIOUS
  <2> HIDE DEF D, T, next, value, Goes, On
  <2> QED BY <1>4, <2>1 DEF IsSearch
<1>6. Searches(CHOOSE w : Searches(w))
  <2> HIDE DEF Searches
  <2> QED BY <1>5
<1>7. PlaceIn(h, list, size) = (CHOOSE w : Searches(w))[[search |-> h.lists[list], insert |-> NULL]]
  BY DEF PlaceIn
<1> DEFINE found == CHOOSE w : Searches(w)
<1> HIDE DEF found
<1>8. Searches(found) /\ PlaceIn(h, list, size) = found[[search |-> h.lists[list], insert |-> NULL]]
  BY <1>6, <1>7 DEF found
<1> QED BY <1>8

\* A place in the list c: the nodes search and insert follow one another, or
\* insert is the end.
Between(h, F, c, search, insert) ==
    /\ search \in F \cup {NULL} /\ insert \in F \cup {NULL}
    /\ search # NULL => NEXT(h, search) = insert /\ ClassOf(h, search) = c
    /\ insert # NULL => PREV(h, insert) = search /\ ClassOf(h, insert) = c
    /\ insert = NULL => h.lists[c] = search

\* A place as the search returns it.
IsPlace(h, F, c, at) ==
    \E search, insert \in F \cup {NULL} :
        at = [search |-> search, insert |-> insert] /\ Between(h, F, c, search, insert)

\* The search ends at a place in the list.
LEMMA PlaceFound ==
    ASSUME NEW h, IsHeap(h), NEW F, Linked(h, F), NEW c \in Lists, NEW size
    PROVE  IsPlace(h, F, c, PlaceIn(h, c, size))
<1> DEFINE D == [search : Int, insert : Int]
           Goes(p) == p # NULL /\ p \in DOMAIN h.mem /\ size \div 2^c > SizeOf(h, p)
           At(s, i) == [search |-> s, insert |-> i]
<1>1. PICK walk :
         /\ walk = [at \in D |-> IF Goes(at.search) THEN walk[At(PREV(h, at.search), at.search)] ELSE at]
         /\ PlaceIn(h, c, size) = walk[At(h.lists[c], NULL)]
  BY PlaceWalk
<1>2. \A s \in Int, i \in Int : walk[At(s, i)] = IF Goes(s) THEN walk[At(PREV(h, s), s)] ELSE At(s, i)
  <2>1. \A s \in Int, i \in Int : At(s, i) \in D /\ At(s, i).search = s
    OBVIOUS
  <2> HIDE DEF D, Goes, At
  <2> QED BY <1>1, <2>1
<1>3. /\ \A p \in F : /\ PREV(h, p) \in F \cup {NULL} /\ NEXT(h, p) \in F \cup {NULL}
                      /\ PREV(h, p) # NULL => NEXT(h, PREV(h, p)) = p
                      /\ NEXT(h, p) # NULL => PREV(h, NEXT(h, p)) = p
                      /\ PREV(h, p) # NULL => ClassOf(h, PREV(h, p)) = ClassOf(h, p)
                      /\ NEXT(h, p) = NULL <=> h.lists[ClassOf(h, p)] = p
      /\ \A l \in Lists : h.lists[l] # NULL => h.lists[l] \in F /\ ClassOf(h, h.lists[l]) = l
      /\ \A S \in SUBSET F : S # {} => (\E p \in S : PREV(h, p) \notin S)
  BY LinksAre
<1>4. /\ \A p \in F : p \in Int /\ p # NULL
      /\ NULL \in Int
  <2>1. ArePlaces(h, F)
    BY DEF Linked
  <2> QED BY <2>1, PlacesAre DEF NULL
<1>5. Between(h, F, c, h.lists[c], NULL)
  BY <1>3 DEF Between
<1>6. ASSUME NEW s \in F, NEW i, Between(h, F, c, s, i) PROVE Between(h, F, c, PREV(h, s), s)
  BY <1>3, <1>4, <1>6 DEF Between
<1>7. ASSUME NEW s, NEW i, Between(h, F, c, s, i), ~Goes(s) PROVE IsPlace(h, F, c, walk[At(s, i)])
  <2>1. s \in F \cup {NULL} /\ i \in F \cup {NULL}
    BY <1>7 DEF Between
  <2>2. walk[At(s, i)] = At(s, i)
    BY <1>2, <1>4, <1>7, <2>1
  <2> QED BY <1>7, <2>1, <2>2 DEF IsPlace
<1>8. ASSUME NEW s \in F, NEW i, Between(h, F, c, s, i), Goes(s)
      PROVE  walk[At(s, i)] = walk[At(PREV(h, s), s)]
  <2>1. s \in Int /\ i \in Int
    BY <1>4, <1>8 DEF Between
  <2> HIDE DEF At, Goes
  <2> QED BY <1>2, <1>8, <2>1
<1>9. ~Goes(NULL)
  OBVIOUS
<1> HIDE DEF At, Goes
<1> DEFINE Bad == {s \in F : \E i \in F \cup {NULL} : Between(h, F, c, s, i) /\ ~IsPlace(h, F, c, walk[At(s, i)])}
<1>10. ASSUME NEW s \in Bad PROVE PREV(h, s) \in Bad
  <2>1. PICK i \in F \cup {NULL} : Between(h, F, c, s, i) /\ ~IsPlace(h, F, c, walk[At(s, i)])
    BY <1>10
  <2>2. Goes(s) /\ s \in F
    BY <1>7, <2>1
  <2>3. Between(h, F, c, PREV(h, s), s) /\ walk[At(s, i)] = walk[At(PREV(h, s), s)]
    BY <1>6, <1>8, <2>1, <2>2
  <2>4. ~IsPlace(h, F, c, walk[At(PREV(h, s), s)])
    BY <2>1, <2>3
  <2>5. PREV(h, s) # NULL
    BY <1>7, <1>9, <2>3, <2>4
  <2> QED BY <1>3, <2>2, <2>3, <2>4, <2>5
<1>11. Bad = {}
  <2>1. Bad \in SUBSET F
    OBVIOUS
  <2> HIDE DEF Bad
  <2> QED BY <1>3, <1>10, <2>1
<1>12. IsPlace(h, F, c, walk[At(h.lists[c], NULL)])
  <2>1. CASE h.lists[c] = NULL
    BY <1>5, <1>7, <1>9, <2>1
  <2>2. CASE h.lists[c] # NULL
    BY <1>3, <1>5, <1>11, <2>2
  <2> QED BY <2>1, <2>2
<1> QED BY <1>1, <1>12

\* insert_node puts a block into the list of its size and writes nothing but links.
LEMMA InsertLinked ==
    ASSUME NEW h, IsHeap(h), NEW F, Linked(h, F), NEW bp, bp \notin F,
           ArePlaces(h, F \cup {bp}), NEW size, size = SizeOf(h, bp), size > 16
    PROVE  /\ Differ(h, insert_node(h, bp, size), LinkWords(F \cup {bp}))
           /\ Linked(insert_node(h, bp, size), F \cup {bp})
<1> DEFINE g == insert_node(h, bp, size)
           G == F \cup {bp}
           class == Class(size)
<1>1. /\ \A p \in G : /\ p \in Int /\ p # NULL
                      /\ p \in DOMAIN h.mem /\ NEXT_PTR(p) \in DOMAIN h.mem
                      /\ SizeOf(h, p) \in Int /\ ClassOf(h, p) \in Lists
      /\ \A p, q \in G : NEXT_PTR(p) # q /\ (NEXT_PTR(p) = NEXT_PTR(q) => p = q)
      /\ NULL \notin G
  BY PlacesAre
<1>2. /\ \A p \in F : /\ PREV(h, p) \in F \cup {NULL} /\ NEXT(h, p) \in F \cup {NULL}
                      /\ PREV(h, p) # NULL => NEXT(h, PREV(h, p)) = p
                      /\ NEXT(h, p) # NULL => PREV(h, NEXT(h, p)) = p
                      /\ PREV(h, p) # NULL => ClassOf(h, PREV(h, p)) = ClassOf(h, p)
                      /\ NEXT(h, p) = NULL <=> h.lists[ClassOf(h, p)] = p
      /\ \A c \in Lists : h.lists[c] # NULL => h.lists[c] \in F /\ ClassOf(h, h.lists[c]) = c
  BY LinksAre
<1>3. class \in Lists /\ ClassOf(h, bp) = class /\ size \in Int
  BY <1>1, ClassIs DEF ClassOf
<1>4. PICK search \in F \cup {NULL}, insert \in F \cup {NULL} :
         /\ PlaceIn(h, class, size) = [search |-> search, insert |-> insert]
         /\ Between(h, F, class, search, insert)
  BY <1>3, PlaceFound DEF IsPlace
<1>5. /\ search # NULL => NEXT(h, search) = insert /\ ClassOf(h, search) = class
      /\ insert # NULL => PREV(h, insert) = search /\ ClassOf(h, insert) = class
      /\ insert = NULL => h.lists[class] = search
  BY <1>4 DEF Between
<1> DEFINE W == {PREV_PTR(bp), NEXT_PTR(bp)}
                \cup (IF search = NULL THEN {} ELSE {NEXT_PTR(search)})
                \cup (IF insert = NULL THEN {} ELSE {insert})
<1>6. /\ Differ(h, g, W)
      /\ PREV(g, bp) = search /\ NEXT(g, bp) = insert
      /\ search # NULL => NEXT(g, search) = bp
      /\ insert # NULL => PREV(g, insert) = bp
      /\ \A c \in Lists : g.lists[c] = IF insert = NULL /\ c = class THEN bp ELSE h.lists[c]
  <2>1. /\ bp \in Int /\ PREV_PTR(bp) \in DOMAIN h.mem /\ NEXT_PTR(bp) \in DOMAIN h.mem
        /\ search \in Int /\ insert \in Int
    BY <1>1 DEF PREV_PTR, NULL
  <2>2. /\ search # NULL => NEXT_PTR(search) \in DOMAIN h.mem \ {PREV_PTR(bp), NEXT_PTR(bp)}
        /\ insert # NULL => insert \in DOMAIN h.mem \ {PREV_PTR(bp), NEXT_PTR(bp)}
        /\ search # NULL /\ insert # NULL => NEXT_PTR(search) # insert
    BY <1>1 DEF PREV_PTR
  <2> QED BY <1>3, <1>4, <2>1, <2>2, InsertEffect
<1> HIDE DEF g
<1>7. W \subseteq LinkWords(G)
  BY DEF LinkWords, PREV_PTR
<1>8. Differ(h, g, LinkWords(G))
  <2> HIDE DEF W
  <2> QED BY <1>6, <1>7 DEF Differ
<1>9. ASSUME NEW p \in F
      PROVE  /\ NEXT(g, p) = IF p = search THEN bp ELSE NEXT(h, p)
             /\ PREV(g, p) = IF p = insert THEN bp ELSE PREV(h, p)
  <2>1. p # search => NEXT_PTR(p) \notin W
    BY <1>1 DEF PREV_PTR
  <2>2. p # insert => p \notin W
    BY <1>1 DEF PREV_PTR
  <2>3. p \in DOMAIN h.mem /\ NEXT_PTR(p) \in DOMAIN h.mem /\ p # NULL
    BY <1>1
  <2> HIDE DEF W
  <2>4. p # search => NEXT(g, p) = NEXT(h, p)
    BY <1>6, <2>1, <2>3 DEF Differ, NEXT
  <2>5. p # insert => PREV(g, p) = PREV(h, p)
    BY <1>6, <2>2, <2>3 DEF Differ, PREV, PREV_PTR
  <2> QED BY <1>6, <2>3, <2>4, <2>5
<1>10. ArePlaces(g, G) /\ \A p \in G : ClassOf(g, p) = ClassOf(h, p)
  BY <1>8, SameHeaders
<1>11. /\ Chain(F, Prevs(h, F), Nexts(h, F)) /\ Chain(F, Nexts(h, F), Prevs(h, F))
       /\ \A p \in F : Prevs(h, F)[p] = PREV(h, p) /\ Nexts(h, F)[p] = NEXT(h, p)
       /\ \A p \in G : Prevs(g, G)[p] = PREV(g, p) /\ Nexts(g, G)[p] = NEXT(g, p)
  BY DEF Linked, Prevs, Nexts
<1>12. /\ Inserted(F, Prevs(h, F), Nexts(h, F), bp, search, insert, Prevs(g, G), Nexts(g, G))
       /\ Inserted(F, Nexts(h, F), Prevs(h, F), bp, insert, search, Nexts(g, G), Prevs(g, G))
  BY <1>4, <1>6, <1>9, <1>11 DEF Inserted
<1>13. Chain(G, Prevs(g, G), Nexts(g, G)) /\ Chain(G, Nexts(g, G), Prevs(g, G))
  <2>1. /\ search # NULL => Nexts(h, F)[search] = insert
        /\ insert # NULL => Prevs(h, F)[insert] = search
    BY <1>4, <1>5, <1>11
  <2>2. bp # NULL /\ NULL \notin F
    BY <1>1
  <2> QED BY <1>4, <1>11, <1>12, <2>1, <2>2, ChainInserted
<1>14. ASSUME NEW p \in G, PREV(g, p) # NULL PROVE ClassOf(g, PREV(g, p)) = ClassOf(g, p)
  <2>1. CASE p = bp
    BY <1>3, <1>4, <1>5, <1>6, <1>10, <1>14, <2>1
  <2>2. CASE p = insert /\ p # bp
    BY <1>1, <1>3, <1>5, <1>9, <1>10, <2>2
  <2>3. CASE p # insert /\ p # bp
    <3>1. PREV(g, p) = PREV(h, p)
      BY <1>9, <2>3
    <3> QED BY <1>2, <1>10, <1>14, <2>3, <3>1
  <2> QED BY <2>1, <2>2, <2>3
<1>15. ASSUME NEW p \in G PROVE NEXT(g, p) = NULL <=> g.lists[ClassOf(g, p)] = p
  <2>1. ClassOf(g, p) = ClassOf(h, p) /\ ClassOf(h, p) \in Lists
    BY <1>1, <1>10
  <2>2. CASE p = bp
    <3>1. h.lists[class] # bp
      BY <1>1, <1>2, <1>3
    <3> HIDE DEF class
    <3> QED BY <1>3, <1>6, <2>1, <2>2, <3>1
  <2>3. CASE p = search /\ p # bp
    <3>1. NEXT(g, p) = bp /\ NEXT(h, p) = insert /\ ClassOf(h, p) = class
      BY <1>1, <1>5, <1>9, <2>3
    <3>2. NEXT(h, p) = NULL <=> h.lists[class] = p
      BY <1>2, <2>3, <3>1
    <3> HIDE DEF class
    <3> QED BY <1>1, <1>6, <2>1, <2>3, <3>1, <3>2
  <2>4. CASE p # search /\ p # bp
    <3>1. NEXT(g, p) = NEXT(h, p)
      BY <1>9, <2>4
    <3>2. NEXT(h, p) = NULL <=> h.lists[ClassOf(h, p)] = p
      BY <1>2, <2>4
    <3> HIDE DEF class
    <3> QED BY <1>5, <1>6, <2>1, <2>4, <3>1, <3>2
  <2> QED BY <2>2, <2>3, <2>4
<1>16. ASSUME NEW c \in Lists, g.lists[c] # NULL
       PROVE  g.lists[c] \in G /\ ClassOf(g, g.lists[c]) = c
  <2>1. CASE insert = NULL /\ c = class
    BY <1>3, <1>6, <1>10, <2>1
  <2>2. CASE ~(insert = NULL /\ c = class)
    <3>1. g.lists[c] = h.lists[c]
      <4> HIDE DEF class
      <4> QED BY <1>6, <2>2
    <3> QED BY <1>2, <1>10, <1>16, <3>1
  <2> QED BY <2>1, <2>2
<1>17. Linked(g, G)
  BY <1>10, <1>13, <1>14, <1>15, <1>16 DEF Linked
<1> QED BY <1>8, <1>17 DEF g

\* Lists stay linked while their links, their headers and their heads stay.
LEMMA LinkedKept ==
    ASSUME NEW h, NEW F, Linked(h, F), NEW g, g.lists = h.lists, ArePlaces(g, F),
           \A p \in F : SizeOf(g, p) = SizeOf(h, p) /\ PREV(g, p) = PREV(h, p) /\ NEXT(g, p) = NEXT(h, p)
    PROVE  Linked(g, F)
<1>1. \A p \in F : ClassOf(g, p) = ClassOf(h, p)
  BY DEF ClassOf
<1>2. Prevs(g, F) = Prevs(h, F) /\ Nexts(g, F) = Nexts(h, F)
  BY DEF Prevs, Nexts
<1>3. Chain(F, Prevs(g, F), Nexts(g, F)) /\ Chain(F, Nexts(g, F), Prevs(g, F))
  BY <1>2 DEF Linked
<1>4. \A p \in F : PREV(h, p) \in F \cup {NULL}
  BY LinksAre
<1>5. \A p \in F : PREV(g, p) # NULL => ClassOf(g, PREV(g, p)) = ClassOf(g, p)
  BY <1>1, <1>4 DEF Linked
<1>6. \A p \in F : NEXT(g, p) = NULL <=> g.lists[ClassOf(g, p)] = p
  BY <1>1 DEF Linked
<1>7. \A c \in Lists : g.lists[c] # NULL => g.lists[c] \in F /\ ClassOf(g, g.lists[c]) = c
  BY <1>1 DEF Linked
<1> QED BY <1>3, <1>5, <1>6, <1>7 DEF Linked

\* The search for a node that is large enough, as an equation.
LEMMA FitWalk ==
    ASSUME NEW h, IsHeap(h), NEW list, NEW asize
    PROVE  \E walk :
              /\ walk = [p \in Int |->
                            IF p = NULL \/ p \notin DOMAIN h.mem THEN NULL
                            ELSE IF asize <= SizeOf(h, p) THEN p ELSE walk[PREV(h, p)]]
              /\ FitIn(h, list, asize) = walk[h.lists[list]]
<1> DEFINE Ends(p) == p = NULL \/ p \notin DOMAIN h.mem
           Fits(p) == asize <= SizeOf(h, p)
           T == {p \in Int : ~Ends(p) /\ ~Fits(p)}
           next == [p \in T |-> PREV(h, p)]
           value == [p \in Int |-> IF Ends(p) THEN NULL ELSE p]
           Searches(w) == w = [p \in Int |-> IF Ends(p) THEN NULL
                                             ELSE IF Fits(p) THEN p ELSE w[PREV(h, p)]]
<1>1. T \in SUBSET Int
  OBVIOUS
<1>2. \A p \in T : PREV(h, p) \in Int
  BY HeapHas DEF PREV, PREV_PTR
<1>3. next \in [T -> Int]
  BY <1>2
<1>4. PICK walk : IsSearch(walk, Int, T, next, value)
  <2> HIDE DEF T, next, value
  <2> QED BY <1>1, <1>3, SearchExists
<1>5. Searches(walk)
  <2>1. \A x \in Int : (IF x \in T THEN walk[next[x]] ELSE value[x])
                       = (IF Ends(x) THEN NULL ELSE IF Fits(x) THEN x ELSE walk[PREV(h, x)])
    OBVIOUS
  <2> HIDE DEF T, next, value, Ends, Fits
  <2> QED BY <1>4, <2>1 DEF IsSearch
<1>6. Searches(CHOOSE w : Searches(w))
  <2> HIDE DEF Searches
  <2> QED BY <1>5
<1>7. FitIn(h, list, asize) = (CHOOSE w : Searches(w))[h.lists[list]]
  BY DEF FitIn
<1> QED BY <1>6, <1>7

\* The search of a list finds a node that is large enough, or none is.
LEMMA FitFound ==
    ASSUME NEW h, IsHeap(h), NEW F, Linked(h, F), NEW c \in Lists, NEW asize \in Int
    PROVE  LET fit == FitIn(h, c, asize)
           IN  \/ fit \in F /\ asize <= SizeOf(h, fit)
               \/ fit = NULL /\ \A p \in F : ClassOf(h, p) = c => SizeOf(h, p) < asize
<1>1. PICK walk :
         /\ walk = [p \in Int |->
                       IF p = NULL \/ p \notin DOMAIN h.mem THEN NULL
                       ELSE IF asize <= SizeOf(h, p) THEN p ELSE walk[PREV(h, p)]]
         /\ FitIn(h, c, asize) = walk[h.lists[c]]
  BY FitWalk
<1>2. /\ \A p \in F : p \in Int /\ p # NULL /\ p \in DOMAIN h.mem /\ SizeOf(h, p) \in Int
      /\ NULL \in Int
  <2>1. ArePlaces(h, F)
    BY DEF Linked
  <2> QED BY <2>1, PlacesAre DEF NULL
<1>3. /\ \A p \in F : /\ PREV(h, p) \in F \cup {NULL} /\ NEXT(h, p) \in F \cup {NULL}
                      /\ PREV(h, p) # NULL => NEXT(h, PREV(h, p)) = p
                      /\ NEXT(h, p) # NULL => PREV(h, NEXT(h, p)) = p
                      /\ PREV(h, p) # NULL => ClassOf(h, PREV(h, p)) = ClassOf(h, p)
                      /\ NEXT(h, p) = NULL <=> h.lists[ClassOf(h, p)] = p
      /\ \A l \in Lists : h.lists[l] # NULL => h.lists[l] \in F /\ ClassOf(h, h.lists[l]) = l
      /\ \A S \in SUBSET F : S # {} => (\E p \in S : PREV(h, p) \notin S)
      /\ \A S \in SUBSET F : S # {} => (\E p \in S : NEXT(h, p) \notin S)
  BY LinksAre
<1>4. walk[NULL] = NULL
  BY <1>1, <1>2
<1>5. \A p \in F : walk[p] = IF asize <= SizeOf(h, p) THEN p ELSE walk[PREV(h, p)]
  BY <1>1, <1>2
<1> DEFINE Found(fit) == fit \in F /\ asize <= SizeOf(h, fit)
           Bad == {p \in F : ~Found(walk[p]) /\ walk[p] # NULL}
           Missed == {p \in F : ClassOf(h, p) = c /\ ~(walk[p] = NULL /\ SizeOf(h, p) < asize)}
<1>6. Bad = {}
  <2>1. Bad \in SUBSET F
    OBVIOUS
  <2>2. ASSUME NEW p \in Bad PROVE PREV(h, p) \in Bad
    <3>1. p \in F /\ ~(asize <= SizeOf(h, p))
      BY <1>5
    <3>2. walk[p] = walk[PREV(h, p)]
      BY <1>5, <3>1
    <3> QED BY <1>3, <1>4, <3>1, <3>2
  <2> HIDE DEF Bad
  <2> QED BY <1>3, <2>1, <2>2
<1>7. Found(walk[h.lists[c]]) \/ walk[h.lists[c]] = NULL
  BY <1>3, <1>4, <1>6
<1>8. ASSUME walk[h.lists[c]] = NULL PROVE Missed = {}
  <2>1. Missed \in SUBSET F
    OBVIOUS
  <2>2. ASSUME NEW p \in F, walk[p] = NULL PROVE SizeOf(h, p) < asize
    BY <1>2, <1>5, <2>2
  <2>3. ASSUME NEW p \in Missed PROVE NEXT(h, p) \in Missed
    <3>1. p \in F /\ ClassOf(h, p) = c /\ walk[p] # NULL
      BY <2>2
    <3>2. NEXT(h, p) # NULL
      BY <1>3, <1>8, <3>1
    <3> DEFINE q == NEXT(h, p)
    <3>3. q \in F /\ PREV(h, q) = p /\ ClassOf(h, q) = c
      BY <1>2, <1>3, <3>1, <3>2
    <3> HIDE DEF q
    <3>4. walk[q] = NULL => SizeOf(h, q) < asize
      BY <2>2, <3>3
    <3>5. SizeOf(h, q) < asize => walk[q] = walk[p]
      BY <1>2, <1>5, <3>3
    <3>6. q \in Missed
      BY <3>1, <3>3, <3>4, <3>5
    <3> QED BY <3>6 DEF q
  <2> HIDE DEF Missed
  <2> QED BY <1>3, <2>1, <2>3
<1>9. walk[h.lists[c]] = NULL => \A p \in F : ClassOf(h, p) = c => SizeOf(h, p) < asize
  BY <1>8
<1> QED BY <1>1, <1>7, <1>9

\* The search of mm_malloc finds a free block that is large enough, or none is.
LEMMA FindFit ==
    ASSUME NEW h, IsHeap(h), NEW F, Linked(h, F), NEW asize \in Int
    PROVE  LET fit == find_fit(h, asize)
           IN  \/ fit \in F /\ asize <= SizeOf(h, fit)
               \/ fit = NULL /\ \A p \in F : SizeOf(h, p) < asize
<1> DEFINE found == {list \in Class(asize)..(LISTLIMIT - 1) : FitIn(h, list, asize) # NULL}
           fit == find_fit(h, asize)
<1>1. fit = IF found = {} THEN NULL ELSE FitIn(h, Sets!Min(found), asize)
  BY DEF find_fit
<1>2. Class(asize) \in Lists
  BY ClassIs
<1>3. found \subseteq Lists
  BY <1>2, SegregatedAssumption DEF Lists
<1>4. \A p \in F : SizeOf(h, p) \in Int /\ ClassOf(h, p) \in Lists /\ p # NULL
  <2>1. ArePlaces(h, F)
    BY DEF Linked
  <2> QED BY <2>1, PlacesAre
<1> HIDE DEF fit
<1>5. CASE found = {}
  <2>1. ASSUME NEW p \in F, asize <= SizeOf(h, p) PROVE FALSE
    <3>1. Class(asize) <= ClassOf(h, p)
      BY <1>4, <2>1, ClassMonotone DEF ClassOf
    <3>2. ClassOf(h, p) \in Class(asize)..(LISTLIMIT - 1)
      BY <1>2, <1>4, <3>1, SegregatedAssumption DEF Lists
    <3>3. FitIn(h, ClassOf(h, p), asize) = NULL
      BY <1>5, <3>2
    <3> QED BY <1>4, <2>1, <3>3, FitFound
  <2> QED BY <1>1, <1>4, <1>5, <2>1 DEF fit
<1>6. CASE found # {}
  <2>1. Sets!Min(found) \in found
    <3>1. found \in SUBSET Int /\ IsFiniteSet(found)
      <4>1. \A l \in Lists : l \in Int
        BY ListsAre
      <4> HIDE DEF found
      <4> QED BY <1>3, <4>1, ListsAre, FS_Subset
    <3> HIDE DEF found
    <3> QED BY <1>6, <3>1, MinIs
  <2>2. Sets!Min(found) \in Lists /\ FitIn(h, Sets!Min(found), asize) # NULL
    BY <1>3, <2>1
  <2>3. fit = FitIn(h, Sets!Min(found), asize)
    <3> HIDE DEF found
    <3> QED BY <1>1, <1>6
  <2> HIDE DEF found
  <2> QED BY <2>2, <2>3, FitFound DEF fit
<1> QED BY <1>5, <1>6

\* The walk over the nodes of a list, as an equation.
LEMMA NodesWalk ==
    ASSUME NEW h, IsHeap(h), NEW list
    PROVE  \E walk :
              /\ walk = [at \in [node : Int, met : SUBSET Int] |->
                            IF at.node \in at.met \cup {NULL} \/ at.node \notin DOMAIN h.mem
                            THEN (at.met \cup {at.node}) \ {NULL}
                            ELSE walk[[node |-> PREV(h, at.node), met |-> at.met \cup {at.node}]]]
              /\ Nodes(h, list) = walk[[node |-> h.lists[list], met |-> {}]]
<1> DEFINE D == [node : Int, met : SUBSET Int]
           Ends(at) == at.node \in at.met \cup {NULL} \/ at.node \notin DOMAIN h.mem
           All(at) == (at.met \cup {at.node}) \ {NULL}
           On(at) == [node |-> PREV(h, at.node), met |-> at.met \cup {at.node}]
           T == {at \in D : ~Ends(at)}
           next == [at \in T |-> On(at)]
           value == [at \in D |-> All(at)]
           Walks(w) == w = [at \in D |-> IF Ends(at) THEN All(at) ELSE w[On(at)]]
<1>1. T \in SUBSET D
  OBVIOUS
<1>2. ASSUME NEW at \in T PROVE On(at) \in D
  <2>1. at.node \in DOMAIN h.mem /\ at.node \in Int /\ at.met \in SUBSET Int
    OBVIOUS
  <2>2. PREV(h, at.node) \in Int
    BY <2>1, HeapHas DEF PREV, PREV_PTR
  <2>3. at.met \cup {at.node} \in SUBSET Int
    BY <2>1
  <2> QED BY <2>2, <2>3
<1>3. next \in [T -> D]
  <2> HIDE DEF D, T, On
  <2> QED BY <1>2
<1>4. PICK walk : IsSearch(walk, D, T, next, value)
  <2> HIDE DEF D, T, next, value
  <2> QED BY <1>1, <1>3, SearchExists
<1>5. Walks(walk)
  <2>1. \A x \in D : (IF x \in T THEN walk[next[x]] ELSE value[x])
                     = (IF Ends(x) THEN All(x) ELSE walk[On(x)])
    <3> HIDE DEF D, Ends, On, All
    <3> QED OBVIOUS
  <2> HIDE DEF D, T, next, value, Ends, On, All
  <2> QED BY <1>4, <2>1 DEF IsSearch
<1>6. Walks(CHOOSE w : Walks(w))
  <2> HIDE DEF Walks
  <2> QED BY <1>5
<1>7. Nodes(h, list) = (CHOOSE w : Walks(w))[[node |-> h.lists[list], met |-> {}]]
  BY DEF Nodes
<1> DEFINE found == CHOOSE w : Walks(w)
<1> HIDE DEF found
<1>8. Walks(found) /\ Nodes(h, list) = found[[node |-> h.lists[list], met |-> {}]]
  BY <1>6, <1>7 DEF found
<1> QED BY <1>8

\* How far the walk over the list L has come: L's nodes behind node are met.
Reached(h, L, head, node, met) ==
    /\ met \in SUBSET L /\ node \in (L \cup {NULL}) \ met
    /\ head \in met \cup {node}
    /\ \A p \in met : PREV(h, p) \in met \cup {node}
    /\ \A p \in met : NEXT(h, p) \in met \cup {NULL}
    /\ node # NULL => NEXT(h, node) \in met \cup {NULL}

\* The walk over a list meets the nodes of its class, all of them.
LEMMA NodesAre ==
    ASSUME NEW h, IsHeap(h), NEW F, Linked(h, F), NEW c \in Lists
    PROVE  Nodes(h, c) = {p \in F : ClassOf(h, p) = c}
<1> DEFINE L == {p \in F : ClassOf(h, p) = c}
           D == [node : Int, met : SUBSET Int]
           At(p, S) == [node |-> p, met |-> S]
           head == h.lists[c]
<1>1. PICK walk :
         /\ walk = [at \in D |->
                       IF at.node \in at.met \cup {NULL} \/ at.node \notin DOMAIN h.mem
                       THEN (at.met \cup {at.node}) \ {NULL}
                       ELSE walk[At(PREV(h, at.node), at.met \cup {at.node})]]
         /\ Nodes(h, c) = walk[At(head, {})]
  BY NodesWalk
<1>2. /\ \A p \in L : p \in Int /\ p # NULL /\ p \in DOMAIN h.mem
      /\ NULL \in Int
  <2>1. ArePlaces(h, F)
    BY DEF Linked
  <2> QED BY <2>1, PlacesAre DEF NULL
<1>3. /\ \A p \in F : /\ PREV(h, p) \in F \cup {NULL} /\ NEXT(h, p) \in F \cup {NULL}
                      /\ PREV(h, p) # NULL => NEXT(h, PREV(h, p)) = p
                      /\ NEXT(h, p) # NULL => PREV(h, NEXT(h, p)) = p
                      /\ PREV(h, p) # NULL => ClassOf(h, PREV(h, p)) = ClassOf(h, p)
                      /\ NEXT(h, p) = NULL <=> h.lists[ClassOf(h, p)] = p
      /\ \A l \in Lists : h.lists[l] # NULL => h.lists[l] \in F /\ ClassOf(h, h.lists[l]) = l
      /\ \A S \in SUBSET F : S # {} => (\E p \in S : PREV(h, p) \notin S)
      /\ \A S \in SUBSET F : S # {} => (\E p \in S : NEXT(h, p) \notin S)
  BY LinksAre
<1>4. /\ \A p \in L : /\ PREV(h, p) \in L \cup {NULL} /\ NEXT(h, p) \in L \cup {NULL}
                      /\ PREV(h, p) # NULL => NEXT(h, PREV(h, p)) = p
                      /\ NEXT(h, p) # NULL => PREV(h, NEXT(h, p)) = p
                      /\ NEXT(h, p) = NULL <=> head = p
      /\ head \in L \cup {NULL}
      /\ \A S \in SUBSET L : S # {} => (\E p \in S : PREV(h, p) \notin S)
      /\ \A S \in SUBSET L : S # {} => (\E p \in S : NEXT(h, p) \notin S)
  <2>1. ASSUME NEW p \in L
        PROVE  /\ PREV(h, p) \in L \cup {NULL} /\ NEXT(h, p) \in L \cup {NULL}
               /\ PREV(h, p) # NULL => NEXT(h, PREV(h, p)) = p
               /\ NEXT(h, p) # NULL => PREV(h, NEXT(h, p)) = p
               /\ NEXT(h, p) = NULL <=> head = p
    BY <1>2, <1>3
  <2>2. L \subseteq F
    OBVIOUS
  <2>3. head \in L \cup {NULL}
    BY <1>3
  <2> HIDE DEF L
  <2> QED BY <1>3, <2>1, <2>2, <2>3
<1> HIDE DEF L, head
<1>5. Reached(h, L, head, head, {})
  BY <1>2, <1>4 DEF Reached
<1>6. ASSUME NEW met, Reached(h, L, head, NULL, met) PROVE met = L
  <2>1. L \ met \in SUBSET L
    OBVIOUS
  <2>2. ASSUME NEW p \in L \ met PROVE NEXT(h, p) \in L \ met
    <3>1. NEXT(h, p) # NULL
      BY <1>2, <1>4, <1>6, <2>2 DEF Reached
    <3>2. NEXT(h, p) \in L /\ PREV(h, NEXT(h, p)) = p
      BY <1>4, <2>2, <3>1
    <3>3. NEXT(h, p) \notin met
      BY <1>2, <1>6, <2>2, <3>2 DEF Reached
    <3> QED BY <3>2, <3>3
  <2>3. L \ met = {}
    BY <1>4, <2>1, <2>2
  <2> QED BY <1>6, <2>3 DEF Reached
<1>7. ASSUME NEW p \in L, NEW met, Reached(h, L, head, p, met)
      PROVE  Reached(h, L, head, PREV(h, p), met \cup {p})
  <2>1. /\ met \in SUBSET L /\ p \notin met /\ head \in met \cup {p}
        /\ \A q \in met : PREV(h, q) \in met \cup {p}
        /\ \A q \in met : NEXT(h, q) \in met \cup {NULL}
        /\ NEXT(h, p) \in met \cup {NULL}
    BY <1>2, <1>7 DEF Reached
  <2> DEFINE m == PREV(h, p)
  <2>2. m \in L \cup {NULL} /\ (m # NULL => NEXT(h, m) = p)
    BY <1>4
  <2>3. m # p
    <3>1. {p} \in SUBSET L /\ {p} # {}
      OBVIOUS
    <3>2. \E q \in {p} : PREV(h, q) \notin {p}
      BY <1>4, <3>1
    <3> QED BY <3>2
  <2>4. m \notin met
    BY <1>2, <2>1, <2>2
  <2>5. \A q \in met \cup {p} : PREV(h, q) \in (met \cup {p}) \cup {m}
    BY <2>1
  <2> HIDE DEF m
  <2>6. /\ met \cup {p} \in SUBSET L /\ m \in (L \cup {NULL}) \ (met \cup {p})
        /\ head \in (met \cup {p}) \cup {m}
        /\ \A q \in met \cup {p} : NEXT(h, q) \in (met \cup {p}) \cup {NULL}
        /\ m # NULL => NEXT(h, m) \in (met \cup {p}) \cup {NULL}
    BY <2>1, <2>2, <2>3, <2>4
  <2> QED BY <2>5, <2>6 DEF Reached, m
<1>8. /\ \A met \in SUBSET L : walk[At(NULL, met)] = met
      /\ \A p \in L, met \in SUBSET L : p \notin met => walk[At(p, met)] = walk[At(PREV(h, p), met \cup {p})]
  <2>1. \A p \in Int, met \in SUBSET Int : At(p, met) \in D /\ At(p, met).node = p /\ At(p, met).met = met
    OBVIOUS
  <2> HIDE DEF At, D
  <2>2. ASSUME NEW p \in Int, NEW met \in SUBSET Int
        PROVE  walk[At(p, met)] = IF p \in met \cup {NULL} \/ p \notin DOMAIN h.mem
                                  THEN (met \cup {p}) \ {NULL}
                                  ELSE walk[At(PREV(h, p), met \cup {p})]
    <3> DEFINE at == At(p, met)
    <3>1. at \in D /\ at.node = p /\ at.met = met
      BY <2>1
    <3> HIDE DEF at
    <3>2. walk[at] = IF at.node \in at.met \cup {NULL} \/ at.node \notin DOMAIN h.mem
                     THEN (at.met \cup {at.node}) \ {NULL}
                     ELSE walk[At(PREV(h, at.node), at.met \cup {at.node})]
      BY <1>1, <3>1
    <3> QED BY <3>1, <3>2 DEF at
  <2>3. \A met \in SUBSET L : met \in SUBSET Int /\ NULL \notin met
    BY <1>2
  <2>4. ASSUME NEW met \in SUBSET L PROVE walk[At(NULL, met)] = met
    <3>1. walk[At(NULL, met)] = (met \cup {NULL}) \ {NULL}
      BY <1>2, <2>2, <2>3
    <3> QED BY <2>3, <3>1
  <2>5. ASSUME NEW p \in L, NEW met \in SUBSET L, p \notin met
        PROVE  walk[At(p, met)] = walk[At(PREV(h, p), met \cup {p})]
    BY <1>2, <2>2, <2>3, <2>5
  <2> QED BY <2>4, <2>5
<1> DEFINE Bad == {p \in L : \E met \in SUBSET L : Reached(h, L, head, p, met) /\ walk[At(p, met)] # L}
<1> HIDE DEF At
<1>9. ASSUME NEW p \in Bad PROVE PREV(h, p) \in Bad
  <2>1. PICK met \in SUBSET L : Reached(h, L, head, p, met) /\ walk[At(p, met)] # L
    BY <1>9
  <2>2. p \in L /\ p \notin met
    BY <2>1 DEF Reached
  <2>3. /\ Reached(h, L, head, PREV(h, p), met \cup {p})
        /\ walk[At(PREV(h, p), met \cup {p})] # L
        /\ met \cup {p} \in SUBSET L
    BY <1>7, <1>8, <2>1, <2>2
  <2>4. PREV(h, p) # NULL
    BY <1>6, <1>8, <2>3
  <2> QED BY <1>4, <2>2, <2>3, <2>4
<1>10. Bad = {}
  <2>1. Bad \in SUBSET L
    OBVIOUS
  <2> HIDE DEF Bad
  <2> QED BY <1>4, <1>9, <2>1
<1>11. walk[At(head, {})] = L
  <2>1. CASE head = NULL
    BY <1>5, <1>6, <1>8, <2>1
  <2>2. CASE head # NULL
    BY <1>4, <1>5, <1>10, <2>2
  <2> QED BY <2>1, <2>2
<1> QED BY <1>1, <1>11 DEF L, head, At

----------------------------------------------------------------------------
\* The blocks of a heap

\* The header of a block is written again in its footer, and leads to the next
\* block or to the epilogue; all blocks but the prologue have room for links
\* beside their tags.
Tagged(h, B, b) ==
    /\ b \in DSIZE..(h.brk - DSIZE) /\ b % 8 = 0
    /\ SizeOf(h, b) >= IF b = DSIZE THEN 8 ELSE 24
    /\ NEXT_BLKP(h, b) \in B \cup {h.brk}
    /\ h.mem[FTRP(h, b)] = h.mem[b - WSIZE]

\* B is the set of the starts of the blocks, which tile the heap h from the
\* prologue to the epilogue.
Tiles(h, B) ==
    /\ DSIZE \in B /\ h.mem[DSIZE - WSIZE] = PACK(DSIZE, 1)
    /\ h.mem[h.brk - WSIZE] = PACK(0, 1)
    /\ \A b \in B : Tagged(h, B, b)
    /\ \A b, c \in B : b < c => NEXT_BLKP(h, b) <= c
    /\ \A c \in B \cup {h.brk} : c # DSIZE => \E b \in B : NEXT_BLKP(h, b) = c

Frees(h, B) == {b \in B : IsFree(h, b)}

\* The allocated blocks but the prologue.
Taken(h, B) == {b \in B \ {DSIZE} : ~IsFree(h, b)}

\* No two free blocks touch, but for neighbours of bp.
Apart(h, B, bp) ==
    \A b \in B : NEXT_BLKP(h, b) \in B /\ IsFree(h, b) /\ IsFree(h, NEXT_BLKP(h, b)) =>
                     bp \in {b, NEXT_BLKP(h, b)}

\* The block b of h is in g with its tags and all that is in it.
Kept(h, g, b) ==
    \A a \in DOMAIN h.mem : b - WSIZE <= a /\ a < b + SizeOf(h, b) - WSIZE => g.mem[a] = h.mem[a]

\* The size in a word is a multiple of 8.
LEMMA SizesAreEights ==
    ASSUME NEW word \in Int
    PROVE  GET_SIZE(word) \in Int /\ GET_SIZE(word) % 8 = 0 /\ GET_SIZE(word) <= word
  BY DEF GET_SIZE

\* Where the tags of a tiled heap are, and what they are.
LEMMA TagsAreWords ==
    ASSUME NEW h, IsHeap(h), NEW B, Tiles(h, B)
    PROVE  /\ h.brk \in Nat /\ h.brk % 8 = 0 /\ h.brk >= 16
           /\ h.brk - 4 \in DOMAIN h.mem
           /\ B \subseteq Int
           /\ \A b \in B : /\ b \in Int /\ b % 8 = 0 /\ 8 <= b /\ b < h.brk
                           /\ b - 4 \in DOMAIN h.mem /\ NEXT_BLKP(h, b) - 8 \in DOMAIN h.mem
                           /\ FTRP(h, b) = NEXT_BLKP(h, b) - 8
                           /\ SizeOf(h, b) \in Int /\ SizeOf(h, b) % 8 = 0 /\ SizeOf(h, b) >= 8
                           /\ b # 8 => b >= 16 /\ SizeOf(h, b) >= 24
                           /\ h.mem[b - 4] \in Int
                           /\ NEXT_BLKP(h, b) = b + SizeOf(h, b)
                           /\ NEXT_BLKP(h, b) \in Int /\ NEXT_BLKP(h, b) % 8 = 0
                           /\ b < NEXT_BLKP(h, b) /\ NEXT_BLKP(h, b) <= h.brk
<1>1. /\ \A a \in Int : a \in DOMAIN h.mem <=> a % 4 = 0 /\ 0 <= a /\ a < h.brk
      /\ \A a \in DOMAIN h.mem : h.mem[a] \in Int
      /\ h.brk \in Nat /\ h.brk % 8 = 0
  BY HeapHas
<1>2. \A b \in B : Tagged(h, B, b)
  BY DEF Tiles
<1>3. h.brk >= 16
  <2>1. Tagged(h, B, DSIZE)
    BY <1>2 DEF Tiles
  <2> QED BY <1>1, <2>1 DEF Tagged, DSIZE
<1>4. h.brk - 4 \in DOMAIN h.mem
  <2>1. (h.brk - 4) % 4 = 0
    BY <1>1, HeaderIsAligned
  <2> QED BY <1>1, <1>3, <2>1
<1>5. ASSUME NEW b \in B
      PROVE  /\ b \in Int /\ b % 8 = 0 /\ 8 <= b /\ b < h.brk
             /\ b - 4 \in DOMAIN h.mem /\ NEXT_BLKP(h, b) - 8 \in DOMAIN h.mem
             /\ FTRP(h, b) = NEXT_BLKP(h, b) - 8
             /\ SizeOf(h, b) \in Int /\ SizeOf(h, b) % 8 = 0 /\ SizeOf(h, b) >= 8
             /\ b # 8 => b >= 16 /\ SizeOf(h, b) >= 24
             /\ h.mem[b - 4] \in Int
             /\ NEXT_BLKP(h, b) = b + SizeOf(h, b)
             /\ NEXT_BLKP(h, b) \in Int /\ NEXT_BLKP(h, b) % 8 = 0
             /\ b < NEXT_BLKP(h, b) /\ NEXT_BLKP(h, b) <= h.brk
  <2>1. b \in Int /\ b % 8 = 0 /\ 8 <= b /\ b < h.brk
    BY <1>1, <1>2 DEF Tagged, DSIZE
  <2>2. b - 4 \in DOMAIN h.mem /\ h.mem[b - 4] \in Int
    <3>1. (b - 4) % 4 = 0
      BY <2>1, HeaderIsAligned
    <3> QED BY <1>1, <2>1, <3>1
  <2>3. SizeOf(h, b) \in Int /\ SizeOf(h, b) % 8 = 0
    BY <2>2, SizesAreEights DEF SizeOf, WSIZE
  <2>4. SizeOf(h, b) >= 8 /\ (b # 8 => SizeOf(h, b) >= 24)
    BY <1>2, <2>3 DEF Tagged, DSIZE
  <2>5. NEXT_BLKP(h, b) = b + SizeOf(h, b)
    BY DEF NEXT_BLKP
  <2>6. NEXT_BLKP(h, b) \in Int /\ NEXT_BLKP(h, b) % 8 = 0 /\ b < NEXT_BLKP(h, b)
    BY <2>1, <2>3, <2>4, <2>5, EightsAdd
  <2>7. NEXT_BLKP(h, b) <= h.brk
    <3>1. CASE NEXT_BLKP(h, b) = h.brk
      BY <2>6, <3>1
    <3>2. CASE NEXT_BLKP(h, b) \in B
      <4>1. NEXT_BLKP(h, b) \in DSIZE..(h.brk - DSIZE)
        BY <1>2, <3>2 DEF Tagged
      <4> QED BY <1>1, <2>6, <4>1 DEF DSIZE
    <3> QED BY <1>2, <3>1, <3>2 DEF Tagged
  <2>8. FTRP(h, b) = NEXT_BLKP(h, b) - 8
    BY <2>1, <2>3, <2>5 DEF FTRP, DSIZE
  <2>9. NEXT_BLKP(h, b) - 8 \in DOMAIN h.mem
    <3>1. (NEXT_BLKP(h, b) - 8) % 4 = 0
      BY <2>6, FooterIsAligned
    <3> QED BY <1>1, <2>1, <2>6, <2>7, <3>1
  <2>10. b # 8 => b >= 16
    BY <2>1, EightsApart
  <2> QED BY <2>1, <2>2, <2>3, <2>4, <2>5, <2>6, <2>7, <2>8, <2>9, <2>10
<1> QED BY <1>1, <1>3, <1>4, <1>5

\* A tiling depends on the tags only.
LEMMA SameTags ==
    ASSUME NEW h, IsHeap(h), NEW B, Tiles(h, B), NEW g, IsHeap(g), g.brk = h.brk,
           \A b \in B : g.mem[b - 4] = h.mem[b - 4] /\ g.mem[NEXT_BLKP(h, b) - 8] = h.mem[NEXT_BLKP(h, b) - 8],
           g.mem[h.brk - 4] = h.mem[h.brk - 4]
    PROVE  /\ Tiles(g, B)
           /\ \A b \in B : /\ SizeOf(g, b) = SizeOf(h, b) /\ (IsFree(g, b) <=> IsFree(h, b))
                           /\ NEXT_BLKP(g, b) = NEXT_BLKP(h, b) /\ FTRP(g, b) = FTRP(h, b)
           /\ Frees(g, B) = Frees(h, B) /\ Taken(g, B) = Taken(h, B)
<1>1. ASSUME NEW b \in B
      PROVE  /\ SizeOf(g, b) = SizeOf(h, b) /\ (IsFree(g, b) <=> IsFree(h, b))
             /\ NEXT_BLKP(g, b) = NEXT_BLKP(h, b) /\ FTRP(g, b) = FTRP(h, b)
             /\ g.mem[FTRP(h, b)] = h.mem[FTRP(h, b)] /\ g.mem[b - WSIZE] = h.mem[b - WSIZE]
  <2>1. SizeOf(g, b) = SizeOf(h, b) /\ (IsFree(g, b) <=> IsFree(h, b))
    BY DEF SizeOf, IsFree, WSIZE
  <2>2. FTRP(h, b) = NEXT_BLKP(h, b) - 8
    BY TagsAreWords
  <2> QED BY <2>1, <2>2 DEF NEXT_BLKP, FTRP, WSIZE
<1>2. \A b \in B : Tagged(g, B, b)
  <2> TAKE b \in B
  <2>1. Tagged(h, B, b)
    BY DEF Tiles
  <2> QED BY <1>1, <2>1 DEF Tagged
<1>3. DSIZE \in B /\ g.mem[DSIZE - WSIZE] = PACK(DSIZE, 1) /\ g.mem[g.brk - WSIZE] = PACK(0, 1)
  BY <1>1 DEF Tiles, WSIZE
<1>4. \A b, c \in B : b < c => NEXT_BLKP(g, b) <= c
  BY <1>1 DEF Tiles
<1>5. \A c \in B \cup {g.brk} : c # DSIZE => \E b \in B : NEXT_BLKP(g, b) = c
  BY <1>1 DEF Tiles
<1>6. Tiles(g, B)
  BY <1>2, <1>3, <1>4, <1>5 DEF Tiles
<1> QED BY <1>1, <1>6 DEF Frees, Taken

\* A block that is kept has its tags.
LEMMA KeptTags ==
    ASSUME NEW h, IsHeap(h), NEW B, Tiles(h, B), NEW b \in B, NEW g, Kept(h, g, b)
    PROVE  /\ g.mem[b - 4] = h.mem[b - 4]
           /\ g.mem[NEXT_BLKP(h, b) - 8] = h.mem[NEXT_BLKP(h, b) - 8]
           /\ SizeOf(g, b) = SizeOf(h, b) /\ (IsFree(g, b) <=> IsFree(h, b))
           /\ NEXT_BLKP(g, b) = NEXT_BLKP(h, b) /\ FTRP(g, b) = FTRP(h, b)
<1>1. /\ b - 4 \in DOMAIN h.mem /\ NEXT_BLKP(h, b) - 8 \in DOMAIN h.mem /\ b \in Int
      /\ SizeOf(h, b) \in Int /\ SizeOf(h, b) >= 8 /\ NEXT_BLKP(h, b) = b + SizeOf(h, b)
  BY TagsAreWords
<1>2. g.mem[b - 4] = h.mem[b - 4]
  BY <1>1 DEF Kept, WSIZE
<1>3. g.mem[NEXT_BLKP(h, b) - 8] = h.mem[NEXT_BLKP(h, b) - 8]
  <2>1. b - 4 <= NEXT_BLKP(h, b) - 8 /\ NEXT_BLKP(h, b) - 8 < b + SizeOf(h, b) - 4
    BY <1>1
  <2> QED BY <1>1, <2>1 DEF Kept, WSIZE
<1>4. SizeOf(g, b) = SizeOf(h, b)
  BY <1>2 DEF SizeOf, WSIZE
<1> QED BY <1>2, <1>3, <1>4 DEF IsFree, NEXT_BLKP, FTRP, WSIZE

\* PREV_BLKP finds the block that leads to bp.
LEMMA PreviousBlock ==
    ASSUME NEW h, IsHeap(h), NEW B, Tiles(h, B), NEW bp \in B \cup {h.brk}, bp # DSIZE
    PROVE  /\ PREV_BLKP(h, bp) \in B
           /\ NEXT_BLKP(h, PREV_BLKP(h, bp)) = bp
           /\ \A b \in B : NEXT_BLKP(h, b) = bp => b = PREV_BLKP(h, bp)
<1>1. PICK p \in B : NEXT_BLKP(h, p) = bp
  BY DEF Tiles
<1>2. p \in Int /\ bp \in Int /\ SizeOf(h, p) \in Int
  BY <1>1, TagsAreWords
<1>3. bp = p + SizeOf(h, p)
  BY <1>1 DEF NEXT_BLKP
<1>4. FTRP(h, p) = bp - DSIZE
  BY <1>2, <1>3 DEF FTRP, DSIZE
<1>5. h.mem[bp - DSIZE] = h.mem[p - WSIZE]
  BY <1>4 DEF Tiles, Tagged
<1>6. PREV_BLKP(h, bp) = bp - SizeOf(h, p)
  BY <1>5 DEF PREV_BLKP, SizeOf
<1>7. PREV_BLKP(h, bp) = p
  BY <1>2, <1>3, <1>6
<1>8. ASSUME NEW b \in B, NEXT_BLKP(h, b) = bp PROVE b = p
  <2>1. b \in Int /\ b < bp /\ p < bp
    BY <1>1, <1>8, TagsAreWords
  <2>2. ~(b < p) /\ ~(p < b)
    BY <1>1, <1>2, <1>8, <2>1 DEF Tiles
  <2> QED BY <1>2, <2>1, <2>2
<1> QED BY <1>1, <1>7, <1>8

\* Blocks lie before a stretch from s to e, in it, or behind it.
LEMMA BlocksAreApart ==
    ASSUME NEW h, IsHeap(h), NEW B, Tiles(h, B), NEW s \in B, NEW e \in B \cup {h.brk}, s < e
    PROVE  \A b \in B : \/ b < s /\ NEXT_BLKP(h, b) <= s
                        \/ b >= s /\ b < e /\ NEXT_BLKP(h, b) <= e
                        \/ b >= e /\ NEXT_BLKP(h, b) > e
<1> TAKE b \in B
<1>1. /\ s \in Int /\ b \in Int /\ NEXT_BLKP(h, b) \in Int
      /\ b < NEXT_BLKP(h, b) /\ NEXT_BLKP(h, b) <= h.brk
  BY TagsAreWords
<1>2. \A c \in B : b < c => NEXT_BLKP(h, b) <= c
  BY DEF Tiles
<1>3. CASE e \in B
  <2>1. e \in Int
    BY <1>3, TagsAreWords
  <2> QED BY <1>1, <1>2, <1>3, <2>1
<1>4. CASE e = h.brk
  BY <1>1, <1>2, <1>4, TagsAreWords
<1> QED BY <1>3, <1>4

\* The tags written again from the start s of a block to the end of this or a
\* later one: the blocks between are merged into one block, the others are kept.
LEMMA Retiled ==
    ASSUME NEW h, IsHeap(h), NEW B, Tiles(h, B), NEW s \in B \ {DSIZE},
           NEW size \in Int, size > 0, s + size \in B \cup {h.brk}, NEW alloc \in {0, 1},
           NEW g, g = PutBlock(h, s, size, alloc),
           NEW C, C = {b \in B : b <= s \/ s + size <= b}
    PROVE  /\ Differ(h, g, TagWords(s, size)) /\ g.lists = h.lists
           /\ Tiles(g, C)
           /\ SizeOf(g, s) = size /\ (IsFree(g, s) <=> alloc = 0)
           /\ NEXT_BLKP(g, s) = s + size
           /\ \A b \in C : b # s => Kept(h, g, b)
<1> DEFINE e == s + size
<1>1. /\ \A b \in B : /\ b \in Int /\ b % 8 = 0 /\ 8 <= b /\ b < h.brk
                      /\ b - 4 \in DOMAIN h.mem /\ NEXT_BLKP(h, b) - 8 \in DOMAIN h.mem
                      /\ FTRP(h, b) = NEXT_BLKP(h, b) - 8
                      /\ SizeOf(h, b) \in Int /\ SizeOf(h, b) % 8 = 0 /\ SizeOf(h, b) >= 8
                      /\ b # 8 => b >= 16 /\ SizeOf(h, b) >= 24
                      /\ NEXT_BLKP(h, b) = b + SizeOf(h, b)
                      /\ NEXT_BLKP(h, b) \in Int /\ NEXT_BLKP(h, b) % 8 = 0
                      /\ b < NEXT_BLKP(h, b) /\ NEXT_BLKP(h, b) <= h.brk
      /\ h.brk \in Nat /\ h.brk % 8 = 0 /\ h.brk - 4 \in DOMAIN h.mem
  BY TagsAreWords
<1>2. /\ s \in Int /\ s % 8 = 0 /\ 16 <= s /\ e \in Int /\ e % 8 = 0 /\ e <= h.brk
      /\ s + 24 <= e
  <2>1. s \in Int /\ s % 8 = 0 /\ s # 8 /\ 16 <= s /\ e \in Int /\ s < e
    BY <1>1 DEF DSIZE
  <2>2. e % 8 = 0 /\ e <= h.brk
    BY <1>1
  <2>3. NEXT_BLKP(h, s) <= e
    <3>1. CASE e \in B
      BY <2>1, <3>1 DEF Tiles
    <3>2. CASE e = h.brk
      BY <1>1, <3>2
    <3> HIDE DEF e
    <3> QED BY <3>1, <3>2 DEF e
  <2> HIDE DEF e
  <2> QED BY <1>1, <2>1, <2>2, <2>3
<1>3. e - 8 \in DOMAIN h.mem
  <2>1. PICK b \in B : NEXT_BLKP(h, b) = e
    BY <1>2 DEF Tiles, DSIZE
  <2> QED BY <1>1, <2>1
<1>4. /\ Differ(h, g, TagWords(s, size)) /\ g.lists = h.lists
      /\ g.mem[s - 4] = PACK(size, alloc) /\ g.mem[e - 8] = PACK(size, alloc)
  <2>1. s - WSIZE \in DOMAIN h.mem /\ s + size - DSIZE \in DOMAIN h.mem
    BY <1>1, <1>3 DEF DSIZE, WSIZE
  <2>2. /\ Differ(h, g, TagWords(s, size)) /\ g.lists = h.lists
        /\ g.mem[s - WSIZE] = PACK(size, alloc) /\ g.mem[s + size - DSIZE] = PACK(size, alloc)
    <3> DEFINE f == PutBlock(h, s, size, alloc)
    <3>1. /\ Differ(h, f, TagWords(s, size)) /\ f.lists = h.lists
          /\ f.mem[s - WSIZE] = PACK(size, alloc) /\ f.mem[s + size - DSIZE] = PACK(size, alloc)
      BY <1>2, <2>1, PutBlockEffect
    <3> QED BY <3>1
  <2>3. Differ(h, g, TagWords(s, size)) /\ g.lists = h.lists
    BY <2>2
  <2>4. g.mem[s - 4] = PACK(size, alloc)
    BY <2>2 DEF WSIZE
  <2>5. g.mem[e - 8] = PACK(size, alloc)
    <3>1. s + size - DSIZE = e - 8
      BY <1>2 DEF DSIZE
    <3> QED BY <2>2, <3>1
  <2> QED BY <2>3, <2>4, <2>5
<1>5. /\ IsHeap(g) /\ g.brk = h.brk /\ DOMAIN g.mem = DOMAIN h.mem
      /\ \A a \in DOMAIN h.mem : a # s - 4 /\ a # e - 8 => g.mem[a] = h.mem[a]
  <2>1. TagWords(s, size) = {s - 4, e - 8}
    BY <1>2 DEF TagWords, WSIZE, DSIZE
  <2> QED BY <1>4, <2>1 DEF Differ
<1>6. ASSUME NEW b \in C, b # s PROVE Kept(h, g, b)
  <2>1. b < s => b + SizeOf(h, b) <= s
    BY <1>1, <1>2 DEF Tiles
  <2>2. b < s \/ b >= e
    BY <1>1, <1>2, <1>6
  <2> SUFFICES ASSUME NEW a \in DOMAIN h.mem, b - 4 <= a, a < b + SizeOf(h, b) - 4
               PROVE  g.mem[a] = h.mem[a]
    BY DEF Kept, WSIZE
  <2>3. a \in Int
    BY HeapHas
  <2>4. a # s - 4 /\ a # e - 8
    BY <1>1, <1>2, <2>1, <2>2, <2>3
  <2> QED BY <1>5, <2>4
<1>7. ASSUME NEW b \in C, b # s
      PROVE  /\ g.mem[b - 4] = h.mem[b - 4] /\ g.mem[FTRP(h, b)] = h.mem[FTRP(h, b)]
             /\ SizeOf(g, b) = SizeOf(h, b) /\ NEXT_BLKP(g, b) = NEXT_BLKP(h, b)
             /\ FTRP(g, b) = FTRP(h, b)
  BY <1>1, <1>6, <1>7, KeptTags
<1>8. /\ s \in C /\ e \in C \cup {h.brk}
      /\ SizeOf(g, s) = size /\ NEXT_BLKP(g, s) = e /\ FTRP(g, s) = e - 8
      /\ IsFree(g, s) <=> alloc = 0
  <2>1. s \in C /\ e \in C \cup {h.brk}
    BY <1>1, <1>2
  <2>2. size % 8 = 0
    <3>1. size = e - s
      BY <1>2
    <3> QED BY <1>2, <3>1, EightsAdd
  <2>3. SizeOf(g, s) = size /\ (IsFree(g, s) <=> alloc = 0)
    <3> HIDE DEF e
    <3> QED BY <1>4, <2>2 DEF SizeOf, GET_SIZE, PACK, IsFree, WSIZE
  <2>4. NEXT_BLKP(g, s) = e
    BY <2>3 DEF NEXT_BLKP
  <2>5. FTRP(g, s) = e - 8
    BY <1>2, <2>3 DEF FTRP, DSIZE
  <2> HIDE DEF e
  <2> QED BY <2>1, <2>3, <2>4, <2>5
<1>9. ASSUME NEW b \in C PROVE Tagged(g, C, b)
  <2>1. CASE b = s
    <3>1. b \in 8..(h.brk - 8) /\ b % 8 = 0 /\ SizeOf(g, b) >= 24
      BY <1>1, <1>2, <1>8, <2>1
    <3>2. g.mem[FTRP(g, b)] = g.mem[b - 4]
      BY <1>4, <1>8, <2>1
    <3> QED BY <3>1, <3>2, <2>1, <1>5, <1>8 DEF Tagged, WSIZE, DSIZE
  <2>2. CASE b # s
    <3>1. Tagged(h, B, b)
      BY DEF Tiles
    <3>2. NEXT_BLKP(h, b) \in C \cup {h.brk}
      <4>1. \/ b < s /\ NEXT_BLKP(h, b) <= s
            \/ b >= e /\ NEXT_BLKP(h, b) > e
        <5>1. b < s => NEXT_BLKP(h, b) <= s
          BY DEF Tiles
        <5> QED BY <1>1, <1>2, <2>2, <5>1
      <4> QED BY <1>1, <1>2, <3>1, <4>1 DEF Tagged
    <3> QED BY <1>5, <1>7, <2>2, <3>1, <3>2 DEF Tagged, WSIZE
  <2> QED BY <2>1, <2>2
<1>10. ASSUME NEW b \in C, NEW c \in C, b < c PROVE NEXT_BLKP(g, b) <= c
  <2>1. CASE b = s
    <3>1. c >= e
      BY <1>1, <1>2, <1>10, <2>1
    <3> QED BY <1>8, <2>1, <3>1
  <2>2. CASE b # s
    BY <1>7, <1>10, <2>2 DEF Tiles
  <2> QED BY <2>1, <2>2
<1>11. ASSUME NEW c \in C \cup {h.brk}, c # DSIZE PROVE \E b \in C : NEXT_BLKP(g, b) = c
  <2>1. PICK b \in B : NEXT_BLKP(h, b) = c
    BY <1>11 DEF Tiles
  <2>2. CASE b \in C /\ b # s
    BY <1>7, <2>1, <2>2
  <2>3. CASE ~(b \in C /\ b # s)
    <3>1. b >= s /\ b < e
      BY <1>1, <1>2, <2>3
    <3>2. c <= e
      <4>1. CASE e \in B
        BY <1>1, <3>1, <4>1, <2>1 DEF Tiles
      <4>2. CASE e = h.brk
        BY <1>1, <4>2, <2>1
      <4> QED BY <4>1, <4>2
    <3>3. c = e
      <4>1. c \in Int /\ c > s
        BY <1>1, <1>2, <2>1, <3>1
      <4> QED BY <1>1, <1>2, <3>2, <4>1
    <3> QED BY <1>8, <3>3
  <2> QED BY <2>2, <2>3
<1>12. DSIZE \in C /\ g.mem[DSIZE - WSIZE] = PACK(DSIZE, 1)
  <2>1. DSIZE \in C /\ DSIZE # s
    BY <1>1, <1>2 DEF Tiles, DSIZE
  <2> QED BY <1>7, <2>1 DEF Tiles, WSIZE
<1>13. g.mem[g.brk - WSIZE] = PACK(0, 1)
  <2>1. h.brk - 4 # s - 4 /\ h.brk - 4 # e - 8
    <3>1. h.brk # s
      BY <1>1, <1>2
    <3>2. h.brk # e - 4
      BY <1>1, <1>2, HeaderIsAligned
    <3> QED BY <1>1, <1>2, <3>1, <3>2
  <2> QED BY <1>1, <1>5, <2>1 DEF Tiles, WSIZE
<1>14. Tiles(g, C)
  BY <1>5, <1>9, <1>10, <1>11, <1>12, <1>13 DEF Tiles
<1>15. Differ(h, g, TagWords(s, size)) /\ g.lists = h.lists
  BY <1>4
<1>16. SizeOf(g, s) = size /\ (IsFree(g, s) <=> alloc = 0) /\ NEXT_BLKP(g, s) = s + size
  BY <1>8
<1> HIDE DEF e
<1> QED BY <1>6, <1>14, <1>15, <1>16

\* The free blocks are not the prologue, nor is any block at the end of the heap.
LEMMA FreesAre ==
    ASSUME NEW h, IsHeap(h), NEW B, Tiles(h, B)
    PROVE  /\ Frees(h, B) \subseteq B \ {DSIZE} /\ DSIZE \notin Frees(h, B)
           /\ ~IsFree(h, h.brk) /\ SizeOf(h, h.brk) = 0
           /\ h.brk \notin B /\ NULL \notin B
           /\ DSIZE \in B
<1>1. ~IsFree(h, DSIZE)
  BY DEF Tiles, IsFree, PACK, DSIZE
<1>2. ~IsFree(h, h.brk) /\ SizeOf(h, h.brk) = 0
  BY DEF Tiles, IsFree, SizeOf, GET_SIZE, PACK
<1>3. h.brk \notin B /\ NULL \notin B
  BY TagsAreWords DEF NULL
<1> QED BY <1>1, <1>2, <1>3 DEF Frees, Tiles

\* All blocks but the prologue have room for links.
LEMMA PlacesIn ==
    ASSUME NEW h, IsHeap(h), NEW B, Tiles(h, B), NEW F \in SUBSET (B \ {DSIZE})
    PROVE  ArePlaces(h, F)
<1>1. \A b \in B : /\ b \in Int /\ b % 8 = 0 /\ 8 <= b /\ b < h.brk
                   /\ SizeOf(h, b) \in Int
                   /\ b # 8 => b >= 16 /\ SizeOf(h, b) >= 24
                   /\ NEXT_BLKP(h, b) = b + SizeOf(h, b)
                   /\ b < NEXT_BLKP(h, b) /\ NEXT_BLKP(h, b) <= h.brk
  BY TagsAreWords
<1>2. \A p \in F : p \in B /\ p # 8
  BY DEF DSIZE
<1>3. \A p \in F : p \in Int /\ p % 8 = 0 /\ p >= 8 /\ p + 8 <= h.brk
  BY <1>1, <1>2, TagsAreWords
<1>4. ASSUME NEW p \in F, NEW q \in F, p < q PROVE p + 16 <= q
  <2>1. NEXT_BLKP(h, p) <= q
    BY <1>2, <1>4 DEF Tiles
  <2> QED BY <1>1, <1>2, <2>1
<1> QED BY <1>3, <1>4 DEF ArePlaces

\* The links of blocks are no tags, and no words of other blocks.
LEMMA LinksKeepTiles ==
    ASSUME NEW h, IsHeap(h), NEW B, Tiles(h, B), NEW F \in SUBSET (B \ {DSIZE}),
           NEW g, Differ(h, g, LinkWords(F))
    PROVE  /\ Tiles(g, B)
           /\ \A b \in B : /\ SizeOf(g, b) = SizeOf(h, b) /\ (IsFree(g, b) <=> IsFree(h, b))
                           /\ NEXT_BLKP(g, b) = NEXT_BLKP(h, b)
           /\ Frees(g, B) = Frees(h, B) /\ Taken(g, B) = Taken(h, B)
           /\ \A b \in B \ F : Kept(h, g, b)
<1>1. /\ \A b \in B : /\ b \in Int /\ b % 8 = 0 /\ 8 <= b /\ b < h.brk
                      /\ b - 4 \in DOMAIN h.mem /\ NEXT_BLKP(h, b) - 8 \in DOMAIN h.mem
                      /\ SizeOf(h, b) \in Int
                      /\ b # 8 => SizeOf(h, b) >= 24
                      /\ NEXT_BLKP(h, b) = b + SizeOf(h, b)
                      /\ NEXT_BLKP(h, b) \in Int
                      /\ b < NEXT_BLKP(h, b) /\ NEXT_BLKP(h, b) <= h.brk
      /\ h.brk \in Nat /\ h.brk - 4 \in DOMAIN h.mem
  BY TagsAreWords
<1>2. \A a : a \in LinkWords(F) => \E p \in F : a \in {p, p + 4}
  BY DEF LinkWords, NEXT_PTR, WSIZE
<1>3. \A p \in F : p \in B /\ p # 8
  BY DEF DSIZE
<1>4. ASSUME NEW b \in B, NEW p \in F, b # p PROVE b + SizeOf(h, b) <= p \/ p + SizeOf(h, p) <= b
  BY <1>1, <1>3, <1>4 DEF Tiles
<1>5. /\ IsHeap(g) /\ g.brk = h.brk
      /\ \A a \in DOMAIN h.mem : a \notin LinkWords(F) => g.mem[a] = h.mem[a]
  BY DEF Differ
<1>6. ASSUME NEW b \in B
      PROVE  b - 4 \notin LinkWords(F) /\ NEXT_BLKP(h, b) - 8 \notin LinkWords(F)
  <2> SUFFICES ASSUME NEW p \in F
               PROVE  /\ b - 4 \notin {p, p + 4} /\ NEXT_BLKP(h, b) - 8 \notin {p, p + 4}
    BY <1>2
  <2>1. p \in Int /\ p % 8 = 0 /\ SizeOf(h, p) \in Int /\ SizeOf(h, p) >= 24
    BY <1>1, <1>3
  <2>2. b \in Int /\ NEXT_BLKP(h, b) = b + SizeOf(h, b) /\ SizeOf(h, b) \in Int
        /\ b < NEXT_BLKP(h, b)
    BY <1>1
  <2>3. CASE b = p
    BY <2>1, <2>2, <2>3
  <2>4. CASE b # p
    BY <1>4, <2>1, <2>2, <2>4
  <2> QED BY <2>3, <2>4
<1>7. h.brk - 4 \notin LinkWords(F)
  <2> SUFFICES ASSUME NEW p \in F PROVE h.brk - 4 \notin {p, p + 4}
    BY <1>2
  <2> QED BY <1>1, <1>3
<1>8. ASSUME NEW b \in B \ F PROVE Kept(h, g, b)
  <2> SUFFICES ASSUME NEW a \in DOMAIN h.mem, b - 4 <= a, a < b + SizeOf(h, b) - 4
               PROVE  a \notin LinkWords(F)
    BY <1>5 DEF Kept, WSIZE
  <2> SUFFICES ASSUME NEW p \in F PROVE a \notin {p, p + 4}
    BY <1>2
  <2>1. a \in Int
    BY HeapHas
  <2>2. p \in Int /\ SizeOf(h, p) \in Int /\ SizeOf(h, p) >= 24
    BY <1>1, <1>3
  <2>3. b + SizeOf(h, b) <= p \/ p + SizeOf(h, p) <= b
    BY <1>4
  <2> QED BY <1>1, <2>1, <2>2, <2>3
<1>9. /\ \A b \in B : g.mem[b - 4] = h.mem[b - 4] /\ g.mem[NEXT_BLKP(h, b) - 8] = h.mem[NEXT_BLKP(h, b) - 8]
      /\ g.mem[h.brk - 4] = h.mem[h.brk - 4]
  BY <1>1, <1>5, <1>6, <1>7
<1>10. /\ Tiles(g, B)
       /\ \A b \in B : /\ SizeOf(g, b) = SizeOf(h, b) /\ (IsFree(g, b) <=> IsFree(h, b))
                       /\ NEXT_BLKP(g, b) = NEXT_BLKP(h, b)
       /\ Frees(g, B) = Frees(h, B) /\ Taken(g, B) = Taken(h, B)
  BY <1>5, <1>9, SameTags
<1> QED BY <1>8, <1>10

\* Lists stay linked while their nodes and their heads are kept.
LEMMA StillLinked ==
    ASSUME NEW h, IsHeap(h), NEW B, Tiles(h, B), NEW F \in SUBSET (B \ {DSIZE}), Linked(h, F),
           NEW g, g.lists = h.lists, g.brk \in Int, g.brk >= h.brk, \A p \in F : Kept(h, g, p)
    PROVE  Linked(g, F)
<1>1. ArePlaces(g, F)
  <2>1. ArePlaces(h, F)
    BY DEF Linked
  <2> QED BY <2>1, TagsAreWords DEF ArePlaces
<1>2. ASSUME NEW p \in F
      PROVE  SizeOf(g, p) = SizeOf(h, p) /\ PREV(g, p) = PREV(h, p) /\ NEXT(g, p) = NEXT(h, p)
  <2>1. p \in B /\ p # 8
    BY DEF DSIZE
  <2>2. p \in Int /\ SizeOf(h, p) \in Int /\ SizeOf(h, p) >= 24
    BY <2>1, TagsAreWords
  <2>3. p \in DOMAIN h.mem /\ p + 4 \in DOMAIN h.mem
    <3>1. ArePlaces(h, F)
      BY DEF Linked
    <3> QED BY <3>1, PlacesAre DEF NEXT_PTR, WSIZE
  <2>4. g.mem[p] = h.mem[p] /\ g.mem[p + 4] = h.mem[p + 4]
    BY <2>2, <2>3 DEF Kept, WSIZE
  <2>5. SizeOf(g, p) = SizeOf(h, p)
    BY <2>1, KeptTags
  <2> QED BY <2>4, <2>5 DEF PREV, NEXT, PREV_PTR, NEXT_PTR, WSIZE
<1> QED BY <1>1, <1>2, LinkedKept

----------------------------------------------------------------------------
\* Coalescing

\* A heap in order: its blocks tile it, and the free ones are linked.
InOrder(h, B) == IsHeap(h) /\ Tiles(h, B) /\ Linked(h, Frees(h, B))

\* Where the block begins that coalesce makes of bp ...
MergeStart(h, bp) == IF IsFree(h, PREV_BLKP(h, bp)) THEN PREV_BLKP(h, bp) ELSE bp

\* ... and where it ends.
MergeEnd(h, bp) ==
    IF IsFree(h, NEXT_BLKP(h, bp)) THEN NEXT_BLKP(h, NEXT_BLKP(h, bp)) ELSE NEXT_BLKP(h, bp)

\* What coalesce merges: bp's block with the free ones of its neighbours.
LEMMA MergedBlock ==
    ASSUME NEW h, IsHeap(h), NEW B, Tiles(h, B), NEW bp \in B \ {DSIZE}, IsFree(h, bp),
           NEW prev, prev = PREV_BLKP(h, bp), NEW next, next = NEXT_BLKP(h, bp),
           NEW s, s = MergeStart(h, bp), NEW e, e = MergeEnd(h, bp)
    PROVE  /\ s \in B \ {DSIZE} /\ e \in B \cup {h.brk} /\ IsFree(h, s)
           /\ s \in Int /\ bp \in Int /\ next \in Int /\ e \in Int
           /\ s <= bp /\ bp + 24 <= next /\ next <= e
           /\ prev \in B /\ prev \in Int /\ prev < bp /\ NEXT_BLKP(h, prev) = bp
           /\ IsFree(h, prev) => s = prev
           /\ ~IsFree(h, prev) => s = bp
           /\ IsFree(h, next) => e = NEXT_BLKP(h, next) /\ next \in B /\ next < e
           /\ ~IsFree(h, next) => e = next
           /\ \A b \in B : NEXT_BLKP(h, b) = bp => b = prev
           /\ \A b \in B : s <= b /\ b < e <=> b = bp \/ (b = prev /\ IsFree(h, prev)) \/ (b = next /\ IsFree(h, next))
<1>1. /\ prev \in B /\ NEXT_BLKP(h, prev) = bp
      /\ \A b \in B : NEXT_BLKP(h, b) = bp => b = prev
  BY PreviousBlock
<1>2. \A b \in B : /\ b \in Int /\ SizeOf(h, b) \in Int
                   /\ b # 8 => SizeOf(h, b) >= 24
                   /\ NEXT_BLKP(h, b) = b + SizeOf(h, b)
                   /\ NEXT_BLKP(h, b) \in Int
                   /\ b < NEXT_BLKP(h, b) /\ NEXT_BLKP(h, b) <= h.brk
                   /\ NEXT_BLKP(h, b) \in B \cup {h.brk}
  BY TagsAreWords DEF Tiles, Tagged
<1>3. h.brk \in Int
  BY TagsAreWords
<1>4. ~IsFree(h, h.brk) /\ ~IsFree(h, DSIZE)
  BY FreesAre DEF Frees
<1>5. /\ IsFree(h, prev) => s = prev
      /\ ~IsFree(h, prev) => s = bp
      /\ IsFree(h, next) => e = NEXT_BLKP(h, next)
      /\ ~IsFree(h, next) => e = next
  BY DEF MergeStart, MergeEnd
<1>6. IsFree(h, next) => next \in B
  BY <1>2, <1>4
<1>7. bp + 24 <= next
  BY <1>2 DEF DSIZE
<1>8. prev < bp /\ prev \in Int /\ next \in Int /\ bp \in Int
  BY <1>1, <1>2
<1>9. e \in B \cup {h.brk} /\ e \in Int /\ next <= e /\ (IsFree(h, next) => next < e)
  BY <1>2, <1>3, <1>5, <1>6
<1>10. s \in B \ {DSIZE} /\ IsFree(h, s) /\ s \in Int /\ s <= bp
  BY <1>1, <1>4, <1>5, <1>8
<1>11. \A b \in B : b < bp => b <= prev
  <2> SUFFICES ASSUME NEW b \in B, b < bp, prev < b PROVE FALSE
    BY <1>2, <1>8
  <2>1. NEXT_BLKP(h, prev) <= b
    BY <1>1 DEF Tiles
  <2> QED BY <1>1, <1>2, <1>8, <2>1
<1>12. \A b \in B : bp < b => next <= b
  BY DEF Tiles
<1>13. ASSUME IsFree(h, next), NEW b \in B PROVE next < b => e <= b
  BY <1>5, <1>6, <1>13 DEF Tiles
<1>14. ASSUME NEW b \in B
       PROVE  s <= b /\ b < e <=> b = bp \/ (b = prev /\ IsFree(h, prev)) \/ (b = next /\ IsFree(h, next))
  <2>1. b \in Int /\ (b < bp => b <= prev) /\ (bp < b => next <= b) /\ (IsFree(h, next) /\ next < b => e <= b)
    BY <1>2, <1>11, <1>12, <1>13
  <2> QED BY <1>5, <1>7, <1>8, <1>9, <1>10, <2>1
<1> QED BY <1>1, <1>5, <1>6, <1>7, <1>8, <1>9, <1>10, <1>14

\* Writing fewer words is writing no more.
LEMMA DifferMore ==
    ASSUME NEW h, NEW g, NEW V, NEW W, V \subseteq W, Differ(h, g, V)
    PROVE  Differ(h, g, W)
  BY DEF Differ

\* One more node leaves its list.
LEMMA DeleteMore ==
    ASSUME NEW h, IsHeap(h), NEW E, NEW F \in SUBSET E,
           NEW f, Differ(h, f, LinkWords(E)), Linked(f, F), NEW p \in F,
           NEW g, g = delete_node(f, p), NEW G, G = F \ {p}
    PROVE  Differ(h, g, LinkWords(E)) /\ Linked(g, G)
<1>1. IsHeap(f)
  BY DEF Differ
<1>2. Differ(f, g, LinkWords(F \ {p})) /\ Linked(g, F \ {p})
  BY <1>1, DeleteLinked
<1>3. LinkWords(F \ {p}) \subseteq LinkWords(E)
  BY DEF LinkWords
<1>4. Differ(f, g, LinkWords(E))
  BY <1>2, <1>3, DifferMore
<1>5. Differ(h, g, LinkWords(E) \cup LinkWords(E))
  BY <1>4, DifferTwice
<1>6. LinkWords(E) \cup LinkWords(E) = LinkWords(E)
  OBVIOUS
<1> QED BY <1>2, <1>5, <1>6

\* No words written is not different.
LEMMA DifferNot ==
    ASSUME NEW h, IsHeap(h), NEW W
    PROVE  Differ(h, h, W)
  BY DEF Differ

\* The nodes of the blocks that coalesce merges leave their lists.
MergeDeleted(h, bp) ==
    LET prev == PREV_BLKP(h, bp)
        next == NEXT_BLKP(h, bp)
    IN  IF MergeStart(h, bp) = bp THEN delete_node(delete_node(h, next), bp)
        ELSE IF MergeEnd(h, bp) = next THEN delete_node(delete_node(h, prev), bp)
        ELSE delete_node(delete_node(delete_node(h, prev), bp), next)

\* What is left of the lists are the free blocks that are not merged.
LEMMA MergedLeaveLists ==
    ASSUME NEW h, NEW B, InOrder(h, B), NEW bp \in B \ {DSIZE}, IsFree(h, bp),
           NEW s, s = MergeStart(h, bp), NEW e, e = MergeEnd(h, bp),
           s # bp \/ e # NEXT_BLKP(h, bp),
           NEW d, d = MergeDeleted(h, bp)
    PROVE  /\ Differ(h, d, LinkWords(Frees(h, B)))
           /\ Linked(d, {b \in Frees(h, B) : b < s \/ e <= b})
<1> DEFINE F == Frees(h, B)
           G == {b \in F : b < s \/ e <= b}
           prev == PREV_BLKP(h, bp)
           next == NEXT_BLKP(h, bp)
<1>1. IsHeap(h) /\ Tiles(h, B) /\ Linked(h, F)
  BY DEF InOrder
<1>2. /\ s \in Int /\ bp \in Int /\ next \in Int /\ e \in Int
      /\ s <= bp /\ bp + 24 <= next /\ next <= e
      /\ prev \in B /\ prev \in Int /\ prev < bp
      /\ IsFree(h, prev) => s = prev
      /\ ~IsFree(h, prev) => s = bp
      /\ IsFree(h, next) => next \in B /\ next < e
      /\ ~IsFree(h, next) => e = next
      /\ \A b \in B : s <= b /\ b < e <=> b = bp \/ (b = prev /\ IsFree(h, prev)) \/ (b = next /\ IsFree(h, next))
  BY <1>1, MergedBlock
<1>3. \A b : b \in F <=> b \in B /\ IsFree(h, b)
  BY DEF Frees
<1>4. \A b \in F : b \in Int
  BY <1>1, <1>3, TagsAreWords
<1>5. \A b \in F : b \in G <=> ~(b = bp \/ (b = prev /\ IsFree(h, prev)) \/ (b = next /\ IsFree(h, next)))
  BY <1>2, <1>3, <1>4
<1>6. G \subseteq F
  OBVIOUS
<1>7. Differ(h, h, LinkWords(F)) /\ bp \in F
  BY <1>1, <1>3, DifferNot
<1>8. d = IF s = bp THEN delete_node(delete_node(h, next), bp)
          ELSE IF e = next THEN delete_node(delete_node(h, prev), bp)
          ELSE delete_node(delete_node(delete_node(h, prev), bp), next)
  BY DEF MergeDeleted
<1> HIDE DEF F, G, prev, next
<1>9. CASE s = bp
  <2> DEFINE d1 == delete_node(h, next)
  <2>1. ~IsFree(h, prev) /\ IsFree(h, next) /\ e # next
    BY <1>2, <1>9 DEF next
  <2>2. next \in F /\ bp # next
    BY <1>2, <1>3, <2>1
  <2>3. Differ(h, d1, LinkWords(F)) /\ Linked(d1, F \ {next})
    BY <1>1, <1>7, <2>2, DeleteMore
  <2>4. d = delete_node(d1, bp)
    BY <1>8, <1>9
  <2> HIDE DEF d1
  <2>5. G = (F \ {next}) \ {bp}
    BY <1>5, <1>6, <2>1
  <2>6. bp \in F \ {next} /\ F \ {next} \subseteq F
    BY <1>7, <2>2
  <2> QED BY <1>1, <2>3, <2>4, <2>5, <2>6, DeleteMore DEF F, G
<1>10. CASE s # bp
  <2> DEFINE d1 == delete_node(h, prev)
             d2 == delete_node(d1, bp)
  <2>1. IsFree(h, prev) /\ prev \in F /\ prev # bp
    BY <1>2, <1>3, <1>10
  <2>2. Differ(h, d1, LinkWords(F)) /\ Linked(d1, F \ {prev})
    BY <1>1, <1>7, <2>1, DeleteMore
  <2>3. d = IF e = next THEN d2 ELSE delete_node(d2, next)
    BY <1>8, <1>10
  <2>4. bp \in F \ {prev} /\ F \ {prev} \subseteq F
    BY <1>7, <2>1
  <2> HIDE DEF d1
  <2>5. Differ(h, d2, LinkWords(F)) /\ Linked(d2, (F \ {prev}) \ {bp})
    BY <1>1, <2>2, <2>4, DeleteMore
  <2> HIDE DEF d2
  <2>6. CASE e = next
    <3>1. ~IsFree(h, next)
      BY <1>2, <2>6
    <3>2. G = (F \ {prev}) \ {bp}
      BY <1>5, <1>6, <2>1, <3>1
    <3> QED BY <2>3, <2>5, <2>6, <3>2 DEF F, G
  <2>7. CASE e # next
    <3>1. IsFree(h, next) /\ next \in F /\ next # bp /\ next # prev
      BY <1>2, <1>3, <2>7
    <3>2. G = ((F \ {prev}) \ {bp}) \ {next}
      BY <1>5, <1>6, <2>1, <3>1
    <3>3. next \in (F \ {prev}) \ {bp} /\ (F \ {prev}) \ {bp} \subseteq F
      BY <3>1
    <3>4. d = delete_node(d2, next)
      BY <2>3, <2>7
    <3> QED BY <1>1, <2>5, <3>2, <3>3, <3>4, DeleteMore DEF F, G
  <2> QED BY <2>6, <2>7
<1> QED BY <1>9, <1>10

\* coalesce in these terms.
LEMMA CoalesceIs ==
    ASSUME NEW h, NEW bp, NEW s, s = MergeStart(h, bp), NEW e, e = MergeEnd(h, bp)
    PROVE  /\ coalesce(h, bp).bp = s
           /\ s = bp /\ e = NEXT_BLKP(h, bp) => coalesce(h, bp).heap = h
           /\ ~(s = bp /\ e = NEXT_BLKP(h, bp)) =>
                  coalesce(h, bp).heap = insert_node(PutBlock(MergeDeleted(h, bp), s, e - s, 0), s, e - s)
<1> DEFINE d == MergeDeleted(h, bp)
           merged == insert_node(PutBlock(d, s, e - s, 0), s, e - s)
<1>1. coalesce(h, bp) = IF s = bp /\ e = NEXT_BLKP(h, bp) THEN [heap |-> h, bp |-> bp]
                        ELSE [heap |-> merged, bp |-> s]
  BY DEF coalesce, MergeDeleted, MergeStart, MergeEnd
<1> HIDE DEF merged
<1> QED BY <1>1 DEF merged, d

\* A word that is not in a set of links and not a tag.
LEMMA WordKept ==
    ASSUME NEW h, NEW g, NEW W, Differ(h, g, W), NEW a \in DOMAIN h.mem, a \notin W
    PROVE  g.mem[a] = h.mem[a]
  BY DEF Differ

\* The blocks C of r.heap are the blocks B of h, but for the free block from s to e,
\* which touches no other free block; the word before its footer is the same.
Merged(h, B, r, C, s, e) ==
    /\ r.bp = s /\ r.heap.brk = h.brk /\ DOMAIN r.heap.mem = DOMAIN h.mem
    /\ InOrder(r.heap, C) /\ Apart(r.heap, C, NULL)
    /\ s \in C /\ IsFree(r.heap, s) /\ NEXT_BLKP(r.heap, s) = e
    /\ Taken(r.heap, C) = Taken(h, B)
    /\ \A b \in Taken(h, B) : Kept(h, r.heap, b)
    /\ \A b \in C : b # s => /\ NEXT_BLKP(r.heap, b) = NEXT_BLKP(h, b)
                             /\ SizeOf(r.heap, b) = SizeOf(h, b)
                             /\ IsFree(r.heap, b) <=> IsFree(h, b)
    /\ r.heap.mem[e - 12] = h.mem[e - 12]

\* A free block that may touch other free blocks becomes one that touches none;
\* the allocated blocks are kept, and so is the word before the footer.
LEMMA Coalesced ==
    ASSUME NEW h, NEW B, InOrder(h, B), NEW bp \in B \ {DSIZE}, IsFree(h, bp), Apart(h, B, bp),
           NEW s, s = MergeStart(h, bp), NEW e, e = MergeEnd(h, bp),
           NEW r, r = coalesce(h, bp), NEW C, C = {b \in B : b <= s \/ e <= b}
    PROVE  Merged(h, B, r, C, s, e)
<1> DEFINE prev == PREV_BLKP(h, bp)
           next == NEXT_BLKP(h, bp)
           F == Frees(h, B)
           G == {b \in F : b < s \/ e <= b}
           g == r.heap
           size == e - s
<1>1. IsHeap(h) /\ Tiles(h, B) /\ Linked(h, F)
  BY DEF InOrder
<1>2. /\ s \in B \ {DSIZE} /\ e \in B \cup {h.brk} /\ IsFree(h, s)
      /\ s \in Int /\ bp \in Int /\ next \in Int /\ e \in Int
      /\ s <= bp /\ bp + 24 <= next /\ next <= e
      /\ prev \in B /\ prev \in Int /\ prev < bp /\ NEXT_BLKP(h, prev) = bp
      /\ IsFree(h, prev) => s = prev
      /\ ~IsFree(h, prev) => s = bp
      /\ IsFree(h, next) => e = NEXT_BLKP(h, next) /\ next \in B /\ next < e
      /\ ~IsFree(h, next) => e = next
      /\ \A b \in B : NEXT_BLKP(h, b) = bp => b = prev
      /\ \A b \in B : s <= b /\ b < e <=> b = bp \/ (b = prev /\ IsFree(h, prev)) \/ (b = next /\ IsFree(h, next))
  BY <1>1, MergedBlock
<1>3. \A b \in B : /\ b \in Int /\ 8 <= b /\ SizeOf(h, b) \in Int
                   /\ b # 8 => SizeOf(h, b) >= 24
                   /\ NEXT_BLKP(h, b) = b + SizeOf(h, b)
                   /\ NEXT_BLKP(h, b) \in Int
                   /\ b < NEXT_BLKP(h, b) /\ NEXT_BLKP(h, b) <= h.brk
                   /\ NEXT_BLKP(h, b) \in B \cup {h.brk}
  BY <1>1, TagsAreWords DEF Tiles, Tagged
<1>4. s \in C /\ \A b \in C : b \in B /\ (b # s => b < s \/ e <= b)
  BY <1>2, <1>3
<1>5. \A b \in Taken(h, B) : b \in C /\ b # s /\ b \notin F
  BY <1>2, <1>3 DEF Taken, Frees
<1>6. r.bp = s
  BY CoalesceIs
<1>7. /\ InOrder(g, C) /\ g.brk = h.brk /\ DOMAIN g.mem = DOMAIN h.mem
      /\ IsFree(g, s) /\ NEXT_BLKP(g, s) = e
      /\ \A b \in Taken(h, B) : Kept(h, g, b)
      /\ \A b \in C : b # s => /\ NEXT_BLKP(g, b) = NEXT_BLKP(h, b)
                               /\ SizeOf(g, b) = SizeOf(h, b)
                               /\ IsFree(g, b) <=> IsFree(h, b)
      /\ g.mem[e - 12] = h.mem[e - 12]
  <2>1. CASE s = bp /\ e = next
    <3>1. g = h
      BY <2>1, CoalesceIs
    <3>2. C = B
      <4>1. \A b \in B : bp < b => next <= b
        BY <1>1 DEF Tiles
      <4>2. \A b \in B : b <= s \/ e <= b
        BY <1>2, <1>3, <2>1, <4>1
      <4> QED BY <4>2
    <3> QED BY <1>2, <2>1, <3>1, <3>2 DEF Kept
  <2>2. CASE ~(s = bp /\ e = next)
    <3> DEFINE d == MergeDeleted(h, bp)
               f == PutBlock(d, s, size, 0)
               D == LinkWords(F) \cup TagWords(s, size) \cup LinkWords(G \cup {s})
    <3>1. g = insert_node(f, s, size)
      BY <2>2, CoalesceIs
    <3>2. Differ(h, d, LinkWords(F)) /\ Linked(d, G)
      BY <2>2, MergedLeaveLists
    <3>3. F \in SUBSET (B \ {DSIZE})
      BY <1>1, FreesAre
    <3> HIDE DEF d
    <3>4. IsHeap(d) /\ d.brk = h.brk /\ DOMAIN d.mem = DOMAIN h.mem
      BY <3>2 DEF Differ
    <3>5. /\ Tiles(d, B)
          /\ \A b \in B : /\ SizeOf(d, b) = SizeOf(h, b) /\ (IsFree(d, b) <=> IsFree(h, b))
                          /\ NEXT_BLKP(d, b) = NEXT_BLKP(h, b)
          /\ \A b \in B \ F : Kept(h, d, b)
      BY <1>1, <3>2, <3>3, LinksKeepTiles
    <3>6. size \in Int /\ size > 0 /\ s + size = e /\ size >= 24
      BY <1>2
    <3> HIDE DEF size
    <3>7. /\ Differ(d, f, TagWords(s, size)) /\ f.lists = d.lists
          /\ Tiles(f, C)
          /\ SizeOf(f, s) = size /\ IsFree(f, s)
          /\ NEXT_BLKP(f, s) = e
          /\ \A b \in C : b # s => Kept(d, f, b)
      <4>1. s + size \in B \cup {d.brk} /\ C = {b \in B : b <= s \/ s + size <= b}
        BY <1>2, <3>4, <3>6
      <4>2. s \in B \ {DSIZE} /\ 0 \in {0, 1} /\ f = PutBlock(d, s, size, 0)
        BY <1>2
      <4> HIDE DEF f
      <4>3. /\ Differ(d, f, TagWords(s, size)) /\ f.lists = d.lists
            /\ Tiles(f, C)
            /\ SizeOf(f, s) = size /\ (IsFree(f, s) <=> 0 = 0)
            /\ NEXT_BLKP(f, s) = s + size
            /\ \A b \in C : b # s => Kept(d, f, b)
        BY <3>4, <3>5, <3>6, <4>1, <4>2, Retiled
      <4> QED BY <3>6, <4>3
    <3> HIDE DEF f
    <3>8. IsHeap(f) /\ f.brk = h.brk /\ DOMAIN f.mem = DOMAIN h.mem
      BY <3>4, <3>7 DEF Differ
    <3>9. G \in SUBSET (B \ {DSIZE}) /\ s \notin G /\ G \cup {s} \in SUBSET (C \ {DSIZE})
      <4>1. \A b \in G : b \in B \ {DSIZE} /\ b \in Int /\ (b < s \/ e <= b)
        BY <1>3, <3>3
      <4>2. s < e
        BY <1>2
      <4>3. \A b \in G : b \in C
        BY <1>2, <4>1
      <4> HIDE DEF G
      <4> QED BY <1>2, <1>4, <4>1, <4>2, <4>3
    <3>10. Linked(f, G)
      <4>1. \A p \in G : Kept(d, f, p)
        BY <3>7, <3>9
      <4>2. f.brk \in Int /\ f.brk >= d.brk
        BY <1>1, <3>4, <3>8, HeapHas
      <4> QED BY <3>2, <3>4, <3>5, <3>7, <3>9, <4>1, <4>2, StillLinked
    <3>11. ArePlaces(f, G \cup {s})
      BY <3>7, <3>8, <3>9, PlacesIn
    <3> HIDE DEF G
    <3>12. Differ(f, g, LinkWords(G \cup {s})) /\ Linked(g, G \cup {s})
      BY <3>1, <3>6, <3>7, <3>8, <3>9, <3>10, <3>11, InsertLinked
    <3> HIDE DEF g
    <3>13. /\ Tiles(g, C)
           /\ \A b \in C : /\ SizeOf(g, b) = SizeOf(f, b) /\ (IsFree(g, b) <=> IsFree(f, b))
                           /\ NEXT_BLKP(g, b) = NEXT_BLKP(f, b)
           /\ \A b \in C \ (G \cup {s}) : Kept(f, g, b)
      BY <3>7, <3>8, <3>9, <3>12, LinksKeepTiles
    <3>14. \A b \in C : b # s =>
                 /\ NEXT_BLKP(g, b) = NEXT_BLKP(h, b) /\ SizeOf(g, b) = SizeOf(h, b)
                 /\ IsFree(g, b) <=> IsFree(h, b)
      <4> SUFFICES ASSUME NEW b \in C, b # s
                   PROVE  /\ NEXT_BLKP(g, b) = NEXT_BLKP(h, b) /\ SizeOf(g, b) = SizeOf(h, b)
                          /\ IsFree(g, b) <=> IsFree(h, b)
        OBVIOUS
      <4>1. b \in B /\ Kept(d, f, b)
        BY <1>4, <3>7
      <4>2. SizeOf(f, b) = SizeOf(d, b) /\ (IsFree(f, b) <=> IsFree(d, b)) /\ NEXT_BLKP(f, b) = NEXT_BLKP(d, b)
        BY <3>4, <3>5, <4>1, KeptTags
      <4> QED BY <3>5, <3>13, <4>1, <4>2
    <3>15. Frees(g, C) = G \cup {s}
      <4>1. \A b \in C : IsFree(g, b) <=> b \in G \cup {s}
        <5>1. IsFree(g, s)
          BY <1>4, <3>7, <3>13
        <5>2. ASSUME NEW b \in C, b # s PROVE IsFree(h, b) <=> b \in G
          BY <1>4, <5>2 DEF G, Frees
        <5> QED BY <3>14, <5>1, <5>2
      <4> QED BY <3>9, <4>1 DEF Frees
    <3>16. IsHeap(g) /\ g.brk = h.brk /\ DOMAIN g.mem = DOMAIN h.mem
      BY <3>8, <3>12 DEF Differ
    <3>17. InOrder(g, C)
      BY <3>12, <3>13, <3>15, <3>16 DEF InOrder
    <3>18. IsFree(g, s) /\ NEXT_BLKP(g, s) = e
      BY <1>4, <3>7, <3>13
    <3>19. ASSUME NEW b \in Taken(h, B) PROVE Kept(h, g, b)
      <4>1. b \in C /\ b # s /\ b \in B \ F /\ b \notin G
        BY <1>5, <1>4 DEF G
      <4>2. Kept(h, d, b) /\ Kept(d, f, b) /\ Kept(f, g, b)
        BY <3>5, <3>7, <3>13, <4>1
      <4>3. SizeOf(d, b) = SizeOf(h, b)
        BY <3>5, <4>1
      <4>4. SizeOf(f, b) = SizeOf(d, b)
        BY <3>4, <3>5, <4>1, <4>2, KeptTags
      <4> QED BY <3>4, <3>8, <4>2, <4>3, <4>4 DEF Kept
    <3>20. g.mem[e - 12] = h.mem[e - 12]
      <4>1. PICK z \in B : NEXT_BLKP(h, z) = e
        BY <1>1, <1>2, <1>3 DEF Tiles, DSIZE
      <4>2. /\ z \in Int /\ SizeOf(h, z) \in Int /\ SizeOf(h, z) >= 24 /\ e = z + SizeOf(h, z)
            /\ s <= z /\ z < e
        <5>1. s <= z
          BY <1>1, <1>2, <1>3, <4>1 DEF Tiles
        <5>2. z # 8
          BY <1>2, <1>3, <5>1 DEF DSIZE
        <5> QED BY <1>3, <4>1, <5>1, <5>2
      <4>3. e - 12 \in DOMAIN h.mem
        <5>1. h.brk \in Int /\ \A a \in Int : a \in DOMAIN h.mem <=> a % 4 = 0 /\ 0 <= a /\ a < h.brk
          BY <1>1, HeapHas
        <5>2. e % 8 = 0 /\ e <= h.brk
          BY <1>1, <4>1, TagsAreWords
        <5>3. (e - 12) % 4 = 0
          BY <1>2, <5>2
        <5> QED BY <1>2, <1>3, <4>2, <5>1, <5>2, <5>3
      <4>4. \A p \in F \cup {s} : e - 12 \notin {p, p + 4}
        <5> TAKE p \in F \cup {s}
        <5>1. p \in B /\ p # 8 /\ p \in Int /\ SizeOf(h, p) \in Int /\ SizeOf(h, p) >= 24 /\ NEXT_BLKP(h, p) = p + SizeOf(h, p)
          BY <1>2, <1>3, <3>3 DEF DSIZE
        <5>2. CASE p = z
          BY <4>2, <5>2
        <5>3. CASE p < z
          BY <1>1, <4>2, <5>1, <5>3 DEF Tiles
        <5>4. CASE z < p
          BY <1>1, <4>1, <4>2, <5>1, <5>4 DEF Tiles
        <5> QED BY <4>2, <5>1, <5>2, <5>3, <5>4
      <4>5. e - 12 \notin LinkWords(F) /\ e - 12 \notin LinkWords(G \cup {s})
        BY <4>4 DEF LinkWords, NEXT_PTR, WSIZE, G
      <4>6. e - 12 \notin TagWords(s, size)
        BY <3>6, <1>2, <4>2 DEF TagWords, WSIZE, DSIZE
      <4>7. d.mem[e - 12] = h.mem[e - 12]
        BY <3>2, <4>3, <4>5, WordKept
      <4>8. f.mem[e - 12] = d.mem[e - 12]
        BY <3>4, <3>7, <4>3, <4>6, WordKept
      <4>9. g.mem[e - 12] = f.mem[e - 12]
        BY <3>8, <3>12, <4>3, <4>5, WordKept
      <4> QED BY <4>7, <4>8, <4>9
    <3> QED BY <3>14, <3>16, <3>17, <3>18, <3>19, <3>20
  <2> QED BY <2>1, <2>2
<1>8. Taken(g, C) = Taken(h, B)
  <2>1. ASSUME NEW b \in Taken(h, B) PROVE b \in Taken(g, C)
    BY <1>5, <1>7, <2>1 DEF Taken
  <2>2. ASSUME NEW b \in Taken(g, C) PROVE b \in Taken(h, B)
    BY <1>4, <1>7, <2>2 DEF Taken
  <2> QED BY <2>1, <2>2
<1>9. Apart(g, C, NULL)
  <2> SUFFICES ASSUME NEW b \in C, NEXT_BLKP(g, b) \in C, IsFree(g, b), IsFree(g, NEXT_BLKP(g, b))
               PROVE  FALSE
    BY DEF Apart
  <2>1. CASE b = s
    <3>1. (e \in B /\ IsFree(h, e) /\ NEXT_BLKP(h, next) = e) \/ e = next
      BY <1>2, <1>4, <1>7, <2>1
    <3>2. e \in B /\ e # s /\ IsFree(h, e)
      BY <1>2, <1>4, <1>7, <2>1
    <3>3. CASE IsFree(h, next)
      <4>1. bp \in {next, e}
        BY <1>2, <3>2, <3>3 DEF Apart
      <4> QED BY <1>2, <4>1
    <3>4. CASE ~IsFree(h, next)
      BY <1>2, <3>2, <3>4
    <3> QED BY <3>3, <3>4
  <2>2. CASE b # s
    <3>1. NEXT_BLKP(g, b) = NEXT_BLKP(h, b) /\ IsFree(h, b) /\ b \in B /\ NEXT_BLKP(h, b) \in C
      BY <1>4, <1>7, <2>2
    <3>2. CASE NEXT_BLKP(h, b) = s
      <4>1. CASE IsFree(h, prev)
        <5>1. bp \in {b, s}
          BY <1>2, <1>4, <3>1, <3>2 DEF Apart
        <5>2. b < s /\ s < bp
          BY <1>2, <1>3, <3>1, <3>2, <4>1
        <5> QED BY <1>2, <1>3, <3>1, <5>1, <5>2
      <4>2. CASE ~IsFree(h, prev)
        <5>1. b = prev
          BY <1>2, <3>1, <3>2, <4>2
        <5> QED BY <3>1, <4>2, <5>1
      <4> QED BY <4>1, <4>2
    <3>3. CASE NEXT_BLKP(h, b) # s
      <4>1. IsFree(h, NEXT_BLKP(h, b))
        BY <1>7, <3>1, <3>3
      <4>2. bp \in {b, NEXT_BLKP(h, b)}
        BY <1>4, <3>1, <4>1 DEF Apart
      <4>3. bp \in C /\ bp # s
        BY <2>2, <3>1, <3>3, <4>2
      <4> QED BY <1>2, <1>4, <4>3
    <3> QED BY <3>2, <3>3
  <2> QED BY <2>1, <2>2
<1> HIDE DEF g
<1>10. InOrder(g, C) /\ g.brk = h.brk /\ DOMAIN g.mem = DOMAIN h.mem
       /\ IsFree(g, s) /\ NEXT_BLKP(g, s) = e
  BY <1>7
<1> QED BY <1>4, <1>6, <1>7, <1>8, <1>9, <1>10 DEF g, Merged

----------------------------------------------------------------------------
\* Growing the heap

Fresh(brk, size) == {brk + WSIZE * i : i \in 0..(size \div WSIZE - 1)}

\* The heap with longer memory, of which the new words are not known.
Longer(h, size) ==
    [a \in DOMAIN h.mem \cup Fresh(h.brk, size) |->
        IF a \in Fresh(h.brk, size) THEN Junk ELSE h.mem[a]]

WithEnd(h, brk, mem) == [h EXCEPT !.brk = brk, !.mem = mem]

Grown(h, size) == WithEnd(h, h.brk + size, Longer(h, size))

\* The words that a chunk adds are those of the longer heap beyond the old end.
LEMMA FreshWords ==
    ASSUME NEW brk \in Nat, brk % 8 = 0, NEW size \in Nat, size % 8 = 0
    PROVE  /\ HeapWords(brk) \cup Fresh(brk, size) = HeapWords(brk + size)
           /\ \A a \in Fresh(brk, size) : a >= brk
<1> DEFINE fresh == Fresh(brk, size)
<1>1. size \div 4 \in Int /\ 4 * (size \div 4) = size
  OBVIOUS
<1>2. ASSUME NEW a \in Int, a % 4 = 0, brk <= a, a < brk + size PROVE a \in fresh
  <2>1. (a - brk) \div 4 \in 0..(size \div 4 - 1) /\ a = brk + 4 * ((a - brk) \div 4)
    BY <1>1, <1>2
  <2> QED BY <2>1 DEF Fresh, WSIZE
<1>3. ASSUME NEW a \in fresh PROVE a \in Int /\ a % 4 = 0 /\ brk <= a /\ a < brk + size
  <2>1. PICK i \in 0..(size \div 4 - 1) : a = brk + 4 * i
    BY DEF Fresh, WSIZE
  <2> QED BY <1>1, <2>1
<1> HIDE DEF fresh
<1>4. brk + size \in Nat /\ (brk + size) % 8 = 0
  OBVIOUS
<1>5. \A a \in HeapWords(brk) \cup HeapWords(brk + size) : a \in Int
  BY DEF HeapWords, WSIZE
<1>6. \A a \in Int : a \in HeapWords(brk) <=> a % 4 = 0 /\ 0 <= a /\ a < brk
  BY HeapWordsAre
<1>7. \A a \in Int : a \in HeapWords(brk + size) <=> a % 4 = 0 /\ 0 <= a /\ a < brk + size
  BY <1>4, HeapWordsAre
<1>8. \A a \in Int : a \in HeapWords(brk) \cup fresh <=> a \in HeapWords(brk + size)
  BY <1>2, <1>3, <1>6, <1>7
<1>9. HeapWords(brk) \cup fresh = HeapWords(brk + size)
  BY <1>3, <1>5, <1>8
<1> QED BY <1>3, <1>9 DEF fresh

\* A heap with another memory and another end keeps its lists.
LEMMA EndChanged ==
    ASSUME NEW h, IsHeap(h), NEW brk \in Nat, brk % 8 = 0, NEW mem \in [HeapWords(brk) -> Int],
           NEW g, g = WithEnd(h, brk, mem)
    PROVE  IsHeap(g) /\ g.mem = mem /\ g.brk = brk /\ g.lists = h.lists
<1> DEFINE M == [HeapWords(h.brk) -> Int]
           M2 == [HeapWords(brk) -> Int]
           L == [Lists -> Int]
<1>1. h \in [mem : M, brk : Nat, lists : L] /\ mem \in M2
  BY DEF IsHeap
<1> HIDE DEF M, M2, L
<1>2. g \in [mem : M2, brk : Nat, lists : L] /\ g.mem = mem /\ g.brk = brk /\ g.lists = h.lists
  BY <1>1 DEF WithEnd
<1>3. IsHeap(g)
  BY <1>2 DEF IsHeap, M2, L
<1> QED BY <1>2, <1>3

\* The heap with longer memory: what was in it stays, the rest is unknown.
LEMMA GrownHeap ==
    ASSUME NEW h, IsHeap(h), NEW size \in Int, size % 8 = 0, size > 0,
           NEW g, g = Grown(h, size)
    PROVE  /\ IsHeap(g) /\ g.brk = h.brk + size /\ g.lists = h.lists
           /\ DOMAIN g.mem = HeapWords(h.brk + size)
           /\ DOMAIN h.mem \subseteq DOMAIN g.mem
           /\ \A a \in DOMAIN h.mem : g.mem[a] = h.mem[a]
           /\ \A a \in DOMAIN g.mem : a \notin DOMAIN h.mem => g.mem[a] = Junk
<1>1. /\ h.brk \in Nat /\ h.brk % 8 = 0 /\ DOMAIN h.mem = HeapWords(h.brk)
      /\ \A a \in DOMAIN h.mem : h.mem[a] \in Int /\ a \in Int
      /\ \A a \in Int : a \in DOMAIN h.mem <=> a % 4 = 0 /\ 0 <= a /\ a < h.brk
  BY HeapHas
<1> DEFINE e == h.brk + size
           fresh == Fresh(h.brk, size)
           mem == Longer(h, size)
<1>2. e \in Nat /\ e % 8 = 0
  BY <1>1, EightsAdd
<1>3. DOMAIN h.mem \cup fresh = HeapWords(e) /\ \A a \in fresh : a >= h.brk
  <2>1. size \in Nat
    OBVIOUS
  <2> QED BY <1>1, <2>1, FreshWords
<1>4. Junk \in Int
  BY SegregatedAssumption DEF Junk, Data
<1> HIDE DEF e, fresh
<1>5. mem \in [HeapWords(e) -> Int] /\ DOMAIN mem = HeapWords(e)
  BY <1>1, <1>3, <1>4 DEF Longer, fresh
<1>6. IsHeap(g) /\ g.mem = mem /\ g.brk = e /\ g.lists = h.lists
  <2>1. g = WithEnd(h, e, mem)
    BY DEF e, Grown
  <2> HIDE DEF mem
  <2> QED BY <1>2, <1>5, <2>1, EndChanged
<1>7. ASSUME NEW a \in DOMAIN h.mem PROVE a \notin fresh /\ a \in DOMAIN mem
  <2>1. a \in Int /\ a < h.brk
    BY <1>1
  <2>2. a \notin fresh
    BY <1>1, <1>3, <2>1
  <2> QED BY <1>3, <1>5, <2>2
<1>8. \A a \in DOMAIN h.mem : mem[a] = h.mem[a]
  BY <1>7 DEF Longer, fresh
<1>9. \A a \in DOMAIN mem : a \notin DOMAIN h.mem => mem[a] = Junk
  BY <1>3, <1>5 DEF Longer, fresh
<1> HIDE DEF mem
<1> QED BY <1>5, <1>6, <1>7, <1>8, <1>9 DEF e

\* The tags of a chunk, from the old end of the heap to the new epilogue.
LEMMA ChunkTiled ==
    ASSUME NEW h, IsHeap(h), NEW B, Tiles(h, B), NEW s, s = h.brk,
           NEW e \in Nat, e % 8 = 0, s + 24 <= e,
           NEW g, IsHeap(g), g.brk = e,
           g.mem[s - 4] = PACK(e - s, 0), g.mem[e - 8] = PACK(e - s, 0), g.mem[e - 4] = PACK(0, 1),
           \A a \in DOMAIN h.mem : a # s - 4 => g.mem[a] = h.mem[a]
    PROVE  /\ Tiles(g, B \cup {s}) /\ s \notin B
           /\ IsFree(g, s) /\ SizeOf(g, s) = e - s /\ NEXT_BLKP(g, s) = e
           /\ \A b \in B : Kept(h, g, b)
<1> DEFINE C == B \cup {s}
<1>1. /\ \A b \in B : /\ b \in Int /\ b % 8 = 0 /\ 8 <= b /\ b < h.brk
                      /\ FTRP(h, b) = NEXT_BLKP(h, b) - 8
                      /\ SizeOf(h, b) \in Int
                      /\ NEXT_BLKP(h, b) = b + SizeOf(h, b)
                      /\ NEXT_BLKP(h, b) \in Int
                      /\ b < NEXT_BLKP(h, b) /\ NEXT_BLKP(h, b) <= h.brk
      /\ s \in Nat /\ s % 8 = 0 /\ s >= 16
  BY TagsAreWords
<1>2. ASSUME NEW b \in B PROVE Kept(h, g, b)
  <2> SUFFICES ASSUME NEW a \in DOMAIN h.mem, b - 4 <= a, a < b + SizeOf(h, b) - 4
               PROVE  g.mem[a] = h.mem[a]
    BY DEF Kept, WSIZE
  <2>1. a \in Int
    BY HeapHas
  <2>2. a # s - 4
    BY <1>1, <2>1
  <2> QED BY <2>2
<1>3. ASSUME NEW b \in B
      PROVE  /\ g.mem[b - 4] = h.mem[b - 4] /\ g.mem[FTRP(h, b)] = h.mem[FTRP(h, b)]
             /\ SizeOf(g, b) = SizeOf(h, b) /\ NEXT_BLKP(g, b) = NEXT_BLKP(h, b)
             /\ FTRP(g, b) = FTRP(h, b)
  BY <1>1, <1>2, KeptTags
<1>4. (e - s) % 8 = 0
  BY <1>1, EightsAdd
<1>5. IsFree(g, s) /\ SizeOf(g, s) = e - s /\ NEXT_BLKP(g, s) = e /\ FTRP(g, s) = e - 8
  <2>1. e - s \in Int
    BY <1>1
  <2>2. IsFree(g, s) /\ SizeOf(g, s) = e - s
    <3> DEFINE size == e - s
    <3>1. size \in Int /\ size % 8 = 0 /\ g.mem[s - 4] = PACK(size, 0)
      BY <1>4, <2>1
    <3> HIDE DEF size
    <3>2. IsFree(g, s) /\ SizeOf(g, s) = size
      BY <3>1 DEF IsFree, SizeOf, GET_SIZE, PACK, WSIZE
    <3> QED BY <3>2 DEF size
  <2> QED BY <1>1, <2>2 DEF NEXT_BLKP, FTRP, DSIZE
<1>6. ASSUME NEW b \in C PROVE Tagged(g, C, b)
  <2>1. CASE b = s
    <3>1. b \in 8..(e - 8) /\ b % 8 = 0
      BY <1>1, <2>1
    <3>2. g.mem[FTRP(g, b)] = g.mem[b - WSIZE]
      BY <1>5, <2>1 DEF WSIZE
    <3>3. SizeOf(g, b) >= 24
      BY <1>1, <1>5, <2>1
    <3>4. b # 8
      BY <1>1, <2>1
    <3>5. NEXT_BLKP(g, b) \in C \cup {g.brk}
      BY <1>5, <2>1
    <3> QED BY <3>1, <3>2, <3>3, <3>4, <3>5 DEF Tagged, DSIZE
  <2>2. CASE b \in B
    <3>1. Tagged(h, B, b)
      BY <2>2 DEF Tiles
    <3>2. b \in DSIZE..(g.brk - DSIZE)
      BY <1>1, <2>2, <3>1 DEF Tagged, DSIZE
    <3>3. NEXT_BLKP(g, b) \in C \cup {g.brk}
      BY <1>3, <2>2, <3>1 DEF Tagged
    <3> QED BY <1>3, <2>2, <3>1, <3>2, <3>3 DEF Tagged, WSIZE
  <2> QED BY <2>1, <2>2
<1>7. s \notin B
  BY <1>1
<1>8. ASSUME NEW b \in C, NEW c \in C, b < c PROVE NEXT_BLKP(g, b) <= c
  <2>1. b \in B
    BY <1>1, <1>8
  <2>2. NEXT_BLKP(g, b) = NEXT_BLKP(h, b)
    BY <1>3, <2>1
  <2>3. CASE c \in B
    BY <1>8, <2>1, <2>2, <2>3 DEF Tiles
  <2>4. CASE c = s
    BY <1>1, <2>1, <2>2, <2>4
  <2> QED BY <2>3, <2>4
<1>9. ASSUME NEW c \in C \cup {e}, c # DSIZE PROVE \E b \in C : NEXT_BLKP(g, b) = c
  <2>1. CASE c = e
    BY <1>5, <2>1
  <2>2. CASE c # e
    <3>1. PICK b \in B : NEXT_BLKP(h, b) = c
      BY <1>9, <2>2 DEF Tiles
    <3> QED BY <1>3, <3>1
  <2> QED BY <2>1, <2>2
<1>10. DSIZE \in C /\ g.mem[DSIZE - WSIZE] = PACK(DSIZE, 1)
  <2>1. DSIZE \in B
    BY DEF Tiles
  <2> QED BY <1>3, <2>1 DEF Tiles, WSIZE
<1> HIDE DEF C
<1>11. Tiles(g, C)
  BY <1>6, <1>8, <1>9, <1>10 DEF Tiles, WSIZE
<1> QED BY <1>2, <1>5, <1>7, <1>11 DEF C

\* The blocks C of g are the blocks B of h and a free one of size bytes at s, the
\* old end of the heap.
Chunked(h, B, g, C, s, size) ==
    /\ InOrder(g, C) /\ g.brk = s + size /\ s \notin B
    /\ DOMAIN h.mem \subseteq DOMAIN g.mem
    /\ IsFree(g, s) /\ NEXT_BLKP(g, s) = s + size
    /\ \A b \in B : /\ NEXT_BLKP(g, b) = NEXT_BLKP(h, b) /\ SizeOf(g, b) = SizeOf(h, b)
                    /\ IsFree(g, b) <=> IsFree(h, b)
    /\ Taken(g, C) = Taken(h, B)
    /\ \A b \in Taken(h, B) : Kept(h, g, b)
    /\ g.mem[g.brk - 12] = Junk

\* A chunk is one free block that is linked; all other blocks are as before.
LEMMA ChunkLinked ==
    ASSUME NEW h, NEW B, InOrder(h, B), NEW size \in Int, size % 8 = 0, size >= 24,
           NEW s, s = h.brk, NEW g, g = WithChunk(h, size), NEW C, C = B \cup {s}
    PROVE  Chunked(h, B, g, C, s, size)
<1> DEFINE e == s + size
           F == Frees(h, B)
           f0 == Grown(h, size)
           f1 == PutBlock(f0, s, size, 0)
           f == Put(f1, e - WSIZE, PACK(0, 1))
<1>1. IsHeap(h) /\ Tiles(h, B) /\ Linked(h, F)
  BY DEF InOrder
<1>2. /\ s \in Nat /\ s % 8 = 0 /\ s >= 16 /\ \A b \in B : b \in Int /\ b < s /\ NEXT_BLKP(h, b) <= s
  BY <1>1, TagsAreWords
<1>3. e \in Nat /\ e % 8 = 0 /\ s + 24 <= e /\ e - s = size
  BY <1>2, EightsAdd
<1>4. g = insert_node(f, s, size)
  <2>1. s + size - WSIZE = e - WSIZE
    BY <1>2 DEF WSIZE
  <2>2. g = insert_node(Put(f1, s + size - WSIZE, PACK(0, 1)), s, size)
    BY DEF WithChunk, Grown, WithEnd, Longer, Fresh
  <2> HIDE DEF f1, e
  <2> QED BY <2>1, <2>2
<1>5. /\ IsHeap(f0) /\ f0.brk = e /\ f0.lists = h.lists /\ DOMAIN f0.mem = HeapWords(e)
      /\ DOMAIN h.mem \subseteq DOMAIN f0.mem
      /\ \A a \in DOMAIN h.mem : f0.mem[a] = h.mem[a]
      /\ \A a \in DOMAIN f0.mem : a \notin DOMAIN h.mem => f0.mem[a] = Junk
  BY <1>1, GrownHeap
<1> HIDE DEF f0
<1>6. /\ \A a \in Int : a \in DOMAIN f0.mem <=> a % 4 = 0 /\ 0 <= a /\ a < e
      /\ \A a \in Int : a \in DOMAIN h.mem <=> a % 4 = 0 /\ 0 <= a /\ a < s
      /\ \A a \in DOMAIN h.mem : a \in Int
  BY <1>1, <1>5, HeapHas
<1> HIDE DEF e
<1>7. s - 4 \in DOMAIN f0.mem /\ e - 8 \in DOMAIN f0.mem /\ e - 4 \in DOMAIN f0.mem /\ e - 12 \in DOMAIN f0.mem
  <2>1. (s - 4) % 4 = 0 /\ (e - 8) % 4 = 0 /\ (e - 4) % 4 = 0 /\ (e - 12) % 4 = 0
    BY <1>2, <1>3
  <2> QED BY <1>2, <1>3, <1>6, <2>1
<1>8. s + size - DSIZE = e - 8 /\ s - WSIZE = s - 4 /\ e - WSIZE = e - 4
  BY <1>2, <1>3 DEF WSIZE, DSIZE
<1>9. /\ Differ(f0, f1, TagWords(s, size)) /\ f1.lists = f0.lists
      /\ f1.mem[s - 4] = PACK(size, 0) /\ f1.mem[e - 8] = PACK(size, 0)
  <2>1. s - WSIZE \in DOMAIN f0.mem /\ s + size - DSIZE \in DOMAIN f0.mem
    BY <1>7, <1>8
  <2>2. /\ Differ(f0, f1, TagWords(s, size)) /\ f1.lists = f0.lists
        /\ f1.mem[s - WSIZE] = PACK(size, 0) /\ f1.mem[s + size - DSIZE] = PACK(size, 0)
    BY <1>2, <1>5, <2>1, PutBlockEffect
  <2> HIDE DEF f1
  <2> QED BY <1>8, <2>2
<1> HIDE DEF f1
<1>10. /\ Differ(f1, f, {e - WSIZE}) /\ f.mem[e - WSIZE] = PACK(0, 1) /\ f.lists = f1.lists
  <2>1. IsHeap(f1) /\ e - WSIZE \in DOMAIN f1.mem
    BY <1>7, <1>8, <1>9 DEF Differ
  <2>2. PACK(0, 1) \in Int
    BY DEF PACK
  <2> QED BY <2>1, <2>2, PutEffect
<1> HIDE DEF f
<1>11. TagWords(s, size) = {s - 4, e - 8}
  BY <1>8 DEF TagWords
<1>12. /\ IsHeap(f) /\ f.brk = e /\ f.lists = h.lists /\ DOMAIN f.mem = DOMAIN f0.mem
       /\ f.mem[s - 4] = PACK(size, 0) /\ f.mem[e - 8] = PACK(size, 0) /\ f.mem[e - 4] = PACK(0, 1)
       /\ \A a \in DOMAIN f0.mem : a # s - 4 /\ a # e - 8 /\ a # e - 4 => f.mem[a] = f0.mem[a]
  <2>1. s - 4 # e - 4 /\ e - 8 # e - 4
    BY <1>2, <1>3
  <2> QED BY <1>5, <1>7, <1>8, <1>9, <1>10, <1>11, <2>1 DEF Differ
<1>13. \A a \in DOMAIN h.mem : a # s - 4 => f.mem[a] = h.mem[a]
  <2> SUFFICES ASSUME NEW a \in DOMAIN h.mem, a # s - 4 PROVE f.mem[a] = h.mem[a]
    OBVIOUS
  <2>1. a \in Int /\ a < s
    BY <1>6
  <2>2. a # e - 8 /\ a # e - 4
    BY <1>2, <1>3, <2>1
  <2> QED BY <1>5, <1>12, <2>2
<1>14. f.mem[e - 12] = Junk
  <2>1. e - 12 \notin DOMAIN h.mem /\ e - 12 # s - 4 /\ e - 12 # e - 8 /\ e - 12 # e - 4
    BY <1>2, <1>3, <1>6
  <2> QED BY <1>5, <1>7, <1>12, <2>1
<1>15. /\ Tiles(f, C) /\ s \notin B
       /\ IsFree(f, s) /\ SizeOf(f, s) = size /\ NEXT_BLKP(f, s) = e
       /\ \A b \in B : Kept(h, f, b)
  <2>1. IsHeap(h) /\ Tiles(h, B) /\ IsHeap(f) /\ f.brk = e
    BY <1>1, <1>12
  <2>2. /\ f.mem[s - 4] = PACK(e - s, 0) /\ f.mem[e - 8] = PACK(e - s, 0) /\ f.mem[e - 4] = PACK(0, 1)
        /\ e \in Nat /\ e % 8 = 0 /\ s + 24 <= e
    BY <1>3, <1>12
  <2>3. s = h.brk
    OBVIOUS
  <2>4. /\ Tiles(f, B \cup {s}) /\ s \notin B
        /\ IsFree(f, s) /\ SizeOf(f, s) = e - s /\ NEXT_BLKP(f, s) = e
        /\ \A b \in B : Kept(h, f, b)
    BY ONLY <1>13, <2>1, <2>2, <2>3, ChunkTiled
  <2> QED BY <1>3, <2>4
<1>16. /\ F \in SUBSET (B \ {DSIZE}) /\ s \notin F /\ F \cup {s} \in SUBSET (C \ {DSIZE}) /\ s \in C
       /\ F \in SUBSET (C \ {DSIZE}) /\ B \in SUBSET C
  BY <1>1, <1>2, <1>15, FreesAre DEF DSIZE
<1>17. Linked(f, F)
  <2>1. f.brk \in Int /\ f.brk >= h.brk /\ \A p \in F : Kept(h, f, p)
    BY <1>2, <1>3, <1>12, <1>15, <1>16
  <2> QED BY <1>1, <1>12, <1>16, <2>1, StillLinked
<1>18. ArePlaces(f, F \cup {s})
  BY <1>12, <1>15, <1>16, PlacesIn
<1>19. Differ(f, g, LinkWords(F \cup {s})) /\ Linked(g, F \cup {s})
  <2>1. size > 16
    OBVIOUS
  <2> QED BY <1>4, <1>12, <1>15, <1>16, <1>17, <1>18, <2>1, InsertLinked
<1>20. /\ Tiles(g, C)
       /\ \A b \in C : /\ SizeOf(g, b) = SizeOf(f, b) /\ (IsFree(g, b) <=> IsFree(f, b))
                       /\ NEXT_BLKP(g, b) = NEXT_BLKP(f, b)
       /\ \A b \in C \ (F \cup {s}) : Kept(f, g, b)
  BY <1>12, <1>15, <1>16, <1>19, LinksKeepTiles
<1>21. IsHeap(g) /\ g.brk = e /\ DOMAIN g.mem = DOMAIN f.mem
  BY <1>12, <1>19 DEF Differ
<1>22. \A b \in B : /\ NEXT_BLKP(g, b) = NEXT_BLKP(h, b) /\ SizeOf(g, b) = SizeOf(h, b)
                    /\ IsFree(g, b) <=> IsFree(h, b)
  <2> SUFFICES ASSUME NEW b \in B
               PROVE  /\ NEXT_BLKP(g, b) = NEXT_BLKP(h, b) /\ SizeOf(g, b) = SizeOf(h, b)
                      /\ IsFree(g, b) <=> IsFree(h, b)
    OBVIOUS
  <2>1. /\ NEXT_BLKP(f, b) = NEXT_BLKP(h, b) /\ SizeOf(f, b) = SizeOf(h, b)
        /\ IsFree(f, b) <=> IsFree(h, b)
    BY <1>1, <1>15, KeptTags
  <2> QED BY <1>16, <1>20, <2>1
<1>23. IsFree(g, s) /\ NEXT_BLKP(g, s) = e
  BY <1>15, <1>16, <1>20
<1>24. Frees(g, C) = F \cup {s}
  BY <1>22, <1>23, <1>16 DEF Frees
<1>25. Taken(g, C) = Taken(h, B)
  BY <1>2, <1>22, <1>23, <1>16 DEF Taken
<1>26. ASSUME NEW b \in Taken(h, B) PROVE Kept(h, g, b)
  <2>1. b \in B /\ b \in C \ (F \cup {s})
    BY <1>15, <1>16 DEF Taken, Frees
  <2>2. Kept(h, f, b) /\ Kept(f, g, b) /\ SizeOf(f, b) = SizeOf(h, b)
    BY <1>1, <1>15, <1>20, <2>1, KeptTags
  <2> QED BY <1>5, <1>12, <2>2 DEF Kept
<1>27. g.mem[e - 12] = Junk
  <2>1. ASSUME NEW p \in F \cup {s} PROVE e - 12 \notin {p, p + 4}
    <3>1. CASE p = s
      BY <1>2, <1>3, <3>1
    <3>2. CASE p \in F
      <4>1. p \in Int /\ p < s
        BY <1>2, <1>16, <3>2
      <4> QED BY <1>2, <1>1, <1>3, <1>16, <3>2, <4>1, TagsAreWords DEF DSIZE
    <3> QED BY <3>1, <3>2
  <2>2. e - 12 \notin LinkWords(F \cup {s})
    BY <2>1 DEF LinkWords, NEXT_PTR, WSIZE
  <2> QED BY <1>7, <1>12, <1>14, <1>19, <2>2, WordKept
<1>28. InOrder(g, C)
  BY <1>19, <1>20, <1>21, <1>24 DEF InOrder
<1> QED BY <1>5, <1>12, <1>15, <1>21, <1>22, <1>23, <1>25, <1>26, <1>27, <1>28 DEF e, Chunked

\* The heap has been extended by size bytes, with the block r.bp last: the last
\* block of h, if it was free, and else the chunk.
Extension(h, B, size, r) ==
    /\ r.bp = IF IsFree(h, PREV_BLKP(h, h.brk)) THEN PREV_BLKP(h, h.brk) ELSE h.brk
    /\ r.heap.brk = h.brk + size /\ DOMAIN h.mem \subseteq DOMAIN r.heap.mem
    /\ InOrder(r.heap, B \cup {r.bp}) /\ Apart(r.heap, B \cup {r.bp}, NULL)
    /\ IsFree(r.heap, r.bp) /\ NEXT_BLKP(r.heap, r.bp) = r.heap.brk
    /\ SizeOf(r.heap, r.bp) >= size
    /\ Taken(r.heap, B \cup {r.bp}) = Taken(h, B)
    /\ \A b \in Taken(h, B) : Kept(h, r.heap, b)
    /\ \A b \in B : b # r.bp => /\ NEXT_BLKP(r.heap, b) = NEXT_BLKP(h, b)
                                /\ SizeOf(r.heap, b) = SizeOf(h, b)
                                /\ IsFree(r.heap, b) <=> IsFree(h, b)
    /\ r.heap.mem[r.heap.brk - 12] = Junk

\* extend_heap makes an extension, or fails with the heap as it was.
LEMMA ExtendedFits ==
    ASSUME NEW h, NEW B, InOrder(h, B), Apart(h, B, NULL),
           NEW size \in Int, size % 8 = 0, size >= 24,
           NEW r, r = extend_heap(h, size \div WSIZE)
    PROVE  \/ h.brk + size > MaxHeap /\ r = Failed(h)
           \/ h.brk + size <= MaxHeap /\ Extension(h, B, size, r)
<1>1. IsHeap(h) /\ Tiles(h, B)
  BY DEF InOrder
<1>2. (size \div 4) % 2 # 1 /\ (size \div 4) * 4 = size
  OBVIOUS
<1>3. r = IF h.brk + size > MaxHeap THEN Failed(h) ELSE coalesce(WithChunk(h, size), h.brk)
  <2>1. (IF (size \div WSIZE) % 2 = 1 THEN size \div WSIZE + 1 ELSE size \div WSIZE) * WSIZE = size
    BY <1>2 DEF WSIZE
  <2> QED BY <2>1 DEF extend_heap
<1>4. h.brk \in Nat /\ h.brk >= 16 /\ MaxHeap \in Nat
  BY <1>1, TagsAreWords, SegregatedAssumption
<1>5. CASE h.brk + size > MaxHeap
  BY <1>3, <1>5
<1>6. CASE h.brk + size <= MaxHeap
  <2> DEFINE t == h.brk
             last == PREV_BLKP(h, t)
             f == WithChunk(h, size)
             A == B \cup {t}
             s == MergeStart(f, t)
             e == MergeEnd(f, t)
             C == {b \in A : b <= s \/ e <= b}
             g == r.heap
  <2>1. r = coalesce(f, t)
    BY <1>3, <1>4, <1>6
  <2>0. /\ f = WithChunk(h, size) /\ A = B \cup {t} /\ t = h.brk
        /\ s = MergeStart(f, t) /\ e = MergeEnd(f, t) /\ C = {b \in A : b <= s \/ e <= b}
        /\ g = r.heap
    OBVIOUS
  <2> HIDE DEF f, A, t, s, e, C, g
  <2>2. /\ InOrder(f, A) /\ f.brk = t + size /\ t \notin B
        /\ DOMAIN h.mem \subseteq DOMAIN f.mem
        /\ IsFree(f, t) /\ NEXT_BLKP(f, t) = t + size
        /\ \A b \in B : /\ NEXT_BLKP(f, b) = NEXT_BLKP(h, b) /\ SizeOf(f, b) = SizeOf(h, b)
                        /\ IsFree(f, b) <=> IsFree(h, b)
        /\ Taken(f, A) = Taken(h, B)
        /\ \A b \in Taken(h, B) : Kept(h, f, b)
        /\ f.mem[f.brk - 12] = Junk
    <3>1. Chunked(h, B, f, A, t, size)
      BY <2>0, ChunkLinked
    <3> QED BY <3>1 DEF Chunked
  <2> USE DEF A, t, s, e, C, g
  <2>3. IsHeap(f) /\ Tiles(f, A)
    BY <2>2 DEF InOrder
  <2>4. last \in B /\ NEXT_BLKP(h, last) = t
    BY <1>1, <1>4, PreviousBlock DEF DSIZE
  <2>5. /\ \A b \in B : b \in Int /\ b < t
        /\ \A b \in B : b < last \/ b = last
    <3>1. \A b \in B : b \in Int /\ b < t
      BY <1>1, TagsAreWords
    <3>2. \A b \in B : last < b => t <= b
      BY <1>1, <2>4 DEF Tiles
    <3> QED BY <1>4, <2>4, <3>1, <3>2
  <2>6. t \in A \ {DSIZE}
    BY <1>4 DEF DSIZE
  <2>7. Apart(f, A, t)
    <3> SUFFICES ASSUME NEW b \in A, NEXT_BLKP(f, b) \in A, IsFree(f, b), IsFree(f, NEXT_BLKP(f, b)),
                        t # b, t # NEXT_BLKP(f, b)
                 PROVE  FALSE
      BY DEF Apart
    <3>1. b \in B /\ NEXT_BLKP(h, b) \in B /\ IsFree(h, b) /\ IsFree(h, NEXT_BLKP(h, b))
      BY <2>2
    <3>2. NULL \in {b, NEXT_BLKP(h, b)}
      BY <3>1 DEF Apart
    <3> QED BY <1>1, <3>1, <3>2, FreesAre
  <2>8. e = t + size
    <3>1. ~IsFree(f, f.brk)
      BY <2>3, FreesAre
    <3> QED BY <2>2, <3>1 DEF MergeEnd
  <2>9. s = IF IsFree(h, last) THEN last ELSE t
    <3>1. last = PREV_BLKP(f, t)
      BY <2>2, <2>3, <2>4, <2>6, PreviousBlock
    <3> QED BY <2>2, <2>4, <3>1 DEF MergeStart
  <2>10. C = B \cup {s}
    <3>1. \A b \in A : ~(e <= b)
      BY <1>4, <2>5, <2>8
    <3>2. \A b \in A : b <= s <=> b \in B \cup {s}
      <4>1. CASE s = last
        BY <1>4, <2>4, <2>5, <4>1
      <4>2. CASE s = t
        BY <1>4, <2>5, <4>2
      <4> QED BY <2>9, <4>1, <4>2
    <3>3. s \in A
      BY <2>4, <2>9
    <3> HIDE DEF A, s, e
    <3> QED BY <3>1, <3>2, <3>3 DEF A
  <2>11. /\ r.bp = s /\ g.brk = f.brk /\ DOMAIN g.mem = DOMAIN f.mem
         /\ InOrder(g, C) /\ Apart(g, C, NULL)
         /\ s \in C /\ IsFree(g, s) /\ NEXT_BLKP(g, s) = e
         /\ Taken(g, C) = Taken(f, A)
         /\ \A b \in Taken(f, A) : Kept(f, g, b)
         /\ \A b \in C : b # s => /\ NEXT_BLKP(g, b) = NEXT_BLKP(f, b)
                                  /\ SizeOf(g, b) = SizeOf(f, b)
                                  /\ IsFree(g, b) <=> IsFree(f, b)
         /\ g.mem[e - 12] = f.mem[e - 12]
    <3> HIDE DEF A, t, s, e, C, g
    <3>1. Merged(f, A, r, C, s, e)
      BY <2>0, <2>1, <2>2, <2>6, <2>7, Coalesced
    <3> QED BY <2>0, <3>1 DEF Merged
  <2> HIDE DEF C, s, e, g
  <2>12. \A b \in B : b # s => /\ NEXT_BLKP(g, b) = NEXT_BLKP(h, b)
                               /\ SizeOf(g, b) = SizeOf(h, b)
                               /\ IsFree(g, b) <=> IsFree(h, b)
    BY <2>2, <2>10, <2>11
  <2>13. ASSUME NEW b \in Taken(h, B) PROVE Kept(h, g, b)
    <3>1. Kept(h, f, b) /\ Kept(f, g, b) /\ SizeOf(f, b) = SizeOf(h, b)
      BY <2>2, <2>11 DEF Taken
    <3> QED BY <2>2, <3>1 DEF Kept
  <2>14. SizeOf(g, s) >= size
    <3>1. SizeOf(g, s) \in Int /\ s \in Int /\ NEXT_BLKP(g, s) = s + SizeOf(g, s)
      BY <2>11, TagsAreWords DEF InOrder
    <3>2. s <= t
      BY <1>4, <2>4, <2>5, <2>9
    <3> QED BY <1>4, <2>8, <2>11, <3>1, <3>2
  <2>15. g.mem[g.brk - 12] = Junk
    BY <2>2, <2>8, <2>11
  <2>16. r.heap = g
    BY DEF g
  <2>17. Extension(h, B, size, r)
    BY <2>2, <2>8, <2>9, <2>10, <2>11, <2>12, <2>13, <2>14, <2>15, <2>16 DEF Extension
  <2> QED BY <1>6, <2>17
<1> QED BY <1>4, <1>5, <1>6

----------------------------------------------------------------------------
\* Walking over the blocks

\* Where the walk over the blocks goes on, it goes up, to another integer.
LEMMA WalkGoesUp ==
    ASSUME NEW h, IsHeap(h), NEW bp \in Int, ~EndsAt(h, bp)
    PROVE  /\ NEXT_BLKP(h, bp) \in Int /\ bp < NEXT_BLKP(h, bp)
           /\ 0 <= bp /\ bp <= h.brk + 4
<1>1. /\ h.brk \in Nat
      /\ \A a \in DOMAIN h.mem : h.mem[a] \in Int /\ a \in Int
      /\ \A a \in Int : a \in DOMAIN h.mem <=> a % 4 = 0 /\ 0 <= a /\ a < h.brk
  BY HeapHas
<1>2. bp - 4 \in DOMAIN h.mem /\ ~(SizeOf(h, bp) <= 0)
  BY DEF EndsAt, WSIZE
<1>3. SizeOf(h, bp) \in Int
  BY <1>1, <1>2, SizesAreEights DEF SizeOf, WSIZE
<1>4. 0 <= bp - 4 /\ bp - 4 < h.brk
  BY <1>1, <1>2
<1> QED BY <1>1, <1>2, <1>3, <1>4 DEF NEXT_BLKP

\* The walk of Blocks, as an equation.
LEMMA BlocksWalk ==
    ASSUME NEW h, IsHeap(h)
    PROVE  \E walk :
              /\ walk = [bp \in Int |-> IF EndsAt(h, bp) THEN {} ELSE {bp} \cup walk[NEXT_BLKP(h, bp)]]
              /\ Blocks(h) = walk[DSIZE]
<1> DEFINE T == {bp \in Int : ~EndsAt(h, bp)}
           next == [bp \in T |-> NEXT_BLKP(h, bp)]
           Goes(w) == w = [bp \in Int |-> IF EndsAt(h, bp) THEN {} ELSE {bp} \cup w[NEXT_BLKP(h, bp)]]
<1>1. T \in SUBSET Int
  OBVIOUS
<1>2. \A bp \in T : NEXT_BLKP(h, bp) \in Int
  BY WalkGoesUp
<1>3. next \in [T -> Int]
  BY <1>2
<1>4. PICK walk : IsWalk(walk, Int, T, next)
  <2> HIDE DEF T, next
  <2> QED BY <1>1, <1>3, WalkExists
<1>5. Goes(walk)
  <2>1. \A x \in Int : (IF x \in T THEN {x} \cup walk[next[x]] ELSE {})
                       = (IF EndsAt(h, x) THEN {} ELSE {x} \cup walk[NEXT_BLKP(h, x)])
    OBVIOUS
  <2> HIDE DEF T, next
  <2> QED BY <1>4, <2>1 DEF IsWalk
<1>6. Goes(CHOOSE w : Goes(w))
  <2> HIDE DEF Goes
  <2> QED BY <1>5
<1>7. Blocks(h) = (CHOOSE w : Goes(w))[DSIZE]
  BY DEF Blocks
<1> QED BY <1>6, <1>7

\* The walk stays in a set that it starts in and does not leave.
LEMMA BlocksWithin ==
    ASSUME NEW h, IsHeap(h), NEW S \in SUBSET Int, DSIZE \in S,
           \A x \in S : ~EndsAt(h, x) => NEXT_BLKP(h, x) \in S
    PROVE  Blocks(h) \subseteq {x \in S : ~EndsAt(h, x)}
<1>1. PICK walk :
         /\ walk = [bp \in Int |-> IF EndsAt(h, bp) THEN {} ELSE {bp} \cup walk[NEXT_BLKP(h, bp)]]
         /\ Blocks(h) = walk[DSIZE]
  BY BlocksWalk
<1> DEFINE R == {x \in S : ~EndsAt(h, x)}
           Bad == {x \in S : ~(walk[x] \subseteq R)}
<1>2. \A x \in S : EndsAt(h, x) => walk[x] = {}
  BY <1>1
<1>3. \A x \in S : ~EndsAt(h, x) => walk[x] = {x} \cup walk[NEXT_BLKP(h, x)]
  BY <1>1
<1>4. ASSUME NEW x \in Bad PROVE ~EndsAt(h, x) /\ NEXT_BLKP(h, x) \in Bad
  <2>1. ~EndsAt(h, x)
    BY <1>2
  <2>2. NEXT_BLKP(h, x) \in S /\ x \in R
    BY <2>1
  <2>3. walk[x] = {x} \cup walk[NEXT_BLKP(h, x)]
    BY <1>3, <2>1
  <2> HIDE DEF R
  <2> QED BY <2>1, <2>2, <2>3
<1>5. Bad = {}
  <2> SUFFICES ASSUME Bad # {} PROVE FALSE
    OBVIOUS
  <2>1. \A x \in Bad : x \in Int /\ x < NEXT_BLKP(h, x) /\ 0 <= x /\ x <= h.brk + 4
    <3> TAKE x \in Bad
    <3>1. x \in Int /\ ~EndsAt(h, x)
      BY <1>4
    <3> HIDE DEF Bad
    <3> QED BY <3>1, WalkGoesUp
  <2> HIDE DEF Bad
  <2>2. Bad \in SUBSET Int /\ IsFiniteSet(Bad)
    <3>1. h.brk + 4 \in Int
      BY HeapHas
    <3>2. Bad \subseteq 0..(h.brk + 4)
      BY <2>1, <3>1
    <3>3. IsFiniteSet(0..(h.brk + 4))
      BY <3>1, FS_Interval
    <3> QED BY <2>1, <3>2, <3>3, FS_Subset
  <2>3. PICK x \in Bad : \A y \in Bad : y <= x
    BY <2>2, LargestExists
  <2> QED BY <1>4, <2>1, <2>3
<1>6. walk[DSIZE] \subseteq R
  BY <1>5
<1> QED BY <1>1, <1>6

\* A walk ends at the epilogue and nowhere before.
LEMMA WalkEnds ==
    ASSUME NEW h, IsHeap(h), NEW B, Tiles(h, B)
    PROVE  /\ EndsAt(h, h.brk)
           /\ \A b \in B : ~EndsAt(h, b)
<1>1. EndsAt(h, h.brk)
  BY FreesAre DEF EndsAt
<1>2. \A b \in B : ~EndsAt(h, b)
  BY TagsAreWords DEF EndsAt, WSIZE
<1> QED BY <1>1, <1>2

\* The walk of Blocks meets the blocks of the tiling, all of them.
LEMMA BlocksAre ==
    ASSUME NEW h, IsHeap(h), NEW B, Tiles(h, B)
    PROVE  Blocks(h) = B
<1>1. PICK walk :
         /\ walk = [bp \in Int |-> IF EndsAt(h, bp) THEN {} ELSE {bp} \cup walk[NEXT_BLKP(h, bp)]]
         /\ Blocks(h) = walk[DSIZE]
  BY BlocksWalk
<1> DEFINE From(x) == {b \in B : x <= b}
           Bad == {x \in B \cup {h.brk} : walk[x] # From(x)}
<1>2. \A b \in B : /\ b \in Int /\ b < h.brk /\ DSIZE <= b /\ NEXT_BLKP(h, b) \in Int
                   /\ b < NEXT_BLKP(h, b) /\ NEXT_BLKP(h, b) \in B \cup {h.brk}
  BY TagsAreWords DEF Tiles, Tagged, DSIZE
<1>3. h.brk \in Int
  BY TagsAreWords
<1>4. walk[h.brk] = From(h.brk)
  <2>1. walk[h.brk] = {}
    BY <1>1, <1>3, WalkEnds
  <2>2. From(h.brk) = {}
    BY <1>2, <1>3
  <2> QED BY <2>1, <2>2
<1>5. ASSUME NEW x \in B, walk[NEXT_BLKP(h, x)] = From(NEXT_BLKP(h, x)) PROVE walk[x] = From(x)
  <2>1. walk[x] = {x} \cup From(NEXT_BLKP(h, x))
    BY <1>1, <1>2, <1>5, WalkEnds
  <2>2. \A b \in B : x <= b <=> b = x \/ NEXT_BLKP(h, x) <= b
    BY <1>2 DEF Tiles
  <2> QED BY <2>1, <2>2
<1>6. Bad = {}
  <2> SUFFICES ASSUME Bad # {} PROVE FALSE
    OBVIOUS
  <2>1. Bad \in SUBSET Int /\ IsFiniteSet(Bad)
    <3>1. \A x \in B \cup {h.brk} : x \in Int /\ 0 <= x /\ x <= h.brk
      BY <1>3, TagsAreWords
    <3>4. Bad \subseteq B \cup {h.brk}
      OBVIOUS
    <3>2. IsFiniteSet(0..h.brk)
      BY <1>3, FS_Interval
    <3> HIDE DEF Bad
    <3>3. Bad \subseteq 0..h.brk
      BY <1>3, <3>1, <3>4
    <3> QED BY <3>1, <3>2, <3>3, <3>4, FS_Subset
  <2>2. PICK x \in Bad : \A y \in Bad : y <= x
    <3> HIDE DEF Bad
    <3> QED BY <2>1, LargestExists
  <2>3. x \in B /\ walk[x] # From(x)
    BY <1>4
  <2>4. NEXT_BLKP(h, x) \notin Bad
    BY <1>2, <2>2, <2>3
  <2>5. walk[NEXT_BLKP(h, x)] = From(NEXT_BLKP(h, x))
    BY <1>2, <2>3, <2>4
  <2> QED BY <1>5, <2>3, <2>5
<1>7. DSIZE \in B
  BY DEF Tiles
<1>8. walk[DSIZE] = From(DSIZE)
  BY <1>6, <1>7
<1>9. From(DSIZE) = B
  BY <1>2
<1> QED BY <1>1, <1>8, <1>9

----------------------------------------------------------------------------
\* What the client and the model write

\* The block for a request is no larger than an int can count.
Moderate(size) == size \in Nat /\ size + 16 < WORD \div 2

\* A number below WORD is what size_t holds of it, and one between the least and the
\* largest int is what an int holds of it.
LEMMA InAWord ==
    ASSUME NEW n \in Int
    PROVE  /\ 0 <= n /\ n < WORD => n % WORD = n
           /\ 0 - WORD \div 2 < n /\ n < WORD \div 2 => Signed(n) = n
<1>1. WORD \in Nat /\ WORD % 2 = 0
  BY SegregatedAssumption
<1>2. ASSUME NEW m \in Int, 0 <= m, m < WORD PROVE m % WORD = m
  BY <1>1, <1>2
<1>3. ASSUME 0 <= n, n < WORD \div 2 PROVE Signed(n) = n
  <2>1. n % WORD = n
    BY <1>1, <1>2, <1>3
  <2> QED BY <1>3, <2>1 DEF Signed
<1>4. ASSUME 0 - WORD \div 2 < n, n < 0 PROVE Signed(n) = n
  <2>1. 0 <= n + WORD /\ n + WORD < WORD /\ WORD \div 2 < n + WORD
    BY <1>1, <1>4
  <2>2. (n + WORD) % WORD = n + WORD
    BY <1>1, <1>2, <2>1
  <2>3. n % WORD = n + WORD
    BY <1>1, <1>4, <2>1, <2>2
  <2> QED BY <1>1, <2>1, <2>3 DEF Signed
<1> QED BY <1>1, <1>2, <1>3, <1>4

\* The block size for a moderate request is a multiple of 8, with room for the
\* request and the tags, and no larger than it must be.
LEMMA AdjustedSizeFits ==
    ASSUME NEW size, Moderate(size), NEW asize, asize = AdjustedSize(size)
    PROVE  /\ asize \in Int /\ asize % 8 = 0 /\ asize >= 16 /\ asize >= size + 8
           /\ asize < WORD \div 2
           /\ \A have \in Int : have % 8 = 0 /\ have >= 16 /\ have < asize => have < size + 8
<1> USE DEF Moderate
<1>0. WORD \in Nat /\ 24 < WORD \div 2
  BY SegregatedAssumption
<1>1. CASE size <= 8
  <2>1. asize = 16
    BY <1>1 DEF AdjustedSize, DSIZE
  <2> QED BY <1>0, <1>1, <2>1
<1>2. CASE ~(size <= 8)
  <2>0. (size + 15) % WORD = size + 15
    <3>1. size + 15 \in Int /\ 0 <= size + 15 /\ size + 15 < WORD
      BY <1>0
    <3> QED BY <3>1, InAWord
  <2>1. asize = 8 * ((size + 15) \div 8)
    <3>1. size + 8 + (8 - 1) = size + 15
      OBVIOUS
    <3> QED BY <1>2, <2>0, <3>1 DEF AdjustedSize, DSIZE
  <2>2. asize \in Int /\ asize % 8 = 0 /\ asize >= size + 8 /\ asize <= size + 15
    BY <2>1
  <2>3. ASSUME NEW have \in Int, have % 8 = 0, have < asize PROVE have + 8 <= asize
    BY <2>2, <2>3, EightsApart
  <2>4. \A have \in Int : have % 8 = 0 /\ have < asize => have < size + 8
    BY <2>2, <2>3
  <2> QED BY <1>0, <1>2, <2>2, <2>4
<1> QED BY <1>1, <1>2

\* A smaller request never needs the larger block: the size that mm_realloc hands
\* to mm_malloc is adjusted to the size it has adjusted itself.
LEMMA AdjustedTwice ==
    ASSUME NEW size, Moderate(size), NEW asize, asize = AdjustedSize(size)
    PROVE  /\ asize - 8 \in Nat \ {0} /\ (asize - 8) % WORD = asize - 8
           /\ AdjustedSize(asize - 8) = asize
<1>1. asize \in Int /\ asize % 8 = 0 /\ asize >= 16 /\ asize < WORD \div 2
  BY AdjustedSizeFits
<1>2. WORD \in Nat /\ 24 < WORD \div 2
  BY SegregatedAssumption
<1>3. (asize - 8) % WORD = asize - 8
  <2>1. asize - 8 \in Int /\ 0 <= asize - 8 /\ asize - 8 < WORD
    BY <1>1, <1>2
  <2> QED BY <2>1, InAWord
<1>4. CASE asize = 16
  BY <1>3, <1>4 DEF AdjustedSize, DSIZE
<1>5. CASE asize > 16
  <2>1. (asize + 7) % WORD = asize + 7
    <3>1. asize + 7 \in Int /\ 0 <= asize + 7 /\ asize + 7 < WORD
      BY <1>1, <1>2
    <3> QED BY <3>1, InAWord
  <2>2. asize - 8 + 8 + (8 - 1) = asize + 7 /\ ~(asize - 8 <= 8)
    BY <1>1, <1>5
  <2>3. AdjustedSize(asize - 8) = 8 * ((asize + 7) \div 8)
    BY <2>1, <2>2 DEF AdjustedSize, DSIZE
  <2>4. 8 * ((asize + 7) \div 8) = asize
    BY <1>1
  <2> QED BY <1>1, <1>3, <1>5, <2>3, <2>4
<1> QED BY <1>1, <1>4, <1>5

\* The words of a block between its tags are nobody's tags.
LEMMA PayloadIsNoTag ==
    ASSUME NEW h, IsHeap(h), NEW B, Tiles(h, B), NEW s \in B,
           NEW a \in Int, s <= a, a + 8 < NEXT_BLKP(h, s)
    PROVE  /\ a # h.brk - 4
           /\ \A b \in B : a # b - 4 /\ a # NEXT_BLKP(h, b) - 8
<1>1. /\ h.brk \in Int
      /\ \A b \in B : /\ b \in Int /\ NEXT_BLKP(h, b) \in Int /\ b < NEXT_BLKP(h, b)
                      /\ b + 8 <= NEXT_BLKP(h, b) /\ NEXT_BLKP(h, b) <= h.brk
  BY TagsAreWords
<1>2. ASSUME NEW b \in B PROVE a # b - 4 /\ a # NEXT_BLKP(h, b) - 8
  <2>1. b = s \/ NEXT_BLKP(h, b) <= s \/ NEXT_BLKP(h, s) <= b
    BY <1>1 DEF Tiles
  <2> QED BY <1>1, <2>1
<1> QED BY <1>1, <1>2

\* The words of a client's region lie between the tags of its block.
LEMMA RegionInBlock ==
    ASSUME NEW h, IsHeap(h), NEW B, Tiles(h, B), NEW s \in B,
           NEW size \in Nat, size + 8 <= SizeOf(h, s)
    PROVE  \A a \in RegionWords(s, size) : /\ a \in Int /\ s <= a /\ a < s + size /\ a + 8 < NEXT_BLKP(h, s)
                                           /\ a \in DOMAIN h.mem
<1>1. /\ s \in Int /\ s % 8 = 0 /\ s >= 8 /\ SizeOf(h, s) \in Int
      /\ NEXT_BLKP(h, s) = s + SizeOf(h, s) /\ NEXT_BLKP(h, s) <= h.brk
  BY TagsAreWords
<1>2. /\ h.brk \in Nat
      /\ \A a \in Int : a \in DOMAIN h.mem <=> a % 4 = 0 /\ 0 <= a /\ a < h.brk
  BY HeapHas
<1> SUFFICES ASSUME NEW a \in RegionWords(s, size)
             PROVE  /\ a \in Int /\ s <= a /\ a < s + size /\ a + 8 < NEXT_BLKP(h, s)
                    /\ a \in DOMAIN h.mem
  OBVIOUS
<1>3. PICK i \in 0..((size + 3) \div 4 - 1) : a = s + 4 * i
  BY DEF RegionWords, WSIZE
<1>4. i \in Int /\ i >= 0 /\ 4 * i < size
  <2>1. 4 * ((size + 3) \div 4) <= size + 3 /\ (size + 3) \div 4 \in Int
    OBVIOUS
  <2> QED BY <2>1
<1>5. a % 4 = 0
  <2>1. s % 4 = 0
    BY <1>1
  <2> QED BY <1>1, <1>3, <1>4, <2>1
<1>6. a \in Int /\ s <= a /\ a < s + size /\ a + 8 < NEXT_BLKP(h, s)
  BY <1>1, <1>3, <1>4
<1>7. 0 <= a /\ a < h.brk
  BY <1>1, <1>2, <1>6
<1> QED BY <1>2, <1>5, <1>6, <1>7

\* The blocks B of h are in g where they were, as they were.
SameBlocks(h, g, B) ==
    /\ g.brk = h.brk /\ DOMAIN g.mem = DOMAIN h.mem
    /\ \A b \in B : /\ SizeOf(g, b) = SizeOf(h, b) /\ (IsFree(g, b) <=> IsFree(h, b))
                    /\ NEXT_BLKP(g, b) = NEXT_BLKP(h, b)
    /\ Frees(g, B) = Frees(h, B) /\ Taken(g, B) = Taken(h, B)
    /\ Apart(h, B, NULL) => Apart(g, B, NULL)

\* A heap in order stays in order while its tags and its links stay.
LEMMA Rewritten ==
    ASSUME NEW h, NEW B, InOrder(h, B), NEW mem \in [DOMAIN h.mem -> Int],
           NEW g, g = [h EXCEPT !.mem = mem],
           mem[h.brk - 4] = h.mem[h.brk - 4],
           \A b \in B : mem[b - 4] = h.mem[b - 4] /\ mem[NEXT_BLKP(h, b) - 8] = h.mem[NEXT_BLKP(h, b) - 8],
           \A p \in Frees(h, B) : mem[p] = h.mem[p] /\ mem[p + 4] = h.mem[p + 4]
    PROVE  InOrder(g, B) /\ SameBlocks(h, g, B) /\ g.mem = mem /\ g.lists = h.lists
<1> DEFINE F == Frees(h, B)
<1>1. IsHeap(h) /\ Tiles(h, B) /\ Linked(h, F)
  BY DEF InOrder
<1>2. IsHeap(g) /\ g.mem = mem /\ g.brk = h.brk /\ g.lists = h.lists
  BY <1>1, MemChanged
<1>3. /\ Tiles(g, B)
      /\ \A b \in B : /\ SizeOf(g, b) = SizeOf(h, b) /\ (IsFree(g, b) <=> IsFree(h, b))
                      /\ NEXT_BLKP(g, b) = NEXT_BLKP(h, b)
      /\ Frees(g, B) = Frees(h, B) /\ Taken(g, B) = Taken(h, B)
  <2>1. /\ \A b \in B : /\ g.mem[b - 4] = h.mem[b - 4]
                       /\ g.mem[NEXT_BLKP(h, b) - 8] = h.mem[NEXT_BLKP(h, b) - 8]
        /\ g.mem[h.brk - 4] = h.mem[h.brk - 4]
    BY <1>2
  <2>2. IsHeap(h) /\ Tiles(h, B) /\ IsHeap(g) /\ g.brk = h.brk
    BY <1>1, <1>2
  <2> QED BY ONLY <2>1, <2>2, SameTags
<1>4. DOMAIN g.mem = DOMAIN h.mem
  BY <1>2
<1>5. Apart(h, B, NULL) => Apart(g, B, NULL)
  BY <1>3 DEF Apart
<1>6. \A p \in F : /\ SizeOf(g, p) = SizeOf(h, p) /\ PREV(g, p) = PREV(h, p)
                   /\ NEXT(g, p) = NEXT(h, p)
  BY <1>2, <1>3 DEF Frees, PREV, NEXT, PREV_PTR, NEXT_PTR, WSIZE
<1>7. ArePlaces(g, F)
  <2>1. F \in SUBSET (B \ {DSIZE})
    BY <1>1, FreesAre
  <2> HIDE DEF F
  <2> QED BY <1>2, <1>3, <2>1, PlacesIn
<1>8. Linked(g, F)
  <2> HIDE DEF F
  <2>1. IsHeap(h) /\ Linked(h, F) /\ IsHeap(g) /\ g.lists = h.lists
    BY <1>1, <1>2
  <2> QED BY ONLY <2>1, <1>6, <1>7, LinkedKept
<1> QED BY <1>2, <1>3, <1>4, <1>5, <1>8 DEF InOrder, SameBlocks

\* A heap in order stays in order when words between the tags of an allocated
\* block are written.
LEMMA PayloadWritten ==
    ASSUME NEW h, NEW B, InOrder(h, B), NEW s \in Taken(h, B),
           NEW mem \in [DOMAIN h.mem -> Int], NEW g, g = [h EXCEPT !.mem = mem],
           \A a \in DOMAIN h.mem : mem[a] = h.mem[a] \/ (s <= a /\ a + 8 < NEXT_BLKP(h, s))
    PROVE  InOrder(g, B) /\ SameBlocks(h, g, B) /\ g.mem = mem /\ g.lists = h.lists
<1> DEFINE F == Frees(h, B)
<1>1. IsHeap(h) /\ Tiles(h, B) /\ Linked(h, F)
  BY DEF InOrder
<1>2. s \in B \ {DSIZE} /\ s \notin F /\ ~IsFree(h, s)
  BY DEF Taken, Frees
<1>3. \A a \in DOMAIN h.mem : a \in Int
  BY <1>1, HeapHas
<1>4. \A a \in DOMAIN h.mem : mem[a] # h.mem[a] =>
         a # h.brk - 4 /\ \A b \in B : a # b - 4 /\ a # NEXT_BLKP(h, b) - 8
  BY <1>1, <1>2, <1>3, PayloadIsNoTag
<1>5. /\ h.brk - 4 \in DOMAIN h.mem
      /\ \A b \in B : b - 4 \in DOMAIN h.mem /\ NEXT_BLKP(h, b) - 8 \in DOMAIN h.mem
  BY <1>1, TagsAreWords
<1>6. ASSUME NEW p \in F PROVE mem[p] = h.mem[p] /\ mem[p + 4] = h.mem[p + 4]
  <2>1. p \in B \ {DSIZE} /\ p # s
    BY <1>1, <1>2, FreesAre
  <2>2. NEXT_BLKP(h, p) <= s \/ NEXT_BLKP(h, s) <= p
    <3>1. s \in Int /\ p \in Int
      BY <1>1, <1>2, <2>1, TagsAreWords
    <3> QED BY <1>1, <1>2, <2>1, <3>1 DEF Tiles
  <2>3. /\ p \in Int /\ s \in Int /\ NEXT_BLKP(h, p) \in Int /\ NEXT_BLKP(h, s) \in Int
        /\ p + 24 <= NEXT_BLKP(h, p)
    BY <1>1, <1>2, <2>1, TagsAreWords DEF DSIZE
  <2>4. p \in DOMAIN h.mem /\ p + 4 \in DOMAIN h.mem
    <3>1. ArePlaces(h, F)
      BY <1>1 DEF Linked
    <3> HIDE DEF F
    <3> QED BY <1>1, <3>1, PlacesAre DEF NEXT_PTR, WSIZE
  <2> QED BY <2>2, <2>3, <2>4
<1> QED BY <1>4, <1>5, <1>6, Rewritten

\* The client writes into its region and nowhere else.
LEMMA WrittenEffect ==
    ASSUME NEW h, NEW B, InOrder(h, B), NEW s \in Taken(h, B),
           NEW size \in Nat, size + 8 <= SizeOf(h, s), NEW c \in Nat,
           NEW g, g = Written(h, s, size, c)
    PROVE  /\ InOrder(g, B) /\ SameBlocks(h, g, B) /\ g.lists = h.lists
           /\ \A a \in DOMAIN h.mem :
                 g.mem[a] = IF a \in RegionWords(s, size) THEN Data(c) ELSE h.mem[a]
<1> DEFINE mem == [a \in DOMAIN h.mem |-> IF a \in RegionWords(s, size) THEN Data(c) ELSE h.mem[a]]
<1>1. IsHeap(h) /\ Tiles(h, B) /\ s \in B
  BY DEF InOrder, Taken
<1>2. g = [h EXCEPT !.mem = mem]
  BY DEF Written
<1>3. mem \in [DOMAIN h.mem -> Int]
  <2>1. Data(c) \in Int
    BY SegregatedAssumption DEF Data
  <2>2. \A a \in DOMAIN h.mem : h.mem[a] \in Int
    BY <1>1, HeapHas
  <2> QED BY <2>1, <2>2
<1>4. \A a \in DOMAIN h.mem : mem[a] = h.mem[a] \/ (s <= a /\ a + 8 < NEXT_BLKP(h, s))
  BY <1>1, RegionInBlock
<1>5. \A a \in DOMAIN h.mem : mem[a] = IF a \in RegionWords(s, size) THEN Data(c) ELSE h.mem[a]
  OBVIOUS
<1> HIDE DEF mem
<1>6. InOrder(g, B) /\ SameBlocks(h, g, B) /\ g.mem = mem /\ g.lists = h.lists
  BY <1>2, <1>3, <1>4, PayloadWritten
<1> QED BY <1>5, <1>6

\* Sums and differences of multiples of 4 are multiples of 4.
LEMMA FoursAdd ==
    ASSUME NEW x \in Int, x % 4 = 0, NEW y \in Int, y % 4 = 0
    PROVE  (x + y) % 4 = 0 /\ (x - y) % 4 = 0
  OBVIOUS

\* memcpy writes into the new region and nowhere else, and what it writes is in
\* the old block.
LEMMA CopiedEffect ==
    ASSUME NEW h, NEW B, InOrder(h, B), NEW from \in B, NEW to \in Taken(h, B),
           NEW size \in Nat, size + 8 <= SizeOf(h, to), size <= SizeOf(h, from),
           NEW g, g = Copied(h, from, to, size)
    PROVE  /\ InOrder(g, B) /\ SameBlocks(h, g, B) /\ g.lists = h.lists
           /\ \A a \in DOMAIN h.mem :
                 g.mem[a] = IF to <= a /\ a < to + size THEN h.mem[from + (a - to)] ELSE h.mem[a]
<1> DEFINE mem == [a \in DOMAIN h.mem |->
                      IF a \in to..(to + size - 1) THEN h.mem[from + (a - to)] ELSE h.mem[a]]
<1>1. IsHeap(h) /\ Tiles(h, B) /\ to \in B
  BY DEF InOrder, Taken
<1>2. g = [h EXCEPT !.mem = mem]
  BY DEF Copied
<1>3. /\ from \in Int /\ from % 8 = 0 /\ from >= 8 /\ SizeOf(h, from) \in Int
      /\ from + SizeOf(h, from) <= h.brk
      /\ to \in Int /\ to % 8 = 0 /\ SizeOf(h, to) \in Int /\ NEXT_BLKP(h, to) = to + SizeOf(h, to)
  BY <1>1, TagsAreWords
<1>4. /\ h.brk \in Int
      /\ \A a \in DOMAIN h.mem : h.mem[a] \in Int /\ a \in Int
      /\ \A a \in Int : a \in DOMAIN h.mem <=> a % 4 = 0 /\ 0 <= a /\ a < h.brk
  BY <1>1, HeapHas
<1>5. \A a \in DOMAIN h.mem : a \in to..(to + size - 1) <=> to <= a /\ a < to + size
  BY <1>3, <1>4
<1>6. ASSUME NEW a \in DOMAIN h.mem, to <= a, a < to + size PROVE from + (a - to) \in DOMAIN h.mem
  <2>1. a \in Int /\ a % 4 = 0
    BY <1>4
  <2>2. (from + (a - to)) % 4 = 0
    <3>1. from % 4 = 0 /\ to % 4 = 0
      BY <1>3, FooterIsAligned
    <3>2. a - to \in Int /\ (a - to) % 4 = 0
      BY <1>3, <2>1, <3>1, FoursAdd
    <3> QED BY <1>3, <3>1, <3>2, FoursAdd
  <2>3. 0 <= from + (a - to) /\ from + (a - to) < h.brk
    BY <1>3, <1>4, <1>6, <2>1
  <2> QED BY <1>3, <1>4, <2>1, <2>2, <2>3
<1>7. mem \in [DOMAIN h.mem -> Int]
  BY <1>4, <1>5, <1>6
<1>8. \A a \in DOMAIN h.mem : mem[a] = h.mem[a] \/ (to <= a /\ a + 8 < NEXT_BLKP(h, to))
  BY <1>3, <1>4, <1>5
<1>9. \A a \in DOMAIN h.mem :
         mem[a] = IF to <= a /\ a < to + size THEN h.mem[from + (a - to)] ELSE h.mem[a]
  BY <1>5
<1> HIDE DEF mem
<1>10. InOrder(g, B) /\ SameBlocks(h, g, B) /\ g.mem = mem /\ g.lists = h.lists
  BY <1>2, <1>7, <1>8, PayloadWritten
<1> QED BY <1>9, <1>10

\* A heap between two calls: it is in order, no two free blocks touch, and the word
\* before the footer of a free block is not known.
Ready(h, B) ==
    /\ InOrder(h, B) /\ Apart(h, B, NULL)
    /\ \A b \in Frees(h, B) : h.mem[NEXT_BLKP(h, b) - 12] = Junk

\* The client's regions are allocated blocks with room for them.
Owned(h, B, regions) ==
    /\ DOMAIN regions \subseteq Taken(h, B)
    /\ \A q \in DOMAIN regions :
          /\ regions[q].size \in Nat /\ regions[q].known \in Nat
          /\ regions[q].known <= regions[q].size
          /\ regions[q].size + 8 <= SizeOf(h, q)

\* The words that the client knows are between the tags of its blocks.
LEMMA KnownInBlock ==
    ASSUME NEW h, NEW B, InOrder(h, B), NEW regions, Owned(h, B, regions), NEW q \in DOMAIN regions,
           NEW a \in RegionWords(q, regions[q].known)
    PROVE  /\ q \in B \ {DSIZE} /\ ~IsFree(h, q) /\ a \in DOMAIN h.mem
           /\ a \in Int /\ q <= a /\ a < q + regions[q].known /\ a + 8 < NEXT_BLKP(h, q)
<1>1. IsHeap(h) /\ Tiles(h, B)
  BY DEF InOrder
<1>2. q \in B \ {DSIZE} /\ ~IsFree(h, q)
  BY DEF Owned, Taken
<1>3. regions[q].known \in Nat /\ regions[q].known + 8 <= SizeOf(h, q)
  <2>1. SizeOf(h, q) \in Int
    BY <1>1, <1>2, TagsAreWords
  <2> QED BY <2>1 DEF Owned
<1> QED BY <1>1, <1>2, <1>3, RegionInBlock

\* The word before the footer of a free block is no tag, no link and not known.
LEMMA LastWordIsNobodys ==
    ASSUME NEW h, NEW B, InOrder(h, B), NEW regions, Owned(h, B, regions),
           NEW b \in Frees(h, B), NEW a, a = NEXT_BLKP(h, b) - 12
    PROVE  /\ a \in DOMAIN h.mem /\ a # 0 /\ a # h.brk - 4
           /\ \A s \in B : a # s - 4 /\ a # NEXT_BLKP(h, s) - 8
           /\ \A p \in Frees(h, B) : a # p /\ a # p + 4
           /\ \A q \in DOMAIN regions : a \notin RegionWords(q, regions[q].known)
<1>1. IsHeap(h) /\ Tiles(h, B)
  BY DEF InOrder
<1>2. b \in B /\ b # DSIZE /\ IsFree(h, b)
  BY <1>1, FreesAre DEF Frees
<1>3. /\ b \in Int /\ 16 <= b /\ SizeOf(h, b) \in Int /\ SizeOf(h, b) >= 24
      /\ NEXT_BLKP(h, b) = b + SizeOf(h, b) /\ NEXT_BLKP(h, b) % 8 = 0 /\ NEXT_BLKP(h, b) <= h.brk
      /\ h.brk \in Int
  BY <1>1, <1>2, TagsAreWords DEF DSIZE
<1>4. a \in Int /\ b + 12 <= a /\ a + 8 < NEXT_BLKP(h, b)
  BY <1>3
<1>5. a \in DOMAIN h.mem
  <2>1. (NEXT_BLKP(h, b) - 8) \in Int /\ (NEXT_BLKP(h, b) - 8) % 8 = 0
    BY <1>3, FooterIsAligned
  <2>2. ((NEXT_BLKP(h, b) - 8) - 4) % 4 = 0
    BY <2>1, HeaderIsAligned
  <2>3. a % 4 = 0
    BY <1>3, <2>2
  <2> QED BY <1>1, <1>3, <1>4, <2>3, HeapHas
<1>6. a # h.brk - 4 /\ \A s \in B : a # s - 4 /\ a # NEXT_BLKP(h, s) - 8
  BY <1>1, <1>2, <1>3, <1>4, PayloadIsNoTag
<1>7. ASSUME NEW s \in B \ {DSIZE}, s # b PROVE ~(s <= a /\ a < NEXT_BLKP(h, s))
  <2>1. s \in Int /\ NEXT_BLKP(h, s) \in Int
    BY <1>1, TagsAreWords
  <2>2. NEXT_BLKP(h, s) <= b \/ NEXT_BLKP(h, b) <= s
    BY <1>1, <1>2, <1>3, <1>7, <2>1 DEF Tiles
  <2> QED BY <1>3, <1>4, <2>1, <2>2
<1>8. ASSUME NEW p \in Frees(h, B) PROVE a # p /\ a # p + 4
  <2>1. p \in B \ {DSIZE}
    BY <1>1, FreesAre
  <2>2. p \in Int /\ NEXT_BLKP(h, p) \in Int /\ p + 24 <= NEXT_BLKP(h, p)
    BY <1>1, <2>1, TagsAreWords DEF DSIZE
  <2>3. CASE p = b
    BY <1>3, <1>4, <2>3
  <2>4. CASE p # b
    BY <1>4, <1>7, <2>1, <2>2, <2>4
  <2> QED BY <2>3, <2>4
<1>9. ASSUME NEW q \in DOMAIN regions, a \in RegionWords(q, regions[q].known) PROVE FALSE
  <2>1. q \in B \ {DSIZE} /\ ~IsFree(h, q) /\ q <= a /\ a + 8 < NEXT_BLKP(h, q)
    BY <1>9, KnownInBlock
  <2>2. NEXT_BLKP(h, q) \in Int
    BY <1>1, <2>1, TagsAreWords
  <2> QED BY <1>2, <1>4, <1>7, <2>1, <2>2
<1> QED BY <1>3, <1>4, <1>5, <1>6, <1>8, <1>9

\* What the model forgets is no tag, no link and not known to the client.
LEMMA ForgottenEffect ==
    ASSUME NEW h, NEW B, InOrder(h, B), Apart(h, B, NULL), NEW regions, Owned(h, B, regions),
           NEW g, g = Forgotten(h, regions)
    PROVE  /\ Ready(g, B) /\ SameBlocks(h, g, B) /\ g.lists = h.lists
           /\ \A q \in DOMAIN regions :
                 \A a \in RegionWords(q, regions[q].known) : g.mem[a] = h.mem[a]
<1> DEFINE tags == UNION {{bp - WSIZE, FTRP(h, bp)} : bp \in Blocks(h)}
           links == UNION {{PREV_PTR(bp), NEXT_PTR(bp)} : bp \in FreeBlocks(h)}
           known == UNION {RegionWords(bp, regions[bp].known) : bp \in DOMAIN regions}
           kept == tags \cup links \cup known \cup {0, h.brk - WSIZE}
           mem == [a \in DOMAIN h.mem |-> IF a \in kept THEN h.mem[a] ELSE Junk]
<1>1. IsHeap(h) /\ Tiles(h, B)
  BY DEF InOrder
<1>2. g = [h EXCEPT !.mem = mem]
  BY DEF Forgotten
<1>3. Blocks(h) = B /\ FreeBlocks(h) = Frees(h, B)
  BY <1>1, BlocksAre DEF FreeBlocks, Frees
<1>4. \A b \in B : FTRP(h, b) = NEXT_BLKP(h, b) - 8
  BY <1>1, TagsAreWords
<1>5. \A a : a \in kept <=> \/ \E b \in B : a = b - 4 \/ a = NEXT_BLKP(h, b) - 8
                            \/ \E p \in Frees(h, B) : a = p \/ a = p + 4
                            \/ \E q \in DOMAIN regions : a \in RegionWords(q, regions[q].known)
                            \/ a = 0 \/ a = h.brk - 4
  <2>1. \A a : a \in tags <=> \E b \in B : a = b - 4 \/ a = NEXT_BLKP(h, b) - 8
    BY <1>3, <1>4 DEF WSIZE
  <2>2. \A a : a \in links <=> \E p \in Frees(h, B) : a = p \/ a = p + 4
    BY <1>3 DEF PREV_PTR, NEXT_PTR, WSIZE
  <2>3. \A a : a \in known <=> \E q \in DOMAIN regions : a \in RegionWords(q, regions[q].known)
    OBVIOUS
  <2> HIDE DEF tags, links, known
  <2> QED BY <2>1, <2>2, <2>3 DEF WSIZE
<1> HIDE DEF kept
<1>6. mem \in [DOMAIN h.mem -> Int]
  <2>1. Junk \in Int
    BY SegregatedAssumption DEF Junk, Data
  <2> QED BY <1>1, <2>1, HeapHas
<1>7. \A a \in DOMAIN h.mem : mem[a] = IF a \in kept THEN h.mem[a] ELSE Junk
  OBVIOUS
<1> HIDE DEF mem
<1>8. mem[h.brk - 4] = h.mem[h.brk - 4]
  BY <1>1, <1>5, <1>7, TagsAreWords
<1>9. \A b \in B : mem[b - 4] = h.mem[b - 4] /\ mem[NEXT_BLKP(h, b) - 8] = h.mem[NEXT_BLKP(h, b) - 8]
  BY <1>1, <1>5, <1>7, TagsAreWords
<1>10. \A p \in Frees(h, B) : mem[p] = h.mem[p] /\ mem[p + 4] = h.mem[p + 4]
  <2> TAKE p \in Frees(h, B)
  <2>1. p \in DOMAIN h.mem /\ p + 4 \in DOMAIN h.mem
    <3>1. ArePlaces(h, Frees(h, B))
      BY DEF InOrder, Linked
    <3> QED BY <1>1, <3>1, PlacesAre DEF NEXT_PTR, WSIZE
  <2>2. p \in kept /\ p + 4 \in kept
    BY <1>5
  <2> QED BY <1>7, <2>1, <2>2
<1>11. InOrder(g, B) /\ SameBlocks(h, g, B) /\ g.mem = mem /\ g.lists = h.lists
  BY <1>2, <1>6, <1>8, <1>9, <1>10, Rewritten
<1>12. ASSUME NEW b \in Frees(g, B) PROVE g.mem[NEXT_BLKP(g, b) - 12] = Junk
  <2>1. b \in Frees(h, B) /\ NEXT_BLKP(g, b) = NEXT_BLKP(h, b)
    BY <1>11 DEF SameBlocks, Frees
  <2>2. NEXT_BLKP(h, b) - 12 \in DOMAIN h.mem /\ NEXT_BLKP(h, b) - 12 \notin kept
    BY <1>5, <2>1, LastWordIsNobodys
  <2> QED BY <1>7, <1>11, <2>1, <2>2
<1>13. Ready(g, B)
  BY <1>11, <1>12 DEF Ready, SameBlocks
<1>14. ASSUME NEW q \in DOMAIN regions, NEW a \in RegionWords(q, regions[q].known)
       PROVE  g.mem[a] = h.mem[a]
  BY <1>5, <1>7, <1>11, KnownInBlock
<1> QED BY <1>11, <1>13, <1>14

----------------------------------------------------------------------------
\* What the client's blocks keep

\* The block b is in g at least as large as in h, with what is between its tags.
Holds(h, g, b) ==
    /\ SizeOf(g, b) >= SizeOf(h, b)
    /\ \A a \in DOMAIN h.mem : b <= a /\ a + 8 < b + SizeOf(h, b) => g.mem[a] = h.mem[a]

AllHold(h, g, S) == \A b \in S : Holds(h, g, b)

\* A block that is kept holds what it held.
LEMMA KeptHolds ==
    ASSUME NEW h, IsHeap(h), NEW B, Tiles(h, B), NEW b \in B, NEW g, Kept(h, g, b)
    PROVE  Holds(h, g, b)
<1>1. b \in Int /\ SizeOf(h, b) \in Int /\ \A a \in DOMAIN h.mem : a \in Int
  BY TagsAreWords, HeapHas
<1>2. SizeOf(g, b) = SizeOf(h, b)
  BY KeptTags
<1>3. \A a \in DOMAIN h.mem : b <= a /\ a + 8 < b + SizeOf(h, b) => g.mem[a] = h.mem[a]
  BY <1>1 DEF Kept, WSIZE
<1> QED BY <1>1, <1>2, <1>3 DEF Holds

\* What is held twice is held.
LEMMA HoldsTwice ==
    ASSUME NEW h, IsHeap(h), NEW B, Tiles(h, B), NEW f, IsHeap(f), NEW C, Tiles(f, C),
           DOMAIN h.mem \subseteq DOMAIN f.mem,
           NEW b \in B \cap C, NEW g, SizeOf(g, b) \in Int, Holds(h, f, b), Holds(f, g, b)
    PROVE  Holds(h, g, b)
<1>1. b \in Int /\ SizeOf(h, b) \in Int /\ SizeOf(f, b) \in Int /\ \A a \in DOMAIN h.mem : a \in Int
  BY TagsAreWords, HeapHas
<1>2. SizeOf(g, b) >= SizeOf(h, b)
  BY <1>1 DEF Holds
<1>3. ASSUME NEW a \in DOMAIN h.mem, b <= a, a + 8 < b + SizeOf(h, b) PROVE g.mem[a] = h.mem[a]
  <2>1. a + 8 < b + SizeOf(f, b)
    BY <1>1, <1>3 DEF Holds
  <2> QED BY <1>3, <2>1 DEF Holds
<1> QED BY <1>2, <1>3 DEF Holds

----------------------------------------------------------------------------
\* Taking a free block

\* The free block that ends where s does now has become a part of the block s.
TakesOver(h, B, g, C, s, size) ==
    /\ InOrder(g, C) /\ Apart(g, C, NULL) /\ g.brk = h.brk /\ DOMAIN g.mem = DOMAIN h.mem
    /\ Taken(g, C) = Taken(h, B) \cup {s} /\ SizeOf(g, s) = size
    /\ AllHold(h, g, Taken(h, B))

\* A free block is taken, whole, by itself or by the allocated block before it.
LEMMA TakesNext ==
    ASSUME NEW h, NEW B, InOrder(h, B), Apart(h, B, NULL), NEW q \in Frees(h, B),
           NEW s \in B \ {DSIZE}, s = q \/ (~IsFree(h, s) /\ NEXT_BLKP(h, s) = q),
           NEW size \in Int, s + size = NEXT_BLKP(h, q),
           NEW g, g = PutBlock(delete_node(h, q), s, size, 1),
           NEW C, C = {b \in B : b <= s \/ s + size <= b}
    PROVE  TakesOver(h, B, g, C, s, size)
<1> DEFINE F == Frees(h, B)
           G == F \ {q}
           d == delete_node(h, q)
<1>1. IsHeap(h) /\ Tiles(h, B) /\ Linked(h, F)
  BY DEF InOrder
<1>2. q \in B \ {DSIZE} /\ IsFree(h, q) /\ G \in SUBSET (B \ {DSIZE}) /\ DSIZE \in B
  BY <1>1, FreesAre DEF Frees
<1>3. /\ Differ(h, d, LinkWords(G)) /\ Linked(d, G)
  BY <1>1, DeleteLinked
<1> HIDE DEF d
<1>4. /\ IsHeap(d) /\ d.brk = h.brk /\ DOMAIN d.mem = DOMAIN h.mem
      /\ \A a \in DOMAIN h.mem : a \notin LinkWords(G) => d.mem[a] = h.mem[a]
  BY <1>3 DEF Differ
<1>5. /\ Tiles(d, B)
      /\ \A b \in B : /\ SizeOf(d, b) = SizeOf(h, b) /\ (IsFree(d, b) <=> IsFree(h, b))
                      /\ NEXT_BLKP(d, b) = NEXT_BLKP(h, b)
      /\ \A b \in B \ G : Kept(h, d, b)
  <2> HIDE DEF G
  <2> QED BY <1>1, <1>2, <1>3, LinksKeepTiles
<1>6. /\ \A b \in B : /\ b \in Int /\ SizeOf(h, b) \in Int /\ NEXT_BLKP(h, b) \in Int
                      /\ b < NEXT_BLKP(h, b) /\ NEXT_BLKP(h, b) = b + SizeOf(h, b)
                      /\ NEXT_BLKP(h, b) <= h.brk
      /\ h.brk \in Int
  BY <1>1, TagsAreWords
<1>7. s + size \in B \cup {h.brk} /\ q < s + size /\ s <= q /\ size > 0
  BY <1>1, <1>2, <1>6 DEF Tiles, Tagged
<1>8. \A b \in B : s <= b /\ b < s + size => b = s \/ b = q
  <2> TAKE b \in B
  <2>1. b > q => NEXT_BLKP(h, q) <= b
    BY <1>1, <1>2, <1>6 DEF Tiles
  <2>2. b > s => NEXT_BLKP(h, s) <= b
    BY <1>1, <1>6 DEF Tiles
  <2> QED BY <1>2, <1>6, <1>7, <2>1, <2>2
<1>9. C \in SUBSET B /\ s \in C /\ \A b \in B : b # q => b \in C
  BY <1>6, <1>7, <1>8
<1>10. /\ Differ(d, g, TagWords(s, size)) /\ g.lists = d.lists
       /\ Tiles(g, C)
       /\ SizeOf(g, s) = size /\ (IsFree(g, s) <=> 1 = 0)
       /\ NEXT_BLKP(g, s) = s + size
       /\ \A b \in C : b # s => Kept(d, g, b)
  <2>1. 1 \in {0, 1} /\ g = PutBlock(d, s, size, 1) /\ s + size \in B \cup {d.brk}
    BY <1>4, <1>7 DEF d
  <2> QED BY <1>4, <1>5, <1>7, <2>1, Retiled
<1>11. /\ IsHeap(g) /\ g.brk = h.brk /\ DOMAIN g.mem = DOMAIN h.mem
       /\ \A a \in DOMAIN h.mem : a \notin TagWords(s, size) => g.mem[a] = d.mem[a]
  BY <1>4, <1>10 DEF Differ
<1>12. ASSUME NEW b \in C, b # s
       PROVE  /\ SizeOf(g, b) = SizeOf(h, b) /\ (IsFree(g, b) <=> IsFree(h, b))
              /\ NEXT_BLKP(g, b) = NEXT_BLKP(h, b)
  <2>1. b \in B /\ Kept(d, g, b)
    BY <1>9, <1>10, <1>12
  <2> QED BY <1>4, <1>5, <2>1, KeptTags
<1>13. G \subseteq C /\ s \notin G
  BY <1>2, <1>9 DEF Frees
<1>14. Linked(g, G)
  <2>1. \A p \in G : Kept(d, g, p)
    BY <1>10, <1>13
  <2>2. g.brk \in Int /\ g.brk >= d.brk
    BY <1>4, <1>6, <1>11
  <2> HIDE DEF G
  <2> QED BY <1>2, <1>3, <1>4, <1>5, <1>10, <2>1, <2>2, StillLinked
<1>15. Frees(g, C) = G
  <2>1. \A b \in C : IsFree(g, b) <=> b \in G
    <3> TAKE b \in C
    <3>1. CASE b = s
      BY <1>10, <1>13, <3>1
    <3>2. CASE b # s
      <4>1. b # q
        BY <1>6, <1>7, <3>2
      <4> QED BY <1>9, <1>12, <3>2, <4>1 DEF Frees
    <3> QED BY <3>1, <3>2
  <2> HIDE DEF G
  <2> QED BY <1>13, <2>1 DEF Frees
<1>16. Taken(g, C) = Taken(h, B) \cup {s}
  <2>1. \A b \in C : b # DSIZE /\ ~IsFree(g, b) <=> b = s \/ (b # DSIZE /\ ~IsFree(h, b))
    BY <1>10, <1>12
  <2>2. \A b \in Taken(h, B) : b \in C
    BY <1>2, <1>9 DEF Taken
  <2> QED BY <1>9, <2>1, <2>2 DEF Taken
<1>17. Apart(g, C, NULL)
  <2> SUFFICES ASSUME NEW b \in C, NEXT_BLKP(g, b) \in C, IsFree(g, b), IsFree(g, NEXT_BLKP(g, b))
               PROVE  FALSE
    BY DEF Apart
  <2>1. b # s /\ NEXT_BLKP(g, b) # s
    BY <1>10
  <2>2. b \in B /\ NEXT_BLKP(h, b) \in B /\ IsFree(h, b) /\ IsFree(h, NEXT_BLKP(h, b))
    BY <1>9, <1>12, <2>1
  <2>3. NULL \in {b, NEXT_BLKP(h, b)}
    BY <2>2 DEF Apart
  <2> QED BY <1>1, <2>2, <2>3, FreesAre
<1>18. ASSUME NEW b \in Taken(h, B), b # s PROVE Holds(h, g, b)
  <2>1. b \in B /\ b \in C /\ b \notin G
    BY <1>2, <1>9 DEF Taken, Frees
  <2>2. Kept(h, d, b) /\ Kept(d, g, b) /\ SizeOf(d, b) = SizeOf(h, b)
    BY <1>5, <1>10, <1>18, <2>1
  <2>3. Kept(h, g, b)
    BY <1>4, <2>2 DEF Kept
  <2> QED BY <1>1, <2>1, <2>3, KeptHolds
<1>19. ASSUME s \in Taken(h, B) PROVE Holds(h, g, s)
  <2>1. s # q /\ NEXT_BLKP(h, s) = q
    BY <1>2, <1>19 DEF Taken
  <2>2. SizeOf(g, s) >= SizeOf(h, s)
    BY <1>2, <1>6, <1>7, <1>10, <2>1
  <2>3. ASSUME NEW a \in DOMAIN h.mem, s <= a, a + 8 < s + SizeOf(h, s) PROVE g.mem[a] = h.mem[a]
    <3>1. a \in Int
      BY <1>1, HeapHas
    <3>2. a \notin TagWords(s, size)
      BY <1>2, <1>6, <1>7, <2>1, <2>3, <3>1 DEF TagWords, WSIZE, DSIZE
    <3>3. d.mem[a] = h.mem[a]
      <4>1. Kept(h, d, s)
        BY <1>5, <1>13
      <4> QED BY <1>6, <2>3, <3>1, <4>1 DEF Kept, WSIZE
    <3> QED BY <1>11, <3>2, <3>3
  <2> QED BY <2>2, <2>3 DEF Holds
<1>20. AllHold(h, g, Taken(h, B))
  BY <1>18, <1>19 DEF AllHold
<1>21. InOrder(g, C)
  BY <1>10, <1>11, <1>14, <1>15 DEF InOrder
<1> QED BY <1>10, <1>11, <1>16, <1>17, <1>20, <1>21 DEF TakesOver

----------------------------------------------------------------------------
\* mm_free

\* The blocks C of g are in order, and the taken ones are T, with what they held.
Leaves(h, g, C, T) ==
    /\ InOrder(g, C) /\ Apart(g, C, NULL) /\ g.brk = h.brk /\ DOMAIN g.mem = DOMAIN h.mem
    /\ Taken(g, C) = T /\ AllHold(h, g, T)

\* mm_free makes an allocated block a free one, or a part of one.
LEMMA FreeEffect ==
    ASSUME NEW h, NEW B, InOrder(h, B), Apart(h, B, NULL), NEW bp \in Taken(h, B),
           NEW g, g = mm_free(h, bp)
    PROVE  \E C : Leaves(h, g, C, Taken(h, B) \ {bp})
<1> DEFINE F == Frees(h, B)
           G == F \cup {bp}
           size == SizeOf(h, bp)
           f == PutBlock(h, bp, size, 0)
           k == insert_node(f, bp, size)
           T == Taken(h, B) \ {bp}
<1>1. IsHeap(h) /\ Tiles(h, B) /\ Linked(h, F)
  BY DEF InOrder
<1>2. bp \in B \ {DSIZE} /\ ~IsFree(h, bp) /\ bp \notin F /\ DSIZE \in B
  BY <1>1, FreesAre DEF Taken, Frees
<1>3. /\ bp \in Int /\ size \in Int /\ size >= 24
      /\ NEXT_BLKP(h, bp) = bp + size /\ NEXT_BLKP(h, bp) \in B \cup {h.brk}
  BY <1>1, <1>2, TagsAreWords DEF Tiles, Tagged, DSIZE
<1>4. \A b \in B : b <= bp \/ bp + size <= b
  <2>1. \A b \in B : bp < b => NEXT_BLKP(h, bp) <= b
    BY <1>1, <1>2 DEF Tiles
  <2>2. \A b \in B : b \in Int
    BY <1>1, TagsAreWords
  <2> QED BY <1>3, <2>1, <2>2
<1>5. /\ Differ(h, f, TagWords(bp, size)) /\ f.lists = h.lists
      /\ Tiles(f, B)
      /\ SizeOf(f, bp) = size /\ IsFree(f, bp)
      /\ NEXT_BLKP(f, bp) = bp + size
      /\ \A b \in B : b # bp => Kept(h, f, b)
  <2> DEFINE D == {b \in B : b <= bp \/ bp + size <= b}
  <2>1. 0 \in {0, 1} /\ D = {b \in B : b <= bp \/ bp + size <= b} /\ f = PutBlock(h, bp, size, 0)
    OBVIOUS
  <2>2. /\ bp + size \in B \cup {h.brk} /\ size > 0 /\ size \in Int
        /\ IsHeap(h) /\ Tiles(h, B) /\ bp \in B \ {DSIZE}
    BY <1>1, <1>2, <1>3
  <2>3. D = B
    BY <1>4
  <2> HIDE DEF D, f, size
  <2>4. /\ Differ(h, f, TagWords(bp, size)) /\ f.lists = h.lists
        /\ Tiles(f, D)
        /\ SizeOf(f, bp) = size /\ (IsFree(f, bp) <=> 0 = 0)
        /\ NEXT_BLKP(f, bp) = bp + size
        /\ \A b \in D : b # bp => Kept(h, f, b)
    BY <2>1, <2>2, Retiled
  <2> QED BY <2>3, <2>4
<1> HIDE DEF f
<1>6. IsHeap(f) /\ f.brk = h.brk /\ DOMAIN f.mem = DOMAIN h.mem
  BY <1>5 DEF Differ
<1>7. \A b \in B : b # bp => /\ SizeOf(f, b) = SizeOf(h, b) /\ (IsFree(f, b) <=> IsFree(h, b))
                             /\ NEXT_BLKP(f, b) = NEXT_BLKP(h, b)
  BY <1>1, <1>5, KeptTags
<1>8. F \in SUBSET (B \ {DSIZE}) /\ G \in SUBSET (B \ {DSIZE})
  BY <1>1, <1>2, FreesAre
<1>9. Frees(f, B) = G
  <2>1. \A b \in B : IsFree(f, b) <=> b \in G
    BY <1>5, <1>7 DEF Frees
  <2> HIDE DEF G
  <2> QED BY <1>8, <2>1 DEF Frees
<1>10. Linked(f, F)
  <2>1. \A p \in F : Kept(h, f, p)
    BY <1>2, <1>5, <1>8
  <2>2. f.brk \in Int /\ f.brk >= h.brk
    BY <1>1, <1>6, HeapHas
  <2> HIDE DEF F
  <2> QED BY <1>1, <1>5, <1>8, <2>1, <2>2, StillLinked
<1>11. ArePlaces(f, G)
  <2> HIDE DEF G
  <2> QED BY <1>5, <1>6, <1>8, PlacesIn
<1>12. Differ(f, k, LinkWords(G)) /\ Linked(k, G)
  <2>1. size = SizeOf(f, bp) /\ size > 16
    BY <1>3, <1>5
  <2> HIDE DEF F, size
  <2> QED BY <1>2, <1>6, <1>10, <1>11, <2>1, InsertLinked
<1> HIDE DEF k
<1>13. IsHeap(k) /\ k.brk = f.brk /\ DOMAIN k.mem = DOMAIN f.mem
  BY <1>12 DEF Differ
<1>14. /\ Tiles(k, B)
       /\ \A b \in B : /\ SizeOf(k, b) = SizeOf(f, b) /\ (IsFree(k, b) <=> IsFree(f, b))
                       /\ NEXT_BLKP(k, b) = NEXT_BLKP(f, b)
       /\ Frees(k, B) = Frees(f, B)
       /\ \A b \in B \ G : Kept(f, k, b)
  <2> HIDE DEF G
  <2> QED BY <1>5, <1>6, <1>8, <1>12, LinksKeepTiles
<1>15. InOrder(k, B)
  BY <1>9, <1>12, <1>13, <1>14 DEF InOrder
<1>16. Apart(k, B, bp)
  <2> SUFFICES ASSUME NEW b \in B, NEXT_BLKP(k, b) \in B, IsFree(k, b), IsFree(k, NEXT_BLKP(k, b)),
                      b # bp, NEXT_BLKP(k, b) # bp
               PROVE  FALSE
    BY DEF Apart
  <2>1. NEXT_BLKP(h, b) \in B /\ IsFree(h, b) /\ IsFree(h, NEXT_BLKP(h, b))
    BY <1>7, <1>14
  <2>2. NULL \in {b, NEXT_BLKP(h, b)}
    BY <2>1 DEF Apart
  <2> QED BY <1>1, <2>1, <2>2, FreesAre
<1>17. IsFree(k, bp)
  BY <1>2, <1>5, <1>14
<1> DEFINE r == coalesce(k, bp)
           s == MergeStart(k, bp)
           e == MergeEnd(k, bp)
           C == {b \in B : b <= s \/ e <= b}
<1>18. Merged(k, B, r, C, s, e)
  BY <1>2, <1>15, <1>16, <1>17, Coalesced
<1>19. g = r.heap
  BY DEF mm_free, k, f
<1> HIDE DEF r, s, e, C
<1>20. Taken(k, B) = T
  <2>1. \A b \in B : b # DSIZE /\ ~IsFree(k, b) <=> b # bp /\ b # DSIZE /\ ~IsFree(h, b)
    BY <1>5, <1>7, <1>14
  <2> QED BY <2>1 DEF Taken
<1>21. ASSUME NEW b \in T PROVE Holds(h, g, b)
  <2>1. b \in B /\ b # bp /\ b \notin G
    BY DEF Taken, Frees
  <2>2. Kept(h, f, b) /\ Kept(f, k, b) /\ SizeOf(f, b) = SizeOf(h, b) /\ SizeOf(k, b) = SizeOf(h, b)
    BY <1>5, <1>7, <1>14, <2>1
  <2>3. Kept(k, g, b)
    BY <1>18, <1>19, <1>20 DEF Merged
  <2>4. Kept(h, g, b)
    BY <1>6, <1>13, <2>2, <2>3 DEF Kept
  <2> QED BY <1>1, <2>1, <2>4, KeptHolds
<1>22. Leaves(h, g, C, T)
  <2>1. /\ g.brk = k.brk /\ DOMAIN g.mem = DOMAIN k.mem
        /\ InOrder(g, C) /\ Apart(g, C, NULL) /\ Taken(g, C) = Taken(k, B)
    BY <1>18, <1>19 DEF Merged
  <2> HIDE DEF T
  <2> QED BY <1>6, <1>13, <1>20, <1>21, <2>1 DEF Leaves, AllHold
<1> QED BY <1>22

----------------------------------------------------------------------------
\* Taking a free block that is too large

\* What is written inside a block leaves the others alone.
LEMMA OthersKept ==
    ASSUME NEW h, IsHeap(h), NEW B, Tiles(h, B), NEW q \in B, NEW p \in B, p # q,
           NEW W, NEW g, Differ(h, g, W),
           \A a \in W : a \in Int /\ q - 4 <= a /\ a < NEXT_BLKP(h, q) - 4
    PROVE  Kept(h, g, p)
<1>1. /\ p \in Int /\ q \in Int /\ NEXT_BLKP(h, p) \in Int /\ NEXT_BLKP(h, q) \in Int
      /\ NEXT_BLKP(h, p) = p + SizeOf(h, p) /\ SizeOf(h, p) \in Int
      /\ \A a \in DOMAIN h.mem : a \in Int
  BY TagsAreWords, HeapHas
<1>2. NEXT_BLKP(h, p) <= q \/ NEXT_BLKP(h, q) <= p
  BY <1>1 DEF Tiles
<1>3. ASSUME NEW a \in DOMAIN h.mem, p - 4 <= a, a < p + SizeOf(h, p) - 4 PROVE a \notin W
  BY <1>1, <1>2, <1>3
<1> QED BY <1>3 DEF Kept, Differ, WSIZE

\* A heap whose lists point into it.
Bounded(h) == IsHeap(h) /\ \A c \in Lists : 0 <= h.lists[c] /\ h.lists[c] < h.brk

\* Linked lists point into the heap.
LEMMA LinkedIsBounded ==
    ASSUME NEW h, IsHeap(h), h.brk > 0, NEW F, Linked(h, F)
    PROVE  Bounded(h)
<1>1. /\ \A p \in F : p \in Int /\ p >= 8 /\ p + 8 <= h.brk
      /\ \A c \in Lists : h.lists[c] # NULL => h.lists[c] \in F
      /\ h.brk \in Int
  BY HeapHas DEF Linked, ArePlaces
<1> QED BY <1>1 DEF Bounded, NULL

\* The first asize bytes of a free block have become an allocated block, and the
\* rest of it has no tags yet.
PartTaken(h, B, g, q, asize) ==
    /\ IsHeap(g) /\ g.brk = h.brk /\ DOMAIN g.mem = DOMAIN h.mem
    /\ g.mem[q - 4] = PACK(asize, 1)
    /\ g.mem[NEXT_BLKP(h, q) - 12] = h.mem[NEXT_BLKP(h, q) - 12]
    /\ \A b \in B : b < q => g.mem[b - 4] = h.mem[b - 4]
    /\ Linked(g, Frees(h, B) \ {q})

\* What place writes into a block before it looks at the rest.
LEMMA PartIsTaken ==
    ASSUME NEW h, NEW B, InOrder(h, B), NEW q \in Frees(h, B),
           NEW asize \in Int, asize % 8 = 0, asize >= 16, asize < SizeOf(h, q),
           NEW t, t = PutBlock(delete_node(h, q), q, asize, 1)
    PROVE  PartTaken(h, B, t, q, asize)
<1> DEFINE F == Frees(h, B)
           G == F \ {q}
           d == delete_node(h, q)
           next == NEXT_BLKP(h, q)
<1>1. IsHeap(h) /\ Tiles(h, B) /\ Linked(h, F)
  BY DEF InOrder
<1>2. q \in B \ {DSIZE} /\ G \in SUBSET (B \ {DSIZE})
  BY <1>1, FreesAre DEF Frees
<1>3. Differ(h, d, LinkWords(G)) /\ Linked(d, G)
  BY <1>1, DeleteLinked
<1>4. t = PutBlock(d, q, asize, 1)
  OBVIOUS
<1> HIDE DEF d
<1>5. IsHeap(d) /\ d.brk = h.brk /\ DOMAIN d.mem = DOMAIN h.mem
  BY <1>3 DEF Differ
<1>6. /\ Tiles(d, B)
      /\ \A b \in B : SizeOf(d, b) = SizeOf(h, b) /\ NEXT_BLKP(d, b) = NEXT_BLKP(h, b)
      /\ \A b \in B \ G : Kept(h, d, b)
  <2> HIDE DEF G
  <2> QED BY <1>1, <1>2, <1>3, LinksKeepTiles
<1>7. /\ q \in Int /\ q % 8 = 0 /\ q >= 16 /\ SizeOf(h, q) \in Int /\ SizeOf(h, q) % 8 = 0
      /\ next = q + SizeOf(h, q) /\ next <= h.brk
      /\ h.brk \in Int /\ asize + 8 <= SizeOf(h, q) /\ next % 8 = 0
  <2>1. /\ q \in Int /\ q % 8 = 0 /\ q >= 16 /\ SizeOf(h, q) \in Int /\ SizeOf(h, q) % 8 = 0
        /\ next = q + SizeOf(h, q) /\ next <= h.brk /\ h.brk \in Int /\ next % 8 = 0
    BY <1>1, <1>2, TagsAreWords DEF DSIZE
  <2>2. asize + 8 <= SizeOf(h, q)
    BY <2>1, EightsApart
  <2> QED BY <2>1, <2>2
<1>8. \A a \in Int : a \in DOMAIN h.mem <=> a % 4 = 0 /\ 0 <= a /\ a < h.brk
  BY <1>1, HeapHas
<1>9. q - WSIZE \in DOMAIN d.mem /\ q + asize - DSIZE \in DOMAIN d.mem
  <2>1. (q - 4) % 4 = 0
    BY <1>7, HeaderIsAligned
  <2>2. q + asize \in Int /\ (q + asize) % 8 = 0
    BY <1>7, EightsAdd
  <2>3. ((q + asize) - 8) % 4 = 0
    BY <2>2, FooterIsAligned
  <2>4. q + asize - 8 \in Int /\ (q + asize) - 8 = q + asize - 8
    BY <1>7
  <2> QED BY <1>5, <1>7, <1>8, <2>1, <2>3, <2>4 DEF WSIZE, DSIZE
<1>10. /\ Differ(d, t, TagWords(q, asize)) /\ t.lists = d.lists
       /\ t.mem[q - WSIZE] = PACK(asize, 1)
  BY <1>4, <1>5, <1>7, <1>9, PutBlockEffect
<1>11. /\ IsHeap(t) /\ t.brk = h.brk /\ DOMAIN t.mem = DOMAIN h.mem
       /\ \A a \in DOMAIN h.mem : a \notin TagWords(q, asize) => t.mem[a] = d.mem[a]
  BY <1>5, <1>10 DEF Differ
<1>12. \A a \in TagWords(q, asize) : a \in Int /\ q - 4 <= a /\ a < NEXT_BLKP(d, q) - 4
  BY <1>2, <1>6, <1>7 DEF TagWords, WSIZE, DSIZE
<1>13. \A p \in B : p # q => Kept(d, t, p)
  BY <1>2, <1>5, <1>6, <1>10, <1>12, OthersKept
<1>14. Linked(t, G)
  <2>1. \A p \in G : Kept(d, t, p)
    BY <1>2, <1>13
  <2>2. t.brk \in Int /\ t.brk >= d.brk
    BY <1>5, <1>7, <1>11
  <2> HIDE DEF G
  <2> QED BY <1>2, <1>3, <1>5, <1>6, <1>10, <2>1, <2>2, StillLinked
<1>15. t.mem[next - 12] = h.mem[next - 12]
  <2>1. next - 12 \in DOMAIN h.mem
    <3>1. next - 8 \in Int /\ (next - 8) % 8 = 0
      BY <1>7, FooterIsAligned
    <3>2. ((next - 8) - 4) % 4 = 0
      BY <3>1, HeaderIsAligned
    <3>3. next - 12 \in Int /\ (next - 8) - 4 = next - 12
      BY <1>7
    <3>4. 0 <= next - 12 /\ next - 12 < h.brk
      BY <1>7
    <3> QED BY <1>8, <3>2, <3>3, <3>4
  <2>2. next - 12 \notin TagWords(q, asize)
    BY <1>7 DEF TagWords, WSIZE, DSIZE
  <2>3. d.mem[next - 12] = h.mem[next - 12]
    <3>1. Kept(h, d, q)
      BY <1>2, <1>6
    <3>2. q - 4 <= next - 12 /\ next - 12 < q + SizeOf(h, q) - 4
      BY <1>7
    <3> QED BY <2>1, <3>1, <3>2 DEF Kept, WSIZE
  <2> QED BY <1>11, <2>1, <2>2, <2>3
<1>16. ASSUME NEW b \in B, b < q PROVE t.mem[b - 4] = h.mem[b - 4]
  <2>1. b \in Int /\ b - 4 \in DOMAIN h.mem
    BY <1>1, TagsAreWords
  <2>2. b - 4 \notin LinkWords(G)
    <3>1. SizeOf(d, b) = SizeOf(h, b)
      BY <1>6
    <3>2. CASE b \notin G
      <4>1. Kept(h, d, b) /\ SizeOf(h, b) \in Int /\ SizeOf(h, b) >= 8
        BY <1>1, <1>6, <3>2, TagsAreWords
      <4>2. ArePlaces(h, G \cup {b}) \/ b = DSIZE
        <5>1. b # DSIZE => G \cup {b} \in SUBSET (B \ {DSIZE})
          BY <1>2
        <5> HIDE DEF G
        <5> QED BY <1>1, <5>1, PlacesIn
      <4>3. \A p \in G : p \in Int /\ p >= 16
        BY <1>1, <1>2, TagsAreWords DEF DSIZE
      <4>4. b = DSIZE => b - 4 \notin LinkWords(G)
        BY <4>3 DEF LinkWords, NEXT_PTR, WSIZE, DSIZE
      <4>5. b # DSIZE => b - 4 \notin LinkWords(G \cup {b})
        BY <1>1, <4>2, PlacesAre DEF WSIZE
      <4> QED BY <4>4, <4>5 DEF LinkWords
    <3>3. CASE b \in G
      <4>1. ArePlaces(h, G)
        <5> HIDE DEF G
        <5> QED BY <1>1, <1>2, PlacesIn
      <4> HIDE DEF G
      <4> QED BY <1>1, <3>3, <4>1, PlacesAre DEF WSIZE
    <3> QED BY <3>2, <3>3
  <2>3. d.mem[b - 4] = h.mem[b - 4]
    BY <1>3, <2>1, <2>2 DEF Differ
  <2>4. b - 4 \notin TagWords(q, asize)
    BY <1>7, <1>16, <2>1 DEF TagWords, WSIZE, DSIZE
  <2> QED BY <1>11, <2>1, <2>3, <2>4
<1> QED BY <1>10, <1>11, <1>14, <1>15, <1>16 DEF PartTaken, WSIZE

\* What place makes of the rest, if it makes a block of it: a free block.
LEMMA RestIsFree ==
    ASSUME NEW h, NEW B, InOrder(h, B), NEW q \in Frees(h, B),
           NEW asize \in Int, asize % 8 = 0, asize >= 16,
           NEW t, PartTaken(h, B, t, q, asize),
           NEW rest, rest = q + asize, NEW rem \in Int, rem = SizeOf(h, q) - asize, rem >= 16,
           NEW k, k = insert_node(PutBlock(t, rest, rem, 0), rest, rem)
    PROVE  /\ Bounded(k) /\ k.brk = h.brk /\ DOMAIN k.mem = DOMAIN h.mem
           /\ IsFree(k, rest) /\ rest - 4 \in DOMAIN k.mem /\ rest \in Int /\ rest >= 16
<1> DEFINE G == Frees(h, B) \ {q}
           next == NEXT_BLKP(h, q)
           f == PutBlock(t, rest, rem, 0)
<1>1. IsHeap(h) /\ Tiles(h, B)
  BY DEF InOrder
<1>2. q \in B \ {DSIZE} /\ G \in SUBSET (B \ {DSIZE}) /\ q \notin G
  BY <1>1, FreesAre DEF Frees
<1>3. /\ IsHeap(t) /\ t.brk = h.brk /\ DOMAIN t.mem = DOMAIN h.mem /\ Linked(t, G)
  BY DEF PartTaken
<1>4. /\ q \in Int /\ q % 8 = 0 /\ q >= 16 /\ SizeOf(h, q) \in Int /\ SizeOf(h, q) % 8 = 0
      /\ next = q + SizeOf(h, q) /\ next % 8 = 0 /\ next <= h.brk /\ h.brk \in Int
  BY <1>1, <1>2, TagsAreWords DEF DSIZE
<1>5. rest \in Int /\ rest % 8 = 0 /\ q + 16 <= rest /\ rest + rem = next
  BY <1>4, EightsAdd
<1>6. \A a \in Int : a \in DOMAIN h.mem <=> a % 4 = 0 /\ 0 <= a /\ a < h.brk
  BY <1>1, HeapHas
<1>7. rest - WSIZE \in DOMAIN t.mem /\ rest + rem - DSIZE \in DOMAIN t.mem
  <2>1. (rest - 4) % 4 = 0 /\ (next - 8) % 4 = 0
    BY <1>4, <1>5, HeaderIsAligned, FooterIsAligned
  <2>2. rest + rem - DSIZE = next - 8
    BY <1>5 DEF DSIZE
  <2> QED BY <1>3, <1>4, <1>5, <1>6, <2>1, <2>2 DEF WSIZE
<1>8. /\ Differ(t, f, TagWords(rest, rem)) /\ f.lists = t.lists
      /\ f.mem[rest - WSIZE] = PACK(rem, 0)
  BY <1>3, <1>5, <1>7, PutBlockEffect
<1>9. k = insert_node(f, rest, rem)
  OBVIOUS
<1> HIDE DEF f
<1>10. /\ IsHeap(f) /\ f.brk = h.brk /\ DOMAIN f.mem = DOMAIN h.mem
       /\ \A a \in DOMAIN h.mem : a \notin TagWords(rest, rem) => f.mem[a] = t.mem[a]
  BY <1>3, <1>8 DEF Differ
<1>11. TagWords(rest, rem) = {rest - 4, next - 8}
  BY <1>5 DEF TagWords, WSIZE, DSIZE
<1>12. ASSUME NEW p \in G PROVE p \in Int /\ p % 8 = 0 /\ p >= 16 /\ p + 24 <= h.brk /\ (p + 24 <= q \/ next <= p)
  <2>1. /\ p \in Int /\ p % 8 = 0 /\ p >= 16 /\ SizeOf(h, p) \in Int /\ SizeOf(h, p) >= 24
        /\ NEXT_BLKP(h, p) = p + SizeOf(h, p) /\ NEXT_BLKP(h, p) <= h.brk
    BY <1>1, <1>2, TagsAreWords DEF DSIZE
  <2>2. NEXT_BLKP(h, p) <= q \/ next <= p
    BY <1>1, <1>2, <1>4, <2>1 DEF Tiles
  <2> QED BY <1>4, <2>1, <2>2
<1>13. ASSUME NEW p \in G
       PROVE  SizeOf(f, p) = SizeOf(t, p) /\ PREV(f, p) = PREV(t, p) /\ NEXT(f, p) = NEXT(t, p)
  <2>1. p - 4 \in DOMAIN h.mem /\ p \in DOMAIN h.mem /\ p + 4 \in DOMAIN h.mem
    <3>1. (p - 4) % 4 = 0 /\ p % 4 = 0 /\ (p + 4) % 4 = 0
      BY <1>12, HeaderIsAligned, FooterIsAligned
    <3> QED BY <1>4, <1>6, <1>12, <3>1
  <2>2. \A a \in {p - 4, p, p + 4} : a # rest - 4 /\ a # next - 8
    BY <1>4, <1>5, <1>12
  <2>3. \A a \in {p - 4, p, p + 4} : f.mem[a] = t.mem[a]
    BY <1>10, <1>11, <2>1, <2>2
  <2> QED BY <2>3 DEF SizeOf, PREV, NEXT, PREV_PTR, NEXT_PTR, WSIZE
<1>14. ArePlaces(f, G \cup {rest})
  <2>1. ArePlaces(t, G)
    BY <1>3 DEF Linked
  <2>2. \A p \in G : (p < rest => p + 16 <= rest) /\ (rest < p => rest + 16 <= p)
    BY <1>4, <1>5, <1>12
  <2>3. rest >= 8 /\ rest + 8 <= h.brk
    BY <1>4, <1>5
  <2> HIDE DEF G
  <2> QED BY <1>3, <1>5, <1>10, <2>1, <2>2, <2>3 DEF ArePlaces
<1>15. Linked(f, G)
  <2>1. ArePlaces(f, G)
    BY <1>14 DEF ArePlaces
  <2> HIDE DEF G
  <2> QED BY <1>3, <1>8, <1>13, <2>1, LinkedKept
<1>16. SizeOf(f, rest) = rem /\ IsFree(f, rest)
  <2>1. rem % 8 = 0
    BY <1>4, EightsAdd
  <2>2. f.mem[rest - 4] = rem
    BY <1>8 DEF PACK, WSIZE
  <2> QED BY <2>1, <2>2 DEF SizeOf, IsFree, GET_SIZE, WSIZE
<1>17. CASE rem <= 16
  <2>1. k = f
    BY <1>9, <1>17 DEF insert_node, DSIZE
  <2>2. Bounded(f)
    BY <1>4, <1>10, <1>15, LinkedIsBounded
  <2> QED BY <1>3, <1>4, <1>5, <1>7, <1>10, <1>16, <2>1, <2>2 DEF WSIZE
<1>18. CASE rem > 16
  <2>1. rest \notin G
    BY <1>4, <1>5, <1>12
  <2>2. Differ(f, k, LinkWords(G \cup {rest})) /\ Linked(k, G \cup {rest})
    <3> HIDE DEF G
    <3>1. /\ rem = SizeOf(f, rest) /\ rem > 16 /\ IsHeap(f) /\ Linked(f, G)
          /\ ArePlaces(f, G \cup {rest}) /\ rest \notin G
      BY <1>10, <1>14, <1>15, <1>16, <1>18, <2>1
    <3>2. /\ Differ(f, insert_node(f, rest, rem), LinkWords(G \cup {rest}))
          /\ Linked(insert_node(f, rest, rem), G \cup {rest})
      BY <3>1, InsertLinked
    <3> QED BY <1>9, <3>2
  <2>3. IsHeap(k) /\ k.brk = h.brk /\ DOMAIN k.mem = DOMAIN h.mem
    BY <1>10, <2>2 DEF Differ
  <2>4. Bounded(k)
    BY <1>4, <2>2, <2>3, LinkedIsBounded
  <2>5. rest - WSIZE \in DOMAIN f.mem /\ rest - WSIZE \notin LinkWords(G \cup {rest})
    BY <1>10, <1>14, PlacesAre
  <2>6. IsFree(k, rest)
    BY <1>16, <2>2, <2>5 DEF Differ, IsFree
  <2> QED BY <1>3, <1>4, <1>5, <1>7, <2>3, <2>4, <2>6 DEF WSIZE
<1> QED BY <1>17, <1>18

\* What place makes of a block that is too large, and the block it returns.
Misplaced(h, B, r, q, asize) ==
    /\ Bounded(r.heap) /\ r.heap.brk = h.brk /\ DOMAIN r.heap.mem = DOMAIN h.mem
    /\ r.bp \in Int /\ r.bp >= 16
    /\ \/ IsFree(r.heap, r.bp) /\ r.bp - 4 \in DOMAIN h.mem
       \/ r.bp = q /\ SizeOf(h, q) = asize + 8 /\ PartTaken(h, B, r.heap, q, asize)

\* place returns the rest of a block that is too large, which is free, or a block
\* whose end is not that of the one it had.
LEMMA PlacedWrongly ==
    ASSUME NEW h, NEW B, InOrder(h, B), NEW q \in Frees(h, B),
           NEW asize \in Int, asize % 8 = 0, asize >= 16, asize < SizeOf(h, q),
           NEW r, r = place(h, q, asize)
    PROVE  Misplaced(h, B, r, q, asize)
<1> DEFINE t == PutBlock(delete_node(h, q), q, asize, 1)
           rest == q + asize
           rem == SizeOf(h, q) - asize
           k == insert_node(PutBlock(t, rest, rem, 0), rest, rem)
<1>1. IsHeap(h) /\ Tiles(h, B)
  BY DEF InOrder
<1>2. q \in B \ {DSIZE}
  BY <1>1, FreesAre DEF Frees
<1>3. /\ q \in Int /\ q >= 16 /\ SizeOf(h, q) \in Int /\ SizeOf(h, q) % 8 = 0 /\ h.brk \in Int
      /\ h.brk > 0 /\ asize + 8 <= SizeOf(h, q)
  BY <1>1, <1>2, TagsAreWords, EightsApart DEF DSIZE
<1>4. rem \in Int /\ rem % 8 = 0 /\ rem >= 8
  BY <1>3, EightsAdd
<1>5. r = IF rem >= 16 THEN [heap |-> k, bp |-> rest] ELSE [heap |-> t, bp |-> q]
  BY DEF place, DSIZE
<1>6. PartTaken(h, B, t, q, asize)
  BY PartIsTaken
<1> HIDE DEF t
<1>7. CASE rem >= 16
  <2>1. rest = q + asize /\ rem = SizeOf(h, q) - asize /\ k = insert_node(PutBlock(t, rest, rem, 0), rest, rem)
    OBVIOUS
  <2> HIDE DEF rest, rem, k
  <2>2. /\ Bounded(k) /\ k.brk = h.brk /\ DOMAIN k.mem = DOMAIN h.mem
        /\ IsFree(k, rest) /\ rest - 4 \in DOMAIN k.mem /\ rest \in Int /\ rest >= 16
    BY <1>4, <1>6, <1>7, <2>1, RestIsFree
  <2>3. r.heap = k /\ r.bp = rest
    BY <1>5, <1>7
  <2> QED BY <2>2, <2>3 DEF Misplaced
<1>8. CASE ~(rem >= 16)
  <2>1. r.heap = t /\ r.bp = q
    BY <1>5, <1>8
  <2>2. 8 <= rem /\ SizeOf(h, q) = asize + 8
    BY <1>3, <1>4, <1>8
  <2>3. IsHeap(t) /\ t.brk = h.brk /\ DOMAIN t.mem = DOMAIN h.mem /\ Linked(t, Frees(h, B) \ {q})
    BY <1>6 DEF PartTaken
  <2>4. Bounded(t)
    BY <1>3, <2>3, LinkedIsBounded
  <2> QED BY <1>3, <1>6, <2>1, <2>2, <2>3, <2>4 DEF Misplaced
<1> QED BY <1>7, <1>8

----------------------------------------------------------------------------
\* What can be handed back to the client

\* The allocated blocks that a walk meets are those of the tiling.
LEMMA AllocatedAre ==
    ASSUME NEW h, IsHeap(h), NEW B, Tiles(h, B)
    PROVE  Blocks(h) = B /\ FreeBlocks(h) = Frees(h, B) /\ Allocated(h) = Taken(h, B)
<1>1. Blocks(h) = B
  BY BlocksAre
<1> QED BY <1>1 DEF FreeBlocks, Allocated, Frees, Taken

\* A heap in order in which the client owns its regions is sound.
LEMMA InOrderIsSound ==
    ASSUME NEW h, NEW B, InOrder(h, B), NEW regions, Owned(h, B, regions),
           NEW bp, Allocated(heap) \ {bp} \subseteq Taken(h, B)
    PROVE  Sound(h, regions, bp)
<1>1. IsHeap(h) /\ Tiles(h, B)
  BY DEF InOrder
<1>2. Blocks(h) = B /\ Allocated(h) = Taken(h, B)
  BY <1>1, AllocatedAre
<1>3. Tiled(h)
  <2>1. \E b \in B : NEXT_BLKP(h, b) = h.brk
    <3>1. h.brk # DSIZE
      BY <1>1, FreesAre
    <3> QED BY <1>1, <3>1 DEF Tiles
  <2>2. h.mem[h.brk - WSIZE] = PACK(0, 1)
    BY <1>1 DEF Tiles
  <2>3. \A b \in B : h.mem[FTRP(h, b)] = h.mem[b - WSIZE]
    BY <1>1 DEF Tiles, Tagged
  <2> QED BY <1>2, <2>1, <2>2, <2>3 DEF Tiled
<1> QED BY <1>2, <1>3 DEF Sound, Owned, DSIZE

\* The heap g is h with some words behind bp overwritten by what are no tags.
Scribbled(h, g, bp) ==
    /\ IsHeap(g) /\ g.brk = h.brk /\ g.lists = h.lists
    /\ \A a \in DOMAIN h.mem : g.mem[a] = h.mem[a] \/ (bp <= a /\ g.mem[a] < 0)

\* What place makes of a block that is too large is not sound, whatever the client
\* writes into it.
LEMMA MisplacedIsUnsound ==
    ASSUME NEW h, NEW B, InOrder(h, B), NEW q \in Frees(h, B),
           h.mem[NEXT_BLKP(h, q) - 12] = Junk,
           NEW asize \in Int, asize % 8 = 0, asize >= 16,
           NEW r, Misplaced(h, B, r, q, asize),
           NEW g, Scribbled(r.heap, g, r.bp),
           NEW regions, r.bp \in DOMAIN regions
    PROVE  ~Sound(g, regions, NULL)
<1>1. IsHeap(h) /\ Tiles(h, B)
  BY DEF InOrder
<1>2. q \in B \ {DSIZE}
  BY <1>1, FreesAre DEF Frees
<1>3. IsHeap(g) /\ g.brk = h.brk /\ r.bp \in Int /\ DOMAIN g.mem = DOMAIN h.mem
  <2>1. IsHeap(g) /\ g.brk = h.brk /\ r.bp \in Int
    BY DEF Misplaced, Scribbled
  <2> QED BY <1>1, <2>1, HeapHas
<1>4. \A a \in DOMAIN h.mem : g.mem[a] = r.heap.mem[a] \/ (r.bp <= a /\ g.mem[a] < 0)
  BY DEF Scribbled, Misplaced
<1>5. CASE IsFree(r.heap, r.bp) /\ r.bp - 4 \in DOMAIN h.mem
  <2>1. g.mem[r.bp - 4] = r.heap.mem[r.bp - 4]
    <3>1. ~(r.bp <= r.bp - 4)
      BY <1>3
    <3> QED BY <1>5, <1>4, <3>1
  <2>2. IsFree(g, r.bp)
    BY <1>5, <2>1 DEF IsFree, WSIZE
  <2>3. r.bp \notin Allocated(g)
    BY <2>2 DEF Allocated, FreeBlocks
  <2> QED BY <2>3 DEF Sound
<1>6. CASE r.bp = q /\ SizeOf(h, q) = asize + 8 /\ PartTaken(h, B, r.heap, q, asize)
  <2> DEFINE end == q + asize
             S == {b \in B : b <= q} \cup {end}
  <2>1. /\ q \in Int /\ NEXT_BLKP(h, q) = q + SizeOf(h, q) /\ NEXT_BLKP(h, q) <= h.brk
        /\ NEXT_BLKP(h, q) \in Int /\ q >= 16 /\ h.brk \in Int
    BY <1>1, <1>2, TagsAreWords DEF DSIZE
  <2>2. end \in Int /\ end + 8 = NEXT_BLKP(h, q) /\ end > q /\ end < h.brk
    BY <1>6, <2>1
  <2>3. EndsAt(g, end)
    <3>1. CASE end - 4 \notin DOMAIN g.mem
      BY <3>1 DEF EndsAt, WSIZE
    <3>2. CASE end - 4 \in DOMAIN g.mem
      <4>1. end - 4 = NEXT_BLKP(h, q) - 12
        BY <2>1, <2>2
      <4>2. Junk < 0
        BY SegregatedAssumption DEF Junk, Data
      <4>3. r.heap.mem[end - 4] < 0
        BY <1>6, <4>1, <4>2 DEF PartTaken
      <4>4. g.mem[end - 4] < 0
        BY <1>3, <1>4, <3>2, <4>3
      <4>5. g.mem[end - 4] \in Int
        BY <1>3, <3>2, HeapHas
      <4>6. GET_SIZE(g.mem[end - 4]) \in Int /\ GET_SIZE(g.mem[end - 4]) <= g.mem[end - 4]
        BY <4>5, SizesAreEights
      <4>7. SizeOf(g, end) <= 0
        BY <4>4, <4>5, <4>6 DEF SizeOf, WSIZE
      <4> QED BY <4>7 DEF EndsAt
    <3> QED BY <3>1, <3>2
  <2>4. ASSUME NEW b \in B, b < q PROVE NEXT_BLKP(g, b) \in B /\ NEXT_BLKP(g, b) <= q
    <3>1. /\ b \in Int /\ b - 4 \in DOMAIN h.mem /\ NEXT_BLKP(h, b) \in Int /\ NEXT_BLKP(h, b) <= q
          /\ NEXT_BLKP(h, b) \in B \cup {h.brk}
      BY <1>1, <1>2, <2>4, TagsAreWords DEF Tiles, Tagged
    <3>2. r.heap.mem[b - 4] = h.mem[b - 4]
      BY <1>6, <2>4 DEF PartTaken
    <3>3. ~(r.bp <= b - 4)
      BY <1>6, <2>1, <2>4, <3>1
    <3>4. g.mem[b - 4] = h.mem[b - 4]
      BY <1>4, <3>1, <3>2, <3>3
    <3>5. NEXT_BLKP(g, b) = NEXT_BLKP(h, b)
      BY <3>4 DEF NEXT_BLKP, SizeOf, WSIZE
    <3> QED BY <2>1, <2>2, <3>1, <3>5
  <2>5. NEXT_BLKP(g, q) = end
    <3>1. q - 4 \in DOMAIN h.mem
      BY <1>1, <1>2, TagsAreWords
    <3>2. g.mem[q - 4] = asize + 1
      BY <1>6, <1>4, <2>1, <3>1 DEF PartTaken, PACK
    <3>3. GET_SIZE(asize + 1) = asize
      BY DEF GET_SIZE
    <3> QED BY <3>2, <3>3 DEF NEXT_BLKP, SizeOf, WSIZE
  <2>6. Blocks(g) \subseteq {x \in S : ~EndsAt(g, x)}
    <3>1. S \in SUBSET Int
      BY <1>1, <2>2, TagsAreWords
    <3>2. DSIZE \in S
      BY <1>1, <2>1 DEF Tiles, DSIZE
    <3>3. ASSUME NEW x \in S, ~EndsAt(g, x) PROVE NEXT_BLKP(g, x) \in S
      <4>1. x \in B /\ (x < q \/ x = q)
        BY <2>1, <2>3, <3>1, <3>3
      <4> QED BY <2>4, <2>5, <4>1
    <3> HIDE DEF S
    <3> QED BY <1>3, <3>1, <3>2, <3>3, BlocksWithin
  <2>7. ASSUME NEW b \in Blocks(g) PROVE NEXT_BLKP(g, b) # g.brk
    <3>1. b \in B /\ (b < q \/ b = q)
      <4>1. b \in S /\ b # end
        BY <2>3, <2>6
      <4>2. b \in B /\ b \in Int
        BY <1>1, <4>1, TagsAreWords
      <4> QED BY <2>1, <4>1, <4>2
    <3> QED BY <1>1, <1>3, <2>1, <2>2, <2>4, <2>5, <3>1, TagsAreWords
  <2> QED BY <2>7 DEF Sound, Tiled
<1> QED BY <1>5, <1>6 DEF Misplaced

----------------------------------------------------------------------------
\* mm_malloc

\* The free block q of the heap x is one that mm_malloc may take, in h or in an
\* extension of it.
Source(h, B, x, A, q) ==
    /\ InOrder(x, A) /\ Apart(x, A, NULL) /\ q \in Frees(x, A)
    /\ x.mem[NEXT_BLKP(x, q) - 12] = Junk
    /\ Taken(x, A) = Taken(h, B) /\ AllHold(h, x, Taken(h, B))
    /\ DOMAIN h.mem \subseteq DOMAIN x.mem /\ h.brk <= x.brk /\ x.brk <= MaxHeap

\* An extension has a block to take.
LEMMA ExtensionIsSource ==
    ASSUME NEW h, NEW B, InOrder(h, B), NEW size \in Int, NEW r, Extension(h, B, size, r),
           size >= 0, h.brk + size <= MaxHeap
    PROVE  /\ Source(h, B, r.heap, B \cup {r.bp}, r.bp) /\ r.bp # NULL
           /\ SizeOf(r.heap, r.bp) >= size
<1> DEFINE A == B \cup {r.bp}
           x == r.heap
<1>1. IsHeap(h) /\ Tiles(h, B) /\ IsHeap(x) /\ Tiles(x, A)
  BY DEF InOrder, Extension
<1>2. r.bp \in Frees(x, A)
  BY DEF Extension, Frees
<1>3. r.bp # NULL
  BY <1>1, <1>2, FreesAre
<1>4. x.mem[NEXT_BLKP(x, r.bp) - 12] = Junk
  BY DEF Extension
<1>5. AllHold(h, x, Taken(h, B))
  <2>1. \A b \in Taken(h, B) : b \in B /\ Kept(h, x, b)
    BY DEF Extension, Taken
  <2> QED BY <1>1, <2>1, KeptHolds DEF AllHold
<1>6. h.brk <= x.brk /\ x.brk <= MaxHeap
  <2>1. h.brk \in Int /\ x.brk = h.brk + size
    BY <1>1, HeapHas DEF Extension
  <2> QED BY <2>1
<1> QED BY <1>2, <1>3, <1>4, <1>5, <1>6 DEF Extension, Source

\* A free block of a heap between two calls can be taken.
LEMMA FitIsSource ==
    ASSUME NEW h, NEW B, Ready(h, B), h.brk <= MaxHeap, NEW q \in Frees(h, B)
    PROVE  Source(h, B, h, B, q) /\ q # NULL
<1>1. InOrder(h, B) /\ IsHeap(h) /\ Tiles(h, B)
  BY DEF Ready, InOrder
<1>2. AllHold(h, h, Taken(h, B))
  <2>1. \A b \in Taken(h, B) : SizeOf(h, b) \in Int
    BY <1>1, TagsAreWords DEF Taken
  <2> QED BY <2>1 DEF AllHold, Holds
<1>3. h.brk \in Int
  BY <1>1, HeapHas
<1>4. q # NULL
  BY <1>1, FreesAre DEF Frees
<1> QED BY <1>2, <1>3, <1>4 DEF Source, Ready

\* The block that mm_malloc would take is not as large as it should be.
MisfitIn(h, asize) ==
    LET fit == find_fit(h, asize)
        grown == extend_heap(h, Larger(asize, CHUNKSIZE) \div WSIZE)
    IN  IF fit # NULL THEN SizeOf(h, fit) # asize
        ELSE grown.bp # NULL /\ SizeOf(grown.heap, grown.bp) # asize

\* Where mm_malloc takes the block from: a fit, or an extension when there is none.
LEMMA MallocTakes ==
    ASSUME NEW h, NEW B, Ready(h, B), h.brk <= MaxHeap, NEW size \in Nat \ {0},
           NEW asize \in Int, asize = AdjustedSize(size), asize % 8 = 0, asize >= 16,
           NEW r, r = mm_malloc(h, size)
    PROVE  \/ r = Failed(h) /\ ~MisfitIn(h, asize)
           \/ \E x, A, q : /\ Source(h, B, x, A, q) /\ asize <= SizeOf(x, q)
                           /\ r = place(x, q, asize)
                           /\ MisfitIn(h, asize) <=> SizeOf(x, q) # asize
                           /\ x = h \/ \A p \in Frees(h, B) : SizeOf(h, p) < asize
<1> DEFINE fit == find_fit(h, asize)
           large == Larger(asize, CHUNKSIZE)
           grown == extend_heap(h, large \div WSIZE)
           F == Frees(h, B)
<1>1. InOrder(h, B) /\ Apart(h, B, NULL) /\ IsHeap(h) /\ Tiles(h, B) /\ Linked(h, F)
  BY DEF Ready, InOrder
<1>2. asize \in Int /\ asize % 8 = 0 /\ asize >= 16
  OBVIOUS
<1>3. large \in Int /\ large % 8 = 0 /\ large >= 24 /\ large >= asize
  <2>1. CHUNKSIZE \in Int /\ CHUNKSIZE % 8 = 0 /\ CHUNKSIZE >= 24
    BY SegregatedAssumption
  <2> QED BY <1>2, <2>1 DEF Larger
<1>4. r = IF fit # NULL THEN place(h, fit, asize)
          ELSE IF grown.bp = NULL THEN Failed(h) ELSE place(grown.heap, grown.bp, asize)
  BY DEF mm_malloc
<1>5. MisfitIn(h, asize) = IF fit # NULL THEN SizeOf(h, fit) # asize
                           ELSE grown.bp # NULL /\ SizeOf(grown.heap, grown.bp) # asize
  BY DEF MisfitIn
<1>6. \/ fit \in F /\ asize <= SizeOf(h, fit)
      \/ fit = NULL /\ \A p \in F : SizeOf(h, p) < asize
  <2> HIDE DEF F
  <2> QED BY <1>1, <1>2, FindFit
<1>7. \/ h.brk + large > MaxHeap /\ grown = Failed(h)
      \/ h.brk + large <= MaxHeap /\ Extension(h, B, large, grown)
  <2>1. grown = extend_heap(h, large \div WSIZE)
    OBVIOUS
  <2> HIDE DEF grown, large
  <2> QED BY <1>1, <1>3, <2>1, ExtendedFits
<1> HIDE DEF fit, large, grown
<1>8. CASE fit \in F /\ asize <= SizeOf(h, fit)
  <2>1. Source(h, B, h, B, fit) /\ fit # NULL
    BY <1>8, FitIsSource
  <2>2. r = place(h, fit, asize) /\ (MisfitIn(h, asize) <=> SizeOf(h, fit) # asize)
    BY <1>4, <1>5, <2>1
  <2> QED BY <1>8, <2>1, <2>2
<1>9. CASE fit = NULL /\ \A p \in F : SizeOf(h, p) < asize
  <2>1. CASE grown = Failed(h)
    <3>1. grown.bp = NULL
      BY <2>1 DEF Failed
    <3> QED BY <1>4, <1>5, <1>9, <3>1
  <2>2. CASE h.brk + large <= MaxHeap /\ Extension(h, B, large, grown)
    <3> DEFINE x == grown.heap
               A == B \cup {grown.bp}
               q == grown.bp
    <3>1. Source(h, B, x, A, q) /\ q # NULL /\ SizeOf(x, q) >= large
      <4>1. /\ InOrder(h, B) /\ large \in Int /\ large >= 0 /\ h.brk + large <= MaxHeap
            /\ Extension(h, B, large, grown)
        BY <1>1, <1>3, <2>2
      <4> QED BY <4>1, ExtensionIsSource
    <3>2. SizeOf(x, q) \in Int
      <4>1. IsHeap(x) /\ Tiles(x, A) /\ q \in A
        BY <3>1 DEF Source, InOrder
      <4> QED BY <4>1, TagsAreWords
    <3>3. asize <= SizeOf(x, q)
      BY <1>2, <1>3, <3>1, <3>2
    <3>4. r = place(x, q, asize) /\ (MisfitIn(h, asize) <=> SizeOf(x, q) # asize)
      BY <1>4, <1>5, <1>9, <3>1
    <3> QED BY <1>9, <3>1, <3>3, <3>4
  <2> QED BY <1>7, <2>1, <2>2
<1> QED BY <1>6, <1>8, <1>9

\* What mm_malloc promises: a new block with room for asize bytes, and nothing that
\* the client has is lost.
Mallocated(h, B, g, C, bp, asize) ==
    /\ InOrder(g, C) /\ Apart(g, C, NULL)
    /\ bp \notin Taken(h, B) /\ Taken(g, C) = Taken(h, B) \cup {bp} /\ SizeOf(g, bp) = asize
    /\ AllHold(h, g, Taken(h, B))
    /\ DOMAIN h.mem \subseteq DOMAIN g.mem /\ h.brk <= g.brk /\ g.brk <= MaxHeap

\* A block of the size that is needed is placed rightly.
LEMMA PlacedRightly ==
    ASSUME NEW h, NEW B, InOrder(h, B), NEW x, NEW A, NEW q, Source(h, B, x, A, q),
           NEW asize \in Int, asize = SizeOf(x, q), NEW r, r = place(x, q, asize)
    PROVE  r.bp = q /\ r.heap.brk = x.brk /\ Mallocated(h, B, r.heap, A, q, asize)
<1> DEFINE g == PutBlock(delete_node(x, q), q, asize, 1)
<1>1. /\ InOrder(x, A) /\ Apart(x, A, NULL) /\ q \in Frees(x, A)
      /\ IsHeap(x) /\ Tiles(x, A) /\ IsHeap(h) /\ Tiles(h, B)
  BY DEF Source, InOrder
<1>2. q \in A \ {DSIZE} /\ IsFree(x, q) /\ q \notin Taken(x, A)
  BY <1>1, FreesAre DEF Frees, Taken
<1>3. r.heap = g /\ r.bp = q
  BY DEF place, DSIZE
<1>4. q + asize = NEXT_BLKP(x, q)
  BY DEF NEXT_BLKP
<1>5. A = {b \in A : b <= q \/ q + asize <= b}
  <2>1. \A b \in A : b \in Int /\ (q < b => NEXT_BLKP(x, q) <= b)
    BY <1>1, <1>2, TagsAreWords DEF Tiles
  <2> QED BY <1>2, <1>4, <2>1
<1> DEFINE C == {b \in A : b <= q \/ q + asize <= b}
<1>6. TakesOver(x, A, g, C, q, asize)
  <2>1. g = PutBlock(delete_node(x, q), q, asize, 1) /\ C = {b \in A : b <= q \/ q + asize <= b}
    OBVIOUS
  <2> HIDE DEF g, C
  <2> QED BY <1>1, <1>2, <1>4, <2>1, TakesNext
<1>7. C = A
  BY <1>5
<1> HIDE DEF g, C
<1>8. AllHold(h, g, Taken(h, B))
  <2> SUFFICES ASSUME NEW b \in Taken(h, B) PROVE Holds(h, g, b)
    BY DEF AllHold
  <2>1. b \in Taken(x, A) /\ Holds(h, x, b) /\ DOMAIN h.mem \subseteq DOMAIN x.mem
    BY DEF Source, AllHold
  <2>2. Holds(x, g, b)
    BY <1>6, <2>1 DEF TakesOver, AllHold
  <2>3. b \in B \cap A
    BY <2>1 DEF Taken
  <2>4. SizeOf(g, b) \in Int
    BY <1>6, <1>7, <2>3, TagsAreWords DEF TakesOver, InOrder
  <2> QED BY <1>1, <2>1, <2>2, <2>3, <2>4, HoldsTwice
<1> QED BY <1>2, <1>3, <1>6, <1>7, <1>8 DEF TakesOver, Source, Mallocated

----------------------------------------------------------------------------
\* mm_realloc in place

\* What mm_realloc promises when it takes the next block: bp has room for newsize
\* bytes, and nothing that the client has is lost.
Regrown(h, B, g, C, bp, newsize) ==
    /\ InOrder(g, C) /\ Apart(g, C, NULL)
    /\ Taken(g, C) = Taken(h, B) /\ SizeOf(g, bp) >= newsize
    /\ AllHold(h, g, Taken(h, B))
    /\ DOMAIN h.mem \subseteq DOMAIN g.mem /\ h.brk <= g.brk /\ g.brk <= MaxHeap

\* The next block is not the last one.
NotLast(h, bp) ==
    /\ NEXT_BLKP(h, bp) # h.brk
    /\ NEXT_BLKP(h, NEXT_BLKP(h, bp)) # h.brk

\* The heap has grown elsewhere, and the block of the client is written over another
\* allocated one, which the walk over the blocks does not meet any more.
Covered(h, B, g) ==
    /\ Bounded(g) /\ h.brk < g.brk /\ g.brk <= MaxHeap
    /\ \E c \in Taken(h, B) : c \notin Blocks(g)

\* The next block is free and large enough.
LEMMA GrownWithin ==
    ASSUME NEW h, NEW B, Ready(h, B), h.brk <= MaxHeap, NEW bp \in Taken(h, B),
           NEW next, next = NEXT_BLKP(h, bp), next \in Frees(h, B),
           NEW have, have = SizeOf(h, bp) + SizeOf(h, next), NEW newsize \in Int, have >= newsize,
           NEW g, g = PutBlock(delete_node(h, next), bp, have, 1)
    PROVE  (\E C : Regrown(h, B, g, C, bp, newsize)) /\ g.brk = h.brk
<1> DEFINE C == {b \in B : b <= bp \/ bp + have <= b}
<1>1. InOrder(h, B) /\ Apart(h, B, NULL) /\ IsHeap(h) /\ Tiles(h, B)
  BY DEF Ready, InOrder
<1>2. bp \in B \ {DSIZE} /\ ~IsFree(h, bp) /\ next \in B
  BY DEF Taken, Frees
<1>3. /\ bp \in Int /\ SizeOf(h, bp) \in Int /\ SizeOf(h, next) \in Int /\ h.brk \in Int
      /\ next = bp + SizeOf(h, bp) /\ NEXT_BLKP(h, next) = next + SizeOf(h, next)
  BY <1>1, <1>2, TagsAreWords
<1>4. have \in Int /\ bp + have = NEXT_BLKP(h, next)
  BY <1>3
<1>5. TakesOver(h, B, g, C, bp, have)
  <2>1. C = {b \in B : b <= bp \/ bp + have <= b}
    OBVIOUS
  <2> HIDE DEF C
  <2> QED BY <1>1, <1>2, <1>4, <2>1, TakesNext
<1> HIDE DEF C
<1>6. Regrown(h, B, g, C, bp, newsize)
  <2>1. Taken(g, C) = Taken(h, B)
    BY <1>5 DEF TakesOver
  <2> QED BY <1>3, <1>5, <2>1 DEF TakesOver, Regrown
<1> QED BY <1>5, <1>6 DEF TakesOver

\* The heap is extended next to the block, or behind the free block next to it.
LEMMA GrownAtEnd ==
    ASSUME NEW h, NEW B, Ready(h, B), NEW bp \in Taken(h, B),
           NEW next, next = NEXT_BLKP(h, bp),
           next = h.brk \/ (next \in Frees(h, B) /\ NEXT_BLKP(h, next) = h.brk),
           NEW have, have = SizeOf(h, bp) + SizeOf(h, next), NEW newsize \in Int,
           NEW size \in Int, size >= 24, have + size >= newsize, h.brk + size <= MaxHeap,
           NEW e, Extension(h, B, size, e),
           NEW g, g = PutBlock(delete_node(e.heap, next), bp, have + size, 1)
    PROVE  \E C : Regrown(h, B, g, C, bp, newsize)
<1> DEFINE x == e.heap
           A == B \cup {next}
           all == have + size
           C == {b \in A : b <= bp \/ bp + all <= b}
<1>1. InOrder(h, B) /\ Apart(h, B, NULL) /\ IsHeap(h) /\ Tiles(h, B)
  BY DEF Ready, InOrder
<1>2. bp \in B \ {DSIZE} /\ ~IsFree(h, bp)
  BY DEF Taken
<1>3. /\ bp \in Int /\ SizeOf(h, bp) \in Int /\ h.brk \in Int /\ h.brk >= 16 /\ bp < next
      /\ next = bp + SizeOf(h, bp) /\ NEXT_BLKP(h, next) = next + SizeOf(h, next)
  BY <1>1, <1>2, TagsAreWords DEF NEXT_BLKP
<1>4. have \in Int /\ bp + have = h.brk
  <2>1. CASE next = h.brk
    <3>1. SizeOf(h, next) = 0
      BY <1>1, <2>1, FreesAre
    <3> QED BY <1>3, <2>1, <3>1
  <2>2. CASE next \in Frees(h, B) /\ NEXT_BLKP(h, next) = h.brk
    <3>1. SizeOf(h, next) \in Int
      BY <1>1, <2>2, TagsAreWords DEF Frees
    <3> QED BY <1>3, <2>2, <3>1
  <2> QED BY <2>1, <2>2
<1>5. e.bp = next
  <2>1. \A b \in B : NEXT_BLKP(h, b) = h.brk => b = PREV_BLKP(h, h.brk)
    BY <1>1, <1>3, PreviousBlock DEF DSIZE
  <2>2. CASE next = h.brk
    <3>1. PREV_BLKP(h, h.brk) = bp
      BY <1>2, <2>1, <2>2
    <3> QED BY <1>2, <2>2, <3>1 DEF Extension
  <2>3. CASE next \in Frees(h, B) /\ NEXT_BLKP(h, next) = h.brk
    <3>1. PREV_BLKP(h, h.brk) = next
      BY <2>1, <2>3 DEF Frees
    <3> QED BY <2>3, <3>1 DEF Extension, Frees
  <2> QED BY <2>2, <2>3
<1>6. /\ InOrder(x, A) /\ Apart(x, A, NULL) /\ x.brk = h.brk + size
      /\ IsFree(x, next) /\ NEXT_BLKP(x, next) = x.brk
      /\ Taken(x, A) = Taken(h, B)
      /\ NEXT_BLKP(x, bp) = next /\ ~IsFree(x, bp)
  <2>1. /\ InOrder(x, A) /\ Apart(x, A, NULL) /\ x.brk = h.brk + size
        /\ IsFree(x, next) /\ NEXT_BLKP(x, next) = x.brk
        /\ Taken(x, A) = Taken(h, B)
    BY <1>5 DEF Extension
  <2>2. \A b \in B : b # next => /\ NEXT_BLKP(x, b) = NEXT_BLKP(h, b)
                                 /\ IsFree(x, b) <=> IsFree(h, b)
    BY <1>5 DEF Extension
  <2>3. bp \in B /\ bp # next
    BY <1>2, <1>3
  <2> HIDE DEF x, A
  <2> QED BY <1>2, <2>1, <2>2, <2>3
<1>7. Source(h, B, x, A, next)
  BY <1>1, <1>5, ExtensionIsSource
<1>8. g = PutBlock(delete_node(x, next), bp, all, 1) /\ C = {b \in A : b <= bp \/ bp + all <= b}
  OBVIOUS
<1>9. all \in Int /\ bp + all = NEXT_BLKP(x, next) /\ next \in Frees(x, A) /\ bp \in A \ {DSIZE}
  BY <1>2, <1>3, <1>4, <1>6 DEF Frees
<1> HIDE DEF x, A, all, C
<1>10. TakesOver(x, A, g, C, bp, all)
  BY <1>6, <1>8, <1>9, TakesNext
<1>11. AllHold(h, g, Taken(h, B))
  <2> SUFFICES ASSUME NEW b \in Taken(h, B) PROVE Holds(h, g, b)
    BY DEF AllHold
  <2>1. b \in Taken(x, A) /\ Holds(h, x, b) /\ DOMAIN h.mem \subseteq DOMAIN x.mem
    BY <1>7 DEF Source, AllHold
  <2>2. Holds(x, g, b)
    BY <1>10, <2>1 DEF TakesOver, AllHold
  <2>3. b \in B \cap A
    BY <2>1 DEF Taken
  <2>4. SizeOf(g, b) \in Int
    <3>1. b \in C /\ IsHeap(g) /\ Tiles(g, C)
      BY <1>10, <2>1 DEF TakesOver, InOrder, Taken
    <3> QED BY <3>1, TagsAreWords
  <2>5. IsHeap(x) /\ Tiles(x, A)
    BY <1>6 DEF InOrder
  <2> QED BY <1>1, <2>1, <2>2, <2>3, <2>4, <2>5, HoldsTwice
<1>12. Taken(g, C) = Taken(h, B)
  BY <1>6, <1>10 DEF TakesOver
<1>13. /\ InOrder(g, C) /\ Apart(g, C, NULL) /\ SizeOf(g, bp) >= newsize
       /\ DOMAIN g.mem = DOMAIN x.mem /\ g.brk = x.brk
  BY <1>4, <1>10 DEF TakesOver, all
<1>14. DOMAIN h.mem \subseteq DOMAIN x.mem /\ h.brk <= x.brk /\ x.brk <= MaxHeap
  BY <1>7 DEF Source
<1> QED BY <1>11, <1>12, <1>13, <1>14 DEF Regrown

\* The heap is extended elsewhere.
LEMMA GrownOver ==
    ASSUME NEW h, NEW B, Ready(h, B), NEW bp \in Taken(h, B),
           NEW next, next = NEXT_BLKP(h, bp), next \in Frees(h, B), NEXT_BLKP(h, next) # h.brk,
           NEW have, have = SizeOf(h, bp) + SizeOf(h, next),
           NEW size \in Int, size % 8 = 0, size >= 24, h.brk + size <= MaxHeap,
           NEW e, Extension(h, B, size, e),
           NEW g, g = PutBlock(delete_node(e.heap, next), bp, have + size, 1)
    PROVE  Covered(h, B, g)
<1> DEFINE x == e.heap
           A == B \cup {e.bp}
           F == Frees(x, A)
           G == F \ {next}
           d == delete_node(x, next)
           all == have + size
           end == bp + all
           nn == NEXT_BLKP(h, next)
<1>1. InOrder(h, B) /\ Apart(h, B, NULL) /\ IsHeap(h) /\ Tiles(h, B)
  BY DEF Ready, InOrder
<1>2. bp \in B \ {DSIZE} /\ ~IsFree(h, bp) /\ next \in B /\ IsFree(h, next)
  BY DEF Taken, Frees
<1>3. /\ bp \in Int /\ bp >= 16 /\ SizeOf(h, bp) \in Int /\ h.brk \in Int /\ h.brk % 8 = 0
      /\ bp < next /\ next < nn /\ nn \in Int /\ nn % 8 = 0 /\ nn <= h.brk /\ next \in Int
      /\ next = bp + SizeOf(h, bp) /\ nn = next + SizeOf(h, next) /\ SizeOf(h, next) \in Int
  BY <1>1, <1>2, TagsAreWords DEF DSIZE
<1>4. have \in Int /\ bp + have = nn /\ end = nn + size /\ all \in Int
  BY <1>3
<1>5. nn \in Taken(h, B)
  <2>1. nn \in B
    BY <1>1, <1>2 DEF Tiles, Tagged
  <2>2. ~IsFree(h, nn)
    <3>1. IsFree(h, nn) => NULL \in {next, nn}
      BY <1>1, <1>2, <2>1 DEF Apart
    <3> QED BY <1>1, <1>2, <2>1, <3>1, FreesAre
  <2> QED BY <1>3, <2>1, <2>2 DEF Taken, DSIZE
<1>6. next # e.bp /\ bp # e.bp
  <2>1. PREV_BLKP(h, h.brk) \in B /\ NEXT_BLKP(h, PREV_BLKP(h, h.brk)) = h.brk
    BY <1>1, <1>3, PreviousBlock DEF DSIZE
  <2>2. e.bp = h.brk \/ e.bp = PREV_BLKP(h, h.brk)
    BY DEF Extension
  <2>3. NEXT_BLKP(h, next) # h.brk /\ NEXT_BLKP(h, bp) # h.brk
    BY <1>3
  <2>4. next # h.brk /\ bp # h.brk
    BY <1>3
  <2> QED BY <2>1, <2>2, <2>3, <2>4
<1>7. InOrder(x, A) /\ x.brk = h.brk + size
  BY DEF Extension
<1>8. IsHeap(x) /\ Tiles(x, A) /\ Linked(x, F)
  BY <1>7 DEF InOrder
<1>9. next \in F
  <2>1. \A b \in B : b # e.bp => (IsFree(x, b) <=> IsFree(h, b))
    BY DEF Extension
  <2> QED BY <1>2, <1>6, <2>1 DEF Frees
<1>10. Differ(x, d, LinkWords(G)) /\ Linked(d, G)
  <2> HIDE DEF F
  <2> QED BY <1>8, <1>9, DeleteLinked
<1>11. g = PutBlock(d, bp, all, 1)
  OBVIOUS
<1> HIDE DEF x, A, d, all
<1>12. IsHeap(d) /\ d.brk = x.brk /\ Tiles(d, A)
  <2>1. G \in SUBSET (A \ {DSIZE})
    BY <1>8, FreesAre
  <2> HIDE DEF F, G
  <2> QED BY <1>8, <1>10, <2>1, LinksKeepTiles DEF Differ
<1>13. bp \in A /\ all % 8 = 0 /\ end % 8 = 0 /\ all >= 24
  <2>1. end \in Int /\ end % 8 = 0
    BY <1>3, <1>4, EightsAdd
  <2>2. bp % 8 = 0 /\ end - bp = all
    BY <1>1, <1>2, <1>3, <1>4, TagsAreWords
  <2>3. all % 8 = 0
    BY <1>3, <2>1, <2>2, EightsAdd
  <2> QED BY <1>2, <1>3, <1>4, <2>1, <2>3 DEF A, all
<1>14. bp - WSIZE \in DOMAIN d.mem /\ bp + all - DSIZE \in DOMAIN d.mem
  <2>1. bp - 4 \in DOMAIN d.mem
    BY <1>12, <1>13, TagsAreWords
  <2>2. (end - 8) % 4 = 0
    BY <1>3, <1>4, <1>13, FooterIsAligned
  <2>3. 0 <= end - 8 /\ end - 8 < d.brk
    BY <1>3, <1>4, <1>7, <1>12
  <2>4. end - 8 \in DOMAIN d.mem /\ bp + all - DSIZE = end - 8
    BY <1>3, <1>4, <1>12, <2>2, <2>3, HeapHas DEF DSIZE
  <2> QED BY <2>1, <2>4 DEF WSIZE
<1>15. /\ Differ(d, g, TagWords(bp, all)) /\ g.lists = d.lists
       /\ g.mem[bp - WSIZE] = PACK(all, 1)
  BY <1>3, <1>4, <1>11, <1>12, <1>14, PutBlockEffect
<1>16. /\ IsHeap(g) /\ g.brk = d.brk /\ DOMAIN g.mem = DOMAIN d.mem
       /\ \A a \in DOMAIN d.mem : a \notin TagWords(bp, all) => g.mem[a] = d.mem[a]
  BY <1>15 DEF Differ
<1>17. TagWords(bp, all) = {bp - 4, end - 8}
  BY <1>3, <1>4 DEF TagWords, WSIZE, DSIZE
<1>18. Bounded(g)
  <2>1. d.brk > 0
    BY <1>3, <1>7, <1>12
  <2>2. Bounded(d)
    BY <1>10, <1>12, <2>1, LinkedIsBounded
  <2> QED BY <1>15, <1>16, <2>2 DEF Bounded
<1>19. ASSUME NEW b \in A, b < bp PROVE NEXT_BLKP(g, b) \in A /\ NEXT_BLKP(g, b) <= bp
  <2>1. /\ b \in Int /\ b - 4 \in DOMAIN d.mem /\ NEXT_BLKP(d, b) \in Int /\ NEXT_BLKP(d, b) <= bp
        /\ NEXT_BLKP(d, b) \in A \cup {d.brk}
    BY <1>12, <1>13, <1>19, TagsAreWords DEF Tiles, Tagged
  <2>2. b - 4 \notin TagWords(bp, all)
    BY <1>3, <1>4, <1>17, <1>19, <2>1
  <2>3. NEXT_BLKP(g, b) = NEXT_BLKP(d, b)
    BY <1>16, <2>1, <2>2 DEF NEXT_BLKP, SizeOf, WSIZE
  <2>4. NEXT_BLKP(d, b) # d.brk
    BY <1>3, <1>7, <1>12, <2>1
  <2> QED BY <2>1, <2>3, <2>4
<1>20. NEXT_BLKP(g, bp) = end
  <2>1. g.mem[bp - WSIZE] = all + 1
    BY <1>15 DEF PACK
  <2>2. GET_SIZE(all + 1) = all
    BY <1>4, <1>13 DEF GET_SIZE
  <2> QED BY <2>1, <2>2 DEF NEXT_BLKP, SizeOf
<1> DEFINE S == {b \in A : b <= bp} \cup {y \in Int : y >= end}
<1>21. Blocks(g) \subseteq {y \in S : ~EndsAt(g, y)}
  <2>1. \A b \in A : b \in Int
    BY <1>12, TagsAreWords
  <2>2. end \in Int /\ bp < end
    BY <1>3, <1>4
  <2>3. DSIZE \in S
    BY <1>3, <1>12 DEF Tiles, DSIZE
  <2>4. ASSUME NEW y \in S, ~EndsAt(g, y) PROVE NEXT_BLKP(g, y) \in S
    <3>1. y \in Int
      BY <2>1
    <3>2. CASE y \in A /\ y < bp
      BY <1>19, <3>2
    <3>3. CASE y = bp
      BY <1>20, <2>2, <3>3
    <3>4. CASE y >= end
      <4>1. NEXT_BLKP(g, y) \in Int /\ y < NEXT_BLKP(g, y)
        BY <1>16, <2>4, <3>1, WalkGoesUp
      <4> QED BY <2>2, <3>1, <3>4, <4>1
    <3> QED BY <1>3, <2>1, <3>1, <3>2, <3>3, <3>4
  <2>5. S \in SUBSET Int
    BY <2>1
  <2> HIDE DEF S
  <2> QED BY <1>16, <2>3, <2>4, <2>5, BlocksWithin
<1>22. nn \notin Blocks(g)
  <2>1. ~(nn <= bp) /\ ~(nn >= end)
    BY <1>3, <1>4
  <2> QED BY <1>21, <2>1
<1>23. h.brk < g.brk /\ g.brk <= MaxHeap
  BY <1>3, <1>7, <1>12, <1>16
<1> QED BY <1>5, <1>18, <1>22, <1>23 DEF Covered

\* What mm_realloc does in place when the bytes left are an int that has a negation.
LEMMA GrowsOneWay ==
    ASSUME NEW h, NEW bp, NEW newsize, NEW r \in GrownInPlace(h, bp, newsize), NEW remainder,
           Signed(SizeOf(h, bp) + SizeOf(h, NEXT_BLKP(h, bp)) - newsize) = remainder,
           remainder # 0 - WORD \div 2
    PROVE  r = IF remainder >= 0 THEN TakenOver(h, bp)
               ELSE Extended(h, bp, Larger(0 - remainder, CHUNKSIZE))
<1>1. GrownInPlace(h, bp, newsize) =
         IF remainder >= 0 THEN {TakenOver(h, bp)}
         ELSE {Extended(h, bp, Larger(0 - remainder, CHUNKSIZE))}
  BY DEF GrownInPlace
<1> QED BY <1>1

\* mm_realloc in place fails, takes the next block or covers another one.
LEMMA RegrowEffect ==
    ASSUME NEW h, NEW B, Ready(h, B), h.brk <= MaxHeap, NEW bp \in Taken(h, B),
           IsFree(h, NEXT_BLKP(h, bp)) \/ SizeOf(h, NEXT_BLKP(h, bp)) = 0,
           NEW newsize \in Int, newsize % 8 = 0, newsize > SizeOf(h, bp),
           newsize < WORD \div 2, NEW r \in GrownInPlace(h, bp, newsize)
    PROVE  \/ r = Failed(h)
           \/ /\ r.bp = bp /\ \E C : Regrown(h, B, r.heap, C, bp, newsize)
              /\ ~NotLast(h, bp) \/ r.heap.brk = h.brk
           \/ r.bp = bp /\ NotLast(h, bp) /\ Covered(h, B, r.heap)
<1> DEFINE next == NEXT_BLKP(h, bp)
           have == SizeOf(h, bp) + SizeOf(h, next)
           size == Larger(newsize - have, CHUNKSIZE)
           e == extend_heap(h, size \div WSIZE)
<1>1. InOrder(h, B) /\ Apart(h, B, NULL) /\ IsHeap(h) /\ Tiles(h, B)
  BY DEF Ready, InOrder
<1>2. bp \in B \ {DSIZE} /\ ~IsFree(h, bp)
  BY DEF Taken
<1>3. /\ SizeOf(h, bp) \in Int /\ SizeOf(h, bp) % 8 = 0 /\ h.brk \in Int
      /\ next \in B \cup {h.brk}
  BY <1>1, <1>2, TagsAreWords DEF Tiles, Tagged
<1>4. next = h.brk \/ next \in Frees(h, B)
  <2>1. next \in B => SizeOf(h, next) # 0
    BY <1>1, TagsAreWords
  <2> QED BY <1>3, <2>1 DEF Frees
<1>5. SizeOf(h, next) \in Int /\ SizeOf(h, next) % 8 = 0 /\ (next = h.brk => SizeOf(h, next) = 0)
  <2>1. SizeOf(h, h.brk) = 0
    BY <1>1, FreesAre
  <2>2. next \in B => SizeOf(h, next) \in Int /\ SizeOf(h, next) % 8 = 0
    BY <1>1, TagsAreWords
  <2>3. h.brk \notin B
    BY <1>1, FreesAre
  <2> HIDE DEF next
  <2> QED BY <1>3, <2>1, <2>2, <2>3
<1>6. have \in Int /\ have % 8 = 0
  BY <1>3, <1>5, EightsAdd
<1>7. newsize - have \in Int /\ (newsize - have) % 8 = 0
  BY <1>6, EightsAdd
<1>8. size \in Int /\ size % 8 = 0 /\ size >= 24 /\ size >= newsize - have
  <2>1. CHUNKSIZE \in Int /\ CHUNKSIZE % 8 = 0 /\ CHUNKSIZE >= 24
    BY SegregatedAssumption
  <2> QED BY <1>7, <2>1 DEF Larger
<1>9. /\ have >= newsize => next # h.brk
      /\ r = IF have >= newsize THEN [heap |-> PutBlock(delete_node(h, next), bp, have, 1), bp |-> bp]
             ELSE IF e.bp = NULL THEN Failed(h)
             ELSE [heap |-> PutBlock(delete_node(e.heap, next), bp, have + size, 1), bp |-> bp]
  <2>1. WORD \in Nat /\ WORD % 2 = 0 /\ MaxHeap < WORD \div 2 /\ MaxHeap \in Nat
    BY SegregatedAssumption
  <2>2. have <= h.brk /\ have >= 0 /\ SizeOf(h, bp) >= 8
    <3>1. bp \in Int /\ bp >= 8 /\ next = bp + SizeOf(h, bp) /\ SizeOf(h, bp) >= 8
      BY <1>1, <1>2, TagsAreWords
    <3>2. next + SizeOf(h, next) <= h.brk /\ SizeOf(h, next) >= 0
      <4>1. CASE next \in B
        <5>1. SizeOf(h, next) \in Int /\ NEXT_BLKP(h, next) = next + SizeOf(h, next)
              /\ NEXT_BLKP(h, next) <= h.brk /\ SizeOf(h, next) >= 8
          BY <1>1, <4>1, TagsAreWords
        <5> QED BY <5>1
      <4>2. CASE next = h.brk
        BY <1>3, <1>5, <4>2
      <4> QED BY <1>3, <4>1, <4>2
    <3> QED BY <1>3, <1>5, <3>1, <3>2
  <2>3. /\ have - newsize \in Int /\ 0 - WORD \div 2 < have - newsize /\ have - newsize < WORD \div 2
        /\ 0 - (have - newsize) = newsize - have /\ have - newsize # 0 - WORD \div 2
    BY <1>3, <1>6, <2>1, <2>2
  <2>4. r = IF have - newsize >= 0 THEN TakenOver(h, bp)
            ELSE Extended(h, bp, Larger(0 - (have - newsize), CHUNKSIZE))
    <3>1. Signed(have - newsize) = have - newsize
      BY <2>3, InAWord
    <3>2. PICK remainder : remainder = have - newsize
      OBVIOUS
    <3>3. remainder # 0 - WORD \div 2
      BY <2>3, <3>2
    <3>4. Signed(SizeOf(h, bp) + SizeOf(h, NEXT_BLKP(h, bp)) - newsize) = remainder
      <4>1. SizeOf(h, bp) + SizeOf(h, NEXT_BLKP(h, bp)) - newsize = have - newsize
        BY <1>3, <1>5
      <4> QED BY <3>1, <3>2, <4>1
    <3>5. r = IF remainder >= 0 THEN TakenOver(h, bp)
              ELSE Extended(h, bp, Larger(0 - remainder, CHUNKSIZE))
      BY ONLY r \in GrownInPlace(h, bp, newsize), <3>3, <3>4, GrowsOneWay
    <3> QED BY ONLY <3>2, <3>5
  <2>5. have >= newsize => next # h.brk
    <3>1. next = h.brk => have = SizeOf(h, bp)
      BY <1>3, <1>5
    <3> HIDE DEF have, next
    <3> QED BY <1>3, <1>6, <3>1
  <2>6. CASE have >= newsize
    <3>1. have - newsize >= 0
      BY <1>6, <2>6
    <3>2. r = TakenOver(h, bp)
      BY <2>4, <3>1
    <3> QED BY <2>5, <2>6, <3>2 DEF TakenOver
  <2>7. CASE ~(have >= newsize)
    <3>1. ~(have - newsize >= 0)
      BY <1>6, <2>7
    <3>2. r = Extended(h, bp, size)
      BY <2>3, <2>4, <3>1
    <3> QED BY <2>5, <2>7, <3>2 DEF Extended
  <2> QED BY <2>6, <2>7
<1>10. \/ e = Failed(h)
       \/ h.brk + size <= MaxHeap /\ Extension(h, B, size, e) /\ e.bp # NULL
  <2>1. e = extend_heap(h, size \div WSIZE)
    OBVIOUS
  <2> HIDE DEF e, size
  <2>2. \/ h.brk + size > MaxHeap /\ e = Failed(h)
        \/ h.brk + size <= MaxHeap /\ Extension(h, B, size, e)
    BY <1>1, <1>8, <2>1, ExtendedFits
  <2>3. CASE h.brk + size <= MaxHeap /\ Extension(h, B, size, e)
    <3>1. size >= 0
      BY <1>8
    <3>2. e.bp # NULL
      BY <1>1, <1>8, <2>3, <3>1, ExtensionIsSource
    <3> QED BY <2>3, <3>2
  <2> QED BY <2>2, <2>3
<1>11. NotLast(h, bp) <=> next # h.brk /\ NEXT_BLKP(h, next) # h.brk
  BY DEF NotLast
<1>12. next = NEXT_BLKP(h, bp) /\ have = SizeOf(h, bp) + SizeOf(h, next)
  OBVIOUS
<1> HIDE DEF next, have, size, e
<1>13. CASE have >= newsize
  <2>1. next \in Frees(h, B)
    <3>1. next = h.brk => have = SizeOf(h, bp)
      BY <1>3, <1>5, <1>12
    <3> QED BY <1>3, <1>4, <1>6, <1>13, <3>1
  <2> DEFINE g == PutBlock(delete_node(h, next), bp, have, 1)
  <2>2. r.heap = g /\ r.bp = bp /\ g = PutBlock(delete_node(h, next), bp, have, 1)
    BY <1>9, <1>13
  <2> HIDE DEF g
  <2>3. (\E C : Regrown(h, B, g, C, bp, newsize)) /\ g.brk = h.brk
    BY <1>12, <1>13, <2>1, <2>2, GrownWithin
  <2> QED BY <2>2, <2>3
<1>14. CASE ~(have >= newsize) /\ e = Failed(h)
  <2>1. e.bp = NULL
    BY <1>14 DEF Failed
  <2> QED BY <1>9, <1>14, <2>1
<1>15. CASE ~(have >= newsize) /\ h.brk + size <= MaxHeap /\ Extension(h, B, size, e) /\ e.bp # NULL
  <2> DEFINE g == PutBlock(delete_node(e.heap, next), bp, have + size, 1)
  <2>1. r.heap = g /\ r.bp = bp /\ g = PutBlock(delete_node(e.heap, next), bp, have + size, 1)
    BY <1>9, <1>15
  <2> HIDE DEF g
  <2>2. have < newsize /\ have + size >= newsize
    BY <1>6, <1>8, <1>15
  <2>3. CASE next = h.brk \/ (next \in Frees(h, B) /\ NEXT_BLKP(h, next) = h.brk)
    <3>1. \E C : Regrown(h, B, g, C, bp, newsize)
      BY <1>8, <1>12, <1>15, <2>1, <2>2, <2>3, GrownAtEnd
    <3> QED BY <1>11, <2>1, <2>3, <3>1
  <2>4. CASE next \in Frees(h, B) /\ NEXT_BLKP(h, next) # h.brk
    <3>1. Covered(h, B, g)
      BY <1>8, <1>12, <1>15, <2>1, <2>4, GrownOver
    <3>2. next # h.brk
      BY <1>1, <2>4, FreesAre DEF Frees
    <3> QED BY <1>11, <2>1, <2>2, <2>4, <3>1, <3>2
  <2> QED BY <1>4, <2>3, <2>4
<1> QED BY <1>10, <1>13, <1>14, <1>15
=============================================================================
