----------------------------- MODULE HeapLemmas -----------------------------
(* What the routines of module ImplicitList do to the blocks of a heap: each *)
(* of them takes a tiling of the heap to another one.                       *)
EXTENDS ImplicitList, Scans

----------------------------------------------------------------------------
\* A heap and its tiling

HeapWords(brk) == {WSIZE * i : i \in 0..(brk \div WSIZE - 1)}

Word == [size : Int, alloc : {0, 1}]

IsHeap(h) ==
    /\ h \in [mem : [HeapWords(h.brk) -> Word], brk : Nat, search_ptr : Int]
    /\ h.brk % 8 = 0

\* The header of a block is written again in its footer, and leads to the next
\* block or to the epilogue.
Tagged(h, B, b) ==
    /\ b \in heap_listp..(h.brk - DSIZE) /\ b % 8 = 0
    /\ SizeOf(h, b) % 8 = 0 /\ SizeOf(h, b) > 0
    /\ NEXT_BLKP(h, b) \in B \cup {h.brk}
    /\ h.mem[FTRP(h, b)] = h.mem[b - WSIZE]

\* B is the set of the starts of the blocks, which tile the heap h from the
\* prologue to the epilogue.
Tiles(h, B) ==
    /\ heap_listp \in B /\ h.mem[heap_listp - WSIZE] = PACK(DSIZE, 1)
    /\ h.mem[h.brk - WSIZE] = PACK(0, 1)
    /\ \A b \in B : Tagged(h, B, b)
    /\ \A b, c \in B : b < c => NEXT_BLKP(h, b) <= c
    /\ \A c \in B \cup {h.brk} : c # heap_listp => \E b \in B : NEXT_BLKP(h, b) = c

\* The allocated blocks but the prologue.
Taken(h, B) == {b \in B \ {heap_listp} : ~IsFree(h, b)}

\* No two free blocks touch, but for neighbours of bp.
Apart(h, B, bp) ==
    \A b \in B : NEXT_BLKP(h, b) \in B /\ IsFree(h, b) /\ IsFree(h, NEXT_BLKP(h, b)) =>
                     bp \in {b, NEXT_BLKP(h, b)}

\* The block b of h is in g with its tags and all that is in it.
Kept(h, g, b) ==
    \A a \in DOMAIN h.mem : b - WSIZE <= a /\ a < b + SizeOf(h, b) - WSIZE => g.mem[a] = h.mem[a]

\* A block is at a multiple of 8 ...
LEMMA EightsAdd ==
    ASSUME NEW x \in Int, x % 8 = 0, NEW y \in Int, y % 8 = 0
    PROVE  (x + y) % 8 = 0 /\ (x - y) % 8 = 0
  OBVIOUS

\* ... its header is not ...
LEMMA HeaderIsAligned ==
    ASSUME NEW x \in Int, x % 8 = 0
    PROVE  (x - 4) % 4 = 0 /\ (x - 4) % 8 = 4
  OBVIOUS

\* ... its footer is ...
LEMMA FooterIsAligned ==
    ASSUME NEW x \in Int, x % 8 = 0
    PROVE  (x - 8) % 4 = 0 /\ (x - 8) % 8 = 0
  OBVIOUS

\* ... and there is room for both.
LEMMA EightsApart ==
    ASSUME NEW x \in Int, x % 8 = 0, NEW y \in Int, y % 8 = 0, x < y
    PROVE  x + 8 <= y
  OBVIOUS

\* The words of a heap are at the multiples of 4 below its end.
LEMMA HeapWordsAre ==
    ASSUME NEW brk \in Nat, brk % 8 = 0
    PROVE  \A a \in Int : a \in HeapWords(brk) <=> a % 4 = 0 /\ 0 <= a /\ a < brk
<1>1. brk \div 4 \in Int /\ 4 * (brk \div 4) = brk
  OBVIOUS
<1>2. ASSUME NEW a \in Int, a % 4 = 0, 0 <= a, a < brk PROVE a \in HeapWords(brk)
  <2>1. a \div 4 \in 0..(brk \div 4 - 1) /\ a = 4 * (a \div 4)
    BY <1>1, <1>2
  <2> QED BY <2>1 DEF HeapWords, WSIZE
<1>3. ASSUME NEW a \in HeapWords(brk) PROVE a % 4 = 0 /\ 0 <= a /\ a < brk
  <2>1. PICK i \in 0..(brk \div 4 - 1) : a = 4 * i
    BY DEF HeapWords, WSIZE
  <2> QED BY <1>1, <2>1
<1> QED BY <1>2, <1>3

\* Where the tags of a tiled heap are, and what they are.
LEMMA TagsAreWords ==
    ASSUME NEW h, IsHeap(h), NEW B, Tiles(h, B)
    PROVE  /\ h.brk \in Nat /\ h.brk % 8 = 0 /\ h.brk >= 16
           /\ h.brk - WSIZE \in DOMAIN h.mem
           /\ B \subseteq Int
           /\ \A b \in B : /\ b \in Int /\ b % 8 = 0 /\ heap_listp <= b /\ b < h.brk
                           /\ b - WSIZE \in DOMAIN h.mem /\ FTRP(h, b) \in DOMAIN h.mem
                           /\ SizeOf(h, b) \in Int /\ SizeOf(h, b) % 8 = 0 /\ SizeOf(h, b) >= 8
                           /\ h.mem[b - WSIZE] \in Word
                           /\ NEXT_BLKP(h, b) \in Int /\ NEXT_BLKP(h, b) % 8 = 0
                           /\ b < NEXT_BLKP(h, b) /\ NEXT_BLKP(h, b) <= h.brk
<1>1. \A a \in Int : a \in DOMAIN h.mem <=> a % 4 = 0 /\ 0 <= a /\ a < h.brk
  BY HeapWordsAre DEF IsHeap
<1>2. h.brk \in Nat /\ h.brk % 8 = 0 /\ h.brk >= 16
  BY DEF IsHeap, Tiles, Tagged, heap_listp, WSIZE, DSIZE
<1>3. h.brk - WSIZE \in DOMAIN h.mem
  BY <1>1, <1>2 DEF WSIZE
<1>4. ASSUME NEW b \in B
      PROVE  /\ b \in Int /\ b % 8 = 0 /\ heap_listp <= b /\ b < h.brk
             /\ b - WSIZE \in DOMAIN h.mem /\ FTRP(h, b) \in DOMAIN h.mem
             /\ SizeOf(h, b) \in Int /\ SizeOf(h, b) % 8 = 0 /\ SizeOf(h, b) >= 8
             /\ h.mem[b - WSIZE] \in Word
             /\ NEXT_BLKP(h, b) \in Int /\ NEXT_BLKP(h, b) % 8 = 0
             /\ b < NEXT_BLKP(h, b) /\ NEXT_BLKP(h, b) <= h.brk
  <2>1. Tagged(h, B, b)
    BY DEF Tiles
  <2>2. b \in Int /\ b % 8 = 0 /\ 8 <= b /\ b < h.brk
    BY <2>1, <1>2 DEF Tagged, heap_listp, WSIZE, DSIZE
  <2>3. b - WSIZE \in DOMAIN h.mem
    <3>1. b - 4 \in Int /\ (b - 4) % 4 = 0 /\ 0 <= b - 4 /\ b - 4 < h.brk
      BY <1>2, <2>2, HeaderIsAligned
    <3> QED BY <1>1, <3>1 DEF WSIZE
  <2>4. h.mem[b - WSIZE] \in Word
    BY <2>3 DEF IsHeap
  <2>5. SizeOf(h, b) \in Int
    BY <2>4 DEF SizeOf, Word
  <2>6. SizeOf(h, b) % 8 = 0 /\ SizeOf(h, b) >= 8
    BY <2>1, <2>5 DEF Tagged
  <2>7. NEXT_BLKP(h, b) \in Int /\ NEXT_BLKP(h, b) % 8 = 0 /\ b < NEXT_BLKP(h, b)
    BY <2>2, <2>5, <2>6 DEF NEXT_BLKP
  <2>8. NEXT_BLKP(h, b) <= h.brk
    <3>1. CASE NEXT_BLKP(h, b) = h.brk
      BY <3>1, <2>7
    <3>2. CASE NEXT_BLKP(h, b) \in B
      <4>1. Tagged(h, B, NEXT_BLKP(h, b))
        BY <3>2 DEF Tiles
      <4> QED BY <4>1, <1>2, <2>7 DEF Tagged, DSIZE, heap_listp
    <3> QED BY <2>1, <3>1, <3>2 DEF Tagged
  <2>9. FTRP(h, b) \in DOMAIN h.mem
    <3>1. FTRP(h, b) = NEXT_BLKP(h, b) - 8
      BY <2>2, <2>5 DEF FTRP, NEXT_BLKP, DSIZE
    <3>2. NEXT_BLKP(h, b) - 8 \in Int /\ (NEXT_BLKP(h, b) - 8) % 4 = 0
      BY <2>7, FooterIsAligned
    <3>3. 0 <= NEXT_BLKP(h, b) - 8 /\ NEXT_BLKP(h, b) - 8 < h.brk
      BY <1>2, <2>2, <2>7, <2>8
    <3> QED BY <1>1, <3>1, <3>2, <3>3
  <2> QED BY <2>2, <2>3, <2>4, <2>5, <2>6, <2>7, <2>8, <2>9 DEF heap_listp, WSIZE
<1> QED BY <1>2, <1>3, <1>4

----------------------------------------------------------------------------
\* Writing the tags of a block

\* A heap is a record of its three parts.  With another memory ...
LEMMA MemChanged ==
    ASSUME NEW h, IsHeap(h), NEW mem
    PROVE  [h EXCEPT !.mem = mem] = [mem |-> mem, brk |-> h.brk, search_ptr |-> h.search_ptr]
<1> DEFINE M == [HeapWords(h.brk) -> Word]
<1>1. h \in [mem : M, brk : Nat, search_ptr : Int]
  BY DEF IsHeap
<1> HIDE DEF M
<1> QED BY <1>1

\* ... with another memory and another end ...
LEMMA EndChanged ==
    ASSUME NEW h, IsHeap(h), NEW mem, NEW brk
    PROVE  [h EXCEPT !.brk = brk, !.mem = mem] = [mem |-> mem, brk |-> brk, search_ptr |-> h.search_ptr]
<1> DEFINE M == [HeapWords(h.brk) -> Word]
           f == [h EXCEPT !.brk = brk]
           g == [f EXCEPT !.mem = mem]
<1>1. h \in [mem : M, brk : Nat, search_ptr : Int]
  BY DEF IsHeap
<1> HIDE DEF M
<1>2. f \in [mem : M, brk : {brk}, search_ptr : Int] /\ f.search_ptr = h.search_ptr /\ f.brk = brk
  BY <1>1
<1>3. [h EXCEPT !.brk = brk, !.mem = mem] = g
  BY SMT
<1> HIDE DEF f
<1>4. g = [mem |-> mem, brk |-> f.brk, search_ptr |-> f.search_ptr]
  BY <1>2
<1> HIDE DEF g
<1> QED BY <1>2, <1>3, <1>4

\* ... or with another search_ptr, the other parts stay.
LEMMA SearchChanged ==
    ASSUME NEW h, IsHeap(h), NEW search_ptr
    PROVE  [h EXCEPT !.search_ptr = search_ptr]
           = [mem |-> h.mem, brk |-> h.brk, search_ptr |-> search_ptr]
<1> DEFINE M == [HeapWords(h.brk) -> Word]
<1>1. h \in [mem : M, brk : Nat, search_ptr : Int]
  BY DEF IsHeap
<1> HIDE DEF M
<1> QED BY <1>1

\* PutBlock writes a header and a footer and nothing else.
LEMMA PutBlockEffect ==
    ASSUME NEW h, IsHeap(h), NEW bp \in Int, NEW size \in Int, NEW alloc \in {0, 1},
           bp - WSIZE \in DOMAIN h.mem, bp + size - DSIZE \in DOMAIN h.mem
    PROVE  LET g == PutBlock(h, bp, size, alloc)
           IN  /\ IsHeap(g)
               /\ g.brk = h.brk /\ g.search_ptr = h.search_ptr
               /\ DOMAIN g.mem = DOMAIN h.mem
               /\ g.mem[bp - WSIZE] = PACK(size, alloc)
               /\ g.mem[bp + size - DSIZE] = PACK(size, alloc)
               /\ \A a \in DOMAIN h.mem :
                     a # bp - WSIZE /\ a # bp + size - DSIZE => g.mem[a] = h.mem[a]
<1> DEFINE g == PutBlock(h, bp, size, alloc)
           word == PACK(size, alloc)
           mem == [[h.mem EXCEPT ![bp - WSIZE] = word] EXCEPT ![bp + size - DSIZE] = word]
<1>1. word \in Word
  BY DEF PACK, Word
<1>2. g = [mem |-> mem, brk |-> h.brk, search_ptr |-> h.search_ptr]
  <2> DEFINE once == [h.mem EXCEPT ![bp - WSIZE] = word]
             tagged == [h EXCEPT !.mem = once]
  <2>1. g = [tagged EXCEPT !.mem = [tagged.mem EXCEPT ![bp + size - DSIZE] = word]]
    BY DEF PutBlock
  <2>2. tagged = [mem |-> once, brk |-> h.brk, search_ptr |-> h.search_ptr]
    <3> HIDE DEF once
    <3> QED BY MemChanged
  <2>3. once \in [HeapWords(h.brk) -> Word]
    <3> HIDE DEF word
    <3> QED BY <1>1 DEF IsHeap
  <2> HIDE DEF g, once, tagged, word
  <2>4. IsHeap(tagged) /\ tagged.mem = once /\ tagged.brk = h.brk /\ tagged.search_ptr = h.search_ptr
    BY <2>2, <2>3 DEF IsHeap
  <2> DEFINE twice == [once EXCEPT ![bp + size - DSIZE] = word]
  <2>5. g = [tagged EXCEPT !.mem = twice]
    BY <2>1, <2>4
  <2> HIDE DEF twice
  <2>6. [tagged EXCEPT !.mem = twice] = [mem |-> twice, brk |-> h.brk, search_ptr |-> h.search_ptr]
    BY <2>4, MemChanged
  <2> QED BY <2>5, <2>6 DEF once, twice
<1>3. h.mem \in [HeapWords(h.brk) -> Word]
  BY DEF IsHeap
<1>4. mem \in [HeapWords(h.brk) -> Word]
  <2> HIDE DEF word
  <2> QED BY <1>1, <1>3
<1>5. g.mem = mem /\ g.brk = h.brk /\ g.search_ptr = h.search_ptr
  <2> HIDE DEF g, mem
  <2> QED BY <1>2
<1>6. IsHeap(g)
  <2> HIDE DEF g, mem
  <2> QED BY <1>2, <1>4, <1>5 DEF IsHeap
<1>7. /\ mem[bp - WSIZE] = word /\ mem[bp + size - DSIZE] = word
      /\ \A a \in DOMAIN h.mem : a # bp - WSIZE /\ a # bp + size - DSIZE => mem[a] = h.mem[a]
  <2> HIDE DEF word
  <2> QED BY <1>3
<1>8. DOMAIN mem = DOMAIN h.mem
  <2> HIDE DEF mem
  <2> QED BY <1>3, <1>4
<1> HIDE DEF g, mem
<1> QED BY <1>5, <1>6, <1>7, <1>8 DEF g

\* What a block consists of: words between its header and its footer, both
\* included; other blocks lie before it or behind it.
LEMMA BlocksAreApart ==
    ASSUME NEW h, IsHeap(h), NEW B, Tiles(h, B), NEW s \in B, NEW e \in B \cup {h.brk}, s < e
    PROVE  \A b \in B : \/ b < s /\ NEXT_BLKP(h, b) <= s
                        \/ b >= s /\ b < e /\ NEXT_BLKP(h, b) <= e
                        \/ b >= e /\ NEXT_BLKP(h, b) > e
<1> TAKE b \in B
<1>1. /\ s \in Int /\ b \in Int /\ NEXT_BLKP(h, b) \in Int
      /\ b < NEXT_BLKP(h, b) /\ NEXT_BLKP(h, b) <= h.brk
  BY TagsAreWords
<1>2. \A c \in B : b < c => NEXT_BLKP(h, b) <= c
  BY DEF Tiles
<1>3. CASE e \in B
  <2>1. e \in Int
    BY <1>3, TagsAreWords
  <2> QED BY <1>1, <1>2, <1>3, <2>1
<1>4. CASE e = h.brk
  BY <1>1, <1>2, <1>4, TagsAreWords
<1> QED BY <1>3, <1>4

\* The tags written again from the start s of a block to the end of this or a
\* later one: the blocks between are merged into one block, the others are kept.
LEMMA Retiled ==
    ASSUME NEW h, IsHeap(h), NEW B, Tiles(h, B), NEW s \in B \ {heap_listp},
           NEW size \in Int, size > 0, s + size \in B \cup {h.brk}, NEW alloc \in {0, 1}
    PROVE  LET g == PutBlock(h, s, size, alloc)
               C == {b \in B : b <= s \/ s + size <= b}
           IN  /\ IsHeap(g) /\ g.brk = h.brk /\ g.search_ptr = h.search_ptr
               /\ DOMAIN g.mem = DOMAIN h.mem
               /\ Tiles(g, C)
               /\ g.mem[s - WSIZE] = PACK(size, alloc)
               /\ \A b \in C : b # s => Kept(h, g, b)
<1> DEFINE g == PutBlock(h, s, size, alloc)
           C == {b \in B : b <= s \/ s + size <= b}
           e == s + size
<1>1. /\ \A b \in B : /\ b \in Int /\ b % 8 = 0 /\ heap_listp <= b /\ b < h.brk
                      /\ b - WSIZE \in DOMAIN h.mem /\ FTRP(h, b) \in DOMAIN h.mem
                      /\ SizeOf(h, b) \in Int /\ SizeOf(h, b) % 8 = 0 /\ SizeOf(h, b) >= 8
                      /\ NEXT_BLKP(h, b) \in Int /\ NEXT_BLKP(h, b) % 8 = 0
                      /\ b < NEXT_BLKP(h, b) /\ NEXT_BLKP(h, b) <= h.brk
      /\ h.brk \in Nat /\ h.brk % 8 = 0 /\ h.brk - WSIZE \in DOMAIN h.mem
  BY TagsAreWords
<1>2. s \in Int /\ s % 8 = 0 /\ 8 < s /\ e \in Int /\ e % 8 = 0 /\ s < e /\ e <= h.brk
  <2>1. s \in Int /\ s % 8 = 0 /\ s # 8 /\ 8 <= s /\ e \in Int /\ s < e
    BY <1>1 DEF heap_listp, WSIZE
  <2>2. e % 8 = 0 /\ e <= h.brk
    BY <1>1
  <2> QED BY <2>1, <2>2
<1>3. e - 8 \in DOMAIN h.mem
  <2>1. PICK b \in B : NEXT_BLKP(h, b) = e
    BY <1>2 DEF Tiles, heap_listp, WSIZE
  <2>2. FTRP(h, b) = e - 8
    BY <1>1, <2>1 DEF FTRP, NEXT_BLKP, DSIZE
  <2> QED BY <1>1, <2>2
<1>4. size % 8 = 0
  <2>1. size = e - s
    BY <1>2
  <2> QED BY <1>2, <2>1, EightsAdd
<1>5. /\ IsHeap(g) /\ g.brk = h.brk /\ g.search_ptr = h.search_ptr
      /\ DOMAIN g.mem = DOMAIN h.mem
      /\ g.mem[s - 4] = PACK(size, alloc) /\ g.mem[e - 8] = PACK(size, alloc)
      /\ \A a \in DOMAIN h.mem : a # s - 4 /\ a # e - 8 => g.mem[a] = h.mem[a]
  <2>1. s - WSIZE \in DOMAIN h.mem /\ s + size - DSIZE \in DOMAIN h.mem
    BY <1>1, <1>3 DEF DSIZE
  <2> QED BY <1>2, <2>1, PutBlockEffect DEF WSIZE, DSIZE
<1> HIDE DEF g
<1>6. ASSUME NEW b \in B, b < s \/ b >= e, NEW a \in DOMAIN h.mem,
             b - 4 <= a, a < b + SizeOf(h, b) - 4
      PROVE  g.mem[a] = h.mem[a]
  <2>1. a \in Int
    BY HeapWordsAre DEF IsHeap, HeapWords, WSIZE
  <2>2. \/ b < s /\ b + SizeOf(h, b) <= s
        \/ b >= e
    <3>1. b < s => b + SizeOf(h, b) <= s
      BY <1>1, <1>2 DEF Tiles, NEXT_BLKP
    <3> QED BY <1>6, <3>1
  <2>3. s + 8 <= e
    BY <1>2, EightsApart
  <2>4. a # s - 4 /\ a # e - 8
    BY <1>1, <1>2, <1>6, <2>1, <2>2, <2>3
  <2> QED BY <1>5, <2>4
<1>7. ASSUME NEW b \in C, b # s
      PROVE  /\ g.mem[b - 4] = h.mem[b - 4] /\ g.mem[FTRP(h, b)] = h.mem[FTRP(h, b)]
             /\ SizeOf(g, b) = SizeOf(h, b) /\ NEXT_BLKP(g, b) = NEXT_BLKP(h, b)
             /\ FTRP(g, b) = FTRP(h, b)
  <2>1. b \in B /\ (b < s \/ b >= e)
    BY <1>1, <1>2, <1>7
  <2>2. b - 4 \in DOMAIN h.mem /\ FTRP(h, b) \in DOMAIN h.mem /\ b \in Int /\ SizeOf(h, b) \in Int /\ SizeOf(h, b) >= 8
    BY <1>1, <2>1 DEF WSIZE
  <2>3. FTRP(h, b) = b + SizeOf(h, b) - 8
    BY <2>2 DEF FTRP, DSIZE
  <2>4. g.mem[b - 4] = h.mem[b - 4]
    BY <1>6, <2>1, <2>2
  <2>5. g.mem[FTRP(h, b)] = h.mem[FTRP(h, b)]
    BY <1>6, <2>1, <2>2, <2>3
  <2>6. SizeOf(g, b) = SizeOf(h, b)
    BY <2>4 DEF SizeOf, WSIZE
  <2> QED BY <2>4, <2>5, <2>6 DEF NEXT_BLKP, FTRP
<1>8. /\ s \in C /\ e \in C \cup {h.brk}
      /\ SizeOf(g, s) = size /\ NEXT_BLKP(g, s) = e /\ FTRP(g, s) = e - 8
  <2>1. s \in C /\ e \in C \cup {h.brk}
    BY <1>1, <1>2
  <2>2. SizeOf(g, s) = size
    BY <1>5 DEF SizeOf, PACK, WSIZE
  <2>3. NEXT_BLKP(g, s) = e
    BY <2>2 DEF NEXT_BLKP
  <2>4. FTRP(g, s) = e - 8
    BY <1>2, <2>2 DEF FTRP, DSIZE
  <2> HIDE DEF C, e
  <2> QED BY <2>1, <2>2, <2>3, <2>4
<1>9. ASSUME NEW b \in C PROVE Tagged(g, C, b)
  <2>1. CASE b = s
    <3>1. b \in 8..(h.brk - 8) /\ b % 8 = 0
      BY <1>1, <1>2, <2>1, EightsApart
    <3>2. g.mem[FTRP(g, b)] = g.mem[b - 4]
      BY <1>5, <1>8, <2>1
    <3> QED BY <3>1, <3>2, <2>1, <1>4, <1>5, <1>8 DEF Tagged, heap_listp, WSIZE, DSIZE
  <2>2. CASE b # s
    <3>1. Tagged(h, B, b)
      BY DEF Tiles
    <3>2. NEXT_BLKP(h, b) \in C \cup {h.brk}
      <4>1. \/ b < s /\ NEXT_BLKP(h, b) <= s
            \/ b >= e /\ NEXT_BLKP(h, b) > e
        <5>1. b < s => NEXT_BLKP(h, b) <= s
          BY DEF Tiles
        <5> QED BY <1>1, <1>2, <2>2, <5>1
      <4> QED BY <1>1, <1>2, <3>1, <4>1 DEF Tagged
    <3> QED BY <1>5, <1>7, <2>2, <3>1, <3>2 DEF Tagged, WSIZE
  <2> QED BY <2>1, <2>2
<1>10. ASSUME NEW b \in C, NEW c \in C, b < c PROVE NEXT_BLKP(g, b) <= c
  <2>1. CASE b = s
    <3>1. c >= e
      BY <1>1, <1>2, <1>10, <2>1
    <3> QED BY <1>8, <2>1, <3>1
  <2>2. CASE b # s
    BY <1>7, <1>10, <2>2 DEF Tiles
  <2> QED BY <2>1, <2>2
<1>11. ASSUME NEW c \in C \cup {h.brk}, c # heap_listp PROVE \E b \in C : NEXT_BLKP(g, b) = c
  <2>1. PICK b \in B : NEXT_BLKP(h, b) = c
    BY <1>11 DEF Tiles
  <2>2. CASE b \in C /\ b # s
    BY <1>7, <2>1, <2>2
  <2>3. CASE ~(b \in C /\ b # s)
    <3>1. b >= s /\ b < e
      BY <1>1, <1>2, <2>3
    <3>2. c <= e
      <4>1. CASE e \in B
        BY <1>1, <3>1, <4>1, <2>1 DEF Tiles
      <4>2. CASE e = h.brk
        BY <1>1, <4>2, <2>1
      <4> QED BY <4>1, <4>2
    <3>3. c = e
      <4>1. c \in Int /\ c > s
        BY <1>1, <1>2, <2>1, <3>1
      <4> QED BY <1>1, <1>2, <3>2, <4>1
    <3> QED BY <1>8, <3>3
  <2> QED BY <2>2, <2>3
<1>12. heap_listp \in C /\ g.mem[heap_listp - WSIZE] = PACK(DSIZE, 1)
  <2>1. heap_listp \in C /\ heap_listp # s
    BY <1>1, <1>2 DEF Tiles, heap_listp, WSIZE
  <2> QED BY <1>7, <2>1 DEF Tiles, heap_listp, WSIZE
<1>13. g.mem[g.brk - WSIZE] = PACK(0, 1)
  <2>1. h.brk - 4 # s - 4 /\ h.brk - 4 # e - 8
    <3>1. h.brk # s
      BY <1>1, <1>2
    <3>2. h.brk # e - 4
      BY <1>1, <1>2, HeaderIsAligned
    <3> QED BY <1>1, <1>2, <3>1, <3>2
  <2> QED BY <1>1, <1>5, <2>1 DEF Tiles, WSIZE
<1>14. Tiles(g, C)
  BY <1>5, <1>9, <1>10, <1>11, <1>12, <1>13 DEF Tiles
<1>15. ASSUME NEW b \in C, b # s PROVE Kept(h, g, b)
  <2>1. b \in B /\ (b < s \/ b >= e)
    BY <1>1, <1>2, <1>15
  <2> QED BY <1>6, <2>1 DEF Kept, WSIZE
<1> QED BY <1>5, <1>14, <1>15 DEF g, WSIZE

\* A block cut in two: its first part is allocated, the rest free, the other
\* blocks are kept.
LEMMA SplitTiled ==
    ASSUME NEW h, IsHeap(h), NEW B, Tiles(h, B), NEW s \in B \ {heap_listp},
           NEW asize \in Int, asize % 8 = 0, asize > 0, asize < SizeOf(h, s)
    PROVE  LET g == Split(h, s, asize)
               r == s + asize
           IN  /\ IsHeap(g) /\ g.brk = h.brk /\ g.search_ptr = h.search_ptr
               /\ DOMAIN g.mem = DOMAIN h.mem
               /\ Tiles(g, B \cup {r}) /\ r \notin B
               /\ g.mem[s - WSIZE] = PACK(asize, 1)
               /\ g.mem[r - WSIZE] = PACK(SizeOf(h, s) - asize, 0)
               /\ \A b \in B : b # s => Kept(h, g, b)
<1> DEFINE r == s + asize
           rest == SizeOf(h, s) - asize
           e == NEXT_BLKP(h, s)
           f == PutBlock(h, s, asize, 1)
           g == PutBlock(f, r, rest, 0)
           C == B \cup {r}
<1>1. /\ \A b \in B : /\ b \in Int /\ b % 8 = 0 /\ heap_listp <= b /\ b < h.brk
                      /\ b - WSIZE \in DOMAIN h.mem /\ FTRP(h, b) \in DOMAIN h.mem
                      /\ SizeOf(h, b) \in Int /\ SizeOf(h, b) % 8 = 0 /\ SizeOf(h, b) >= 8
                      /\ NEXT_BLKP(h, b) \in Int /\ NEXT_BLKP(h, b) % 8 = 0
                      /\ b < NEXT_BLKP(h, b) /\ NEXT_BLKP(h, b) <= h.brk
      /\ h.brk \in Nat /\ h.brk % 8 = 0 /\ h.brk - WSIZE \in DOMAIN h.mem
  BY TagsAreWords
<1>2. /\ s \in Int /\ s % 8 = 0 /\ 8 < s /\ e \in Int /\ e % 8 = 0 /\ e <= h.brk
      /\ r \in Int /\ s < r /\ r < e /\ rest \in Int /\ rest > 0 /\ r + rest = e
  <2>1. s \in Int /\ s % 8 = 0 /\ s # 8 /\ 8 <= s /\ SizeOf(h, s) \in Int
    BY <1>1 DEF heap_listp, WSIZE
  <2>2. e \in Int /\ e % 8 = 0 /\ e <= h.brk
    BY <1>1
  <2>3. e = s + SizeOf(h, s)
    BY DEF NEXT_BLKP
  <2> HIDE DEF e
  <2> QED BY <2>1, <2>2, <2>3
<1>3. r % 8 = 0 /\ rest % 8 = 0
  <2>1. r % 8 = 0
    BY <1>2, EightsAdd
  <2>2. SizeOf(h, s) \in Int /\ SizeOf(h, s) % 8 = 0
    BY <1>1
  <2> QED BY <2>1, <2>2, EightsAdd
<1>4. s + 8 <= r /\ r + 8 <= e
  BY <1>2, <1>3, EightsApart
<1>5. \A a \in Int : a \in DOMAIN h.mem <=> a % 4 = 0 /\ 0 <= a /\ a < h.brk
  BY HeapWordsAre DEF IsHeap
<1>6. s - 4 \in DOMAIN h.mem /\ r - 8 \in DOMAIN h.mem /\ r - 4 \in DOMAIN h.mem /\ e - 8 \in DOMAIN h.mem
  <2>1. (s - 4) % 4 = 0 /\ (r - 8) % 4 = 0 /\ (r - 4) % 4 = 0 /\ (e - 8) % 4 = 0
    BY <1>2, <1>3, HeaderIsAligned, FooterIsAligned
  <2> HIDE DEF r, e
  <2> QED BY <1>1, <1>2, <1>4, <1>5, <2>1
<1>7. /\ IsHeap(f) /\ f.brk = h.brk /\ f.search_ptr = h.search_ptr
      /\ DOMAIN f.mem = DOMAIN h.mem
      /\ f.mem[s - 4] = PACK(asize, 1) /\ f.mem[r - 8] = PACK(asize, 1)
      /\ \A a \in DOMAIN h.mem : a # s - 4 /\ a # r - 8 => f.mem[a] = h.mem[a]
  BY <1>2, <1>6, PutBlockEffect DEF WSIZE, DSIZE
<1> HIDE DEF f
<1>8. /\ IsHeap(g) /\ g.brk = f.brk /\ g.search_ptr = f.search_ptr
      /\ DOMAIN g.mem = DOMAIN f.mem
      /\ g.mem[r - 4] = PACK(rest, 0) /\ g.mem[e - 8] = PACK(rest, 0)
      /\ \A a \in DOMAIN f.mem : a # r - 4 /\ a # e - 8 => g.mem[a] = f.mem[a]
  <2> HIDE DEF r, rest, e
  <2>1. r - WSIZE \in DOMAIN f.mem /\ r + rest - DSIZE \in DOMAIN f.mem
    BY <1>2, <1>6, <1>7 DEF WSIZE, DSIZE
  <2>2. r + rest - DSIZE = e - 8
    BY <1>2 DEF DSIZE
  <2> QED BY <1>2, <1>7, <2>1, <2>2, PutBlockEffect DEF WSIZE
<1> HIDE DEF g
<1>9. /\ IsHeap(g) /\ g.brk = h.brk /\ g.search_ptr = h.search_ptr
      /\ DOMAIN g.mem = DOMAIN h.mem
      /\ g.mem[s - 4] = PACK(asize, 1) /\ g.mem[r - 8] = PACK(asize, 1)
      /\ g.mem[r - 4] = PACK(rest, 0) /\ g.mem[e - 8] = PACK(rest, 0)
      /\ \A a \in DOMAIN h.mem : a < s - 4 \/ a >= e - 4 => g.mem[a] = h.mem[a]
  <2>1. s - 4 # r - 4 /\ s - 4 # e - 8 /\ r - 8 # r - 4 /\ r - 8 # e - 8
    BY <1>2, <1>4
  <2>2. ASSUME NEW a \in DOMAIN h.mem, a < s - 4 \/ a >= e - 4
        PROVE  a # s - 4 /\ a # r - 8 /\ a # r - 4 /\ a # e - 8
    <3>1. a \in Int
      BY HeapWordsAre DEF IsHeap, HeapWords, WSIZE
    <3> HIDE DEF r, e
    <3> QED BY <1>2, <1>4, <2>2, <3>1
  <2> HIDE DEF r, e, rest
  <2> QED BY <1>6, <1>7, <1>8, <2>1, <2>2
<1>10. \A b \in B : b # s => \/ b < s /\ NEXT_BLKP(h, b) <= s
                             \/ b >= e /\ NEXT_BLKP(h, b) > e
  <2> TAKE b \in B
  <2>1. b < s => NEXT_BLKP(h, b) <= s
    BY DEF Tiles
  <2>2. s < b => e <= b
    BY DEF Tiles
  <2> HIDE DEF e
  <2> QED BY <1>1, <1>2, <2>1, <2>2
<1>11. r \notin B
  <2> HIDE DEF r, e
  <2> QED BY <1>1, <1>2, <1>10
<1>12. ASSUME NEW b \in B, b # s, NEW a \in DOMAIN h.mem,
              b - 4 <= a, a < b + SizeOf(h, b) - 4
       PROVE  g.mem[a] = h.mem[a]
  <2>1. a \in Int
    BY HeapWordsAre DEF IsHeap, HeapWords, WSIZE
  <2>2. NEXT_BLKP(h, b) = b + SizeOf(h, b)
    BY DEF NEXT_BLKP
  <2>3. a < s - 4 \/ a >= e - 4
    <3> HIDE DEF e
    <3> QED BY <1>1, <1>2, <1>10, <1>12, <2>1, <2>2
  <2> QED BY <1>9, <2>3
<1>13. ASSUME NEW b \in B, b # s
       PROVE  /\ g.mem[b - 4] = h.mem[b - 4] /\ g.mem[FTRP(h, b)] = h.mem[FTRP(h, b)]
              /\ SizeOf(g, b) = SizeOf(h, b) /\ NEXT_BLKP(g, b) = NEXT_BLKP(h, b)
              /\ FTRP(g, b) = FTRP(h, b)
  <2>1. b - 4 \in DOMAIN h.mem /\ FTRP(h, b) \in DOMAIN h.mem /\ b \in Int /\ SizeOf(h, b) \in Int /\ SizeOf(h, b) >= 8
    BY <1>1 DEF WSIZE
  <2>2. FTRP(h, b) = b + SizeOf(h, b) - 8
    BY <2>1 DEF FTRP, DSIZE
  <2>3. g.mem[b - 4] = h.mem[b - 4]
    BY <1>12, <1>13, <2>1
  <2>4. g.mem[FTRP(h, b)] = h.mem[FTRP(h, b)]
    BY <1>12, <1>13, <2>1, <2>2
  <2>5. SizeOf(g, b) = SizeOf(h, b)
    BY <2>3 DEF SizeOf, WSIZE
  <2> QED BY <2>3, <2>4, <2>5 DEF NEXT_BLKP, FTRP
<1>14. /\ SizeOf(g, s) = asize /\ NEXT_BLKP(g, s) = r /\ FTRP(g, s) = r - 8
       /\ SizeOf(g, r) = rest /\ NEXT_BLKP(g, r) = e /\ FTRP(g, r) = e - 8
  <2>1. SizeOf(g, s) = asize /\ SizeOf(g, r) = rest
    <3> HIDE DEF r, rest
    <3> QED BY <1>9 DEF SizeOf, PACK, WSIZE
  <2>2. NEXT_BLKP(g, s) = r
    BY <2>1 DEF NEXT_BLKP
  <2>3. FTRP(g, s) = r - 8
    BY <1>2, <2>1 DEF FTRP, DSIZE
  <2> HIDE DEF r, rest, e
  <2>4. NEXT_BLKP(g, r) = e /\ FTRP(g, r) = e - 8
    BY <1>2, <2>1 DEF NEXT_BLKP, FTRP, DSIZE
  <2> QED BY <2>1, <2>2, <2>3, <2>4
<1>15. e \in B \cup {h.brk}
  BY DEF Tiles, Tagged
<1> HIDE DEF r, rest, e
<1>16. ASSUME NEW b \in C PROVE Tagged(g, C, b)
  <2>1. CASE b = s
    <3>1. b \in 8..(h.brk - 8) /\ b % 8 = 0
      BY <1>1, <1>2, <1>4, <2>1
    <3> QED BY <1>9, <1>14, <2>1, <3>1 DEF Tagged, heap_listp, WSIZE, DSIZE
  <2>2. CASE b = r
    <3>1. b \in 8..(h.brk - 8) /\ b % 8 = 0
      BY <1>1, <1>2, <1>3, <1>4, <2>2
    <3> QED BY <1>2, <1>3, <1>9, <1>14, <1>15, <2>2, <3>1 DEF Tagged, heap_listp, WSIZE, DSIZE
  <2>3. CASE b \in B /\ b # s
    <3>1. Tagged(h, B, b)
      BY <2>3 DEF Tiles
    <3> QED BY <1>9, <1>13, <2>3, <3>1 DEF Tagged, WSIZE
  <2> QED BY <2>1, <2>2, <2>3
<1>17. ASSUME NEW b \in C, NEW c \in C, b < c PROVE NEXT_BLKP(g, b) <= c
  <2>1. CASE b = s
    <3>1. c >= r
      BY <1>1, <1>2, <1>10, <1>17, <2>1
    <3> QED BY <1>14, <2>1, <3>1
  <2>2. CASE b = r
    <3>1. c \in B /\ c # s
      BY <1>2, <1>17, <2>2
    <3>2. c >= e
      BY <1>1, <1>2, <1>10, <1>17, <2>2, <3>1
    <3> QED BY <1>14, <2>2, <3>2
  <2>3. CASE b \in B /\ b # s
    <3>1. NEXT_BLKP(g, b) = NEXT_BLKP(h, b)
      BY <1>13, <2>3
    <3>2. CASE c \in B
      BY <1>17, <2>3, <3>1, <3>2 DEF Tiles
    <3>3. CASE c = r
      BY <1>1, <1>2, <1>10, <1>17, <2>3, <3>1, <3>3
    <3> QED BY <3>2, <3>3
  <2> QED BY <2>1, <2>2, <2>3
<1>18. ASSUME NEW c \in C \cup {h.brk}, c # heap_listp PROVE \E b \in C : NEXT_BLKP(g, b) = c
  <2>1. CASE c = r
    BY <1>14, <2>1
  <2>2. CASE c # r
    <3>1. PICK b \in B : NEXT_BLKP(h, b) = c
      BY <1>18, <2>2 DEF Tiles
    <3>2. CASE b = s
      BY <1>14, <3>1, <3>2 DEF e
    <3>3. CASE b # s
      BY <1>13, <3>1, <3>3
    <3> QED BY <3>2, <3>3
  <2> QED BY <2>1, <2>2
<1>19. heap_listp \in C /\ g.mem[heap_listp - WSIZE] = PACK(DSIZE, 1)
  <2>1. heap_listp \in B /\ heap_listp # s
    BY DEF Tiles
  <2> QED BY <1>13, <2>1 DEF Tiles, heap_listp, WSIZE
<1>20. g.mem[g.brk - WSIZE] = PACK(0, 1)
  <2>1. h.brk - 4 >= e - 4
    BY <1>1, <1>2
  <2> QED BY <1>1, <1>9, <2>1 DEF Tiles, WSIZE
<1>21. Tiles(g, C)
  BY <1>9, <1>16, <1>17, <1>18, <1>19, <1>20 DEF Tiles
<1>22. ASSUME NEW b \in B, b # s PROVE Kept(h, g, b)
  BY <1>12, <1>22 DEF Kept, WSIZE
<1>23. g = Split(h, s, asize)
  BY DEF g, f, r, rest, Split
<1> QED BY <1>9, <1>11, <1>21, <1>22, <1>23 DEF WSIZE, r, rest

----------------------------------------------------------------------------
\* Growing the heap

\* The words that a chunk adds are those of the longer heap beyond the old end.
LEMMA FreshWords ==
    ASSUME NEW brk \in Nat, brk % 8 = 0, NEW size \in Nat, size % 8 = 0
    PROVE  HeapWords(brk) \cup {brk + WSIZE * i : i \in 0..(size \div WSIZE - 1)} = HeapWords(brk + size)
<1> DEFINE fresh == {brk + 4 * i : i \in 0..(size \div 4 - 1)}
<1>1. size \div 4 \in Int /\ 4 * (size \div 4) = size
  OBVIOUS
<1>2. ASSUME NEW a \in Int, a % 4 = 0, brk <= a, a < brk + size PROVE a \in fresh
  <2>1. (a - brk) \div 4 \in 0..(size \div 4 - 1) /\ a = brk + 4 * ((a - brk) \div 4)
    BY <1>1, <1>2
  <2> QED BY <2>1
<1>3. ASSUME NEW a \in fresh PROVE a \in Int /\ a % 4 = 0 /\ brk <= a /\ a < brk + size
  <2>1. PICK i \in 0..(size \div 4 - 1) : a = brk + 4 * i
    OBVIOUS
  <2> QED BY <1>1, <2>1
<1>4. brk + size \in Nat /\ (brk + size) % 8 = 0
  OBVIOUS
<1>5. \A a \in HeapWords(brk) \cup HeapWords(brk + size) : a \in Int
  BY DEF HeapWords, WSIZE
<1>6. \A a \in Int : a \in HeapWords(brk) <=> a % 4 = 0 /\ 0 <= a /\ a < brk
  BY HeapWordsAre
<1>7. \A a \in Int : a \in HeapWords(brk + size) <=> a % 4 = 0 /\ 0 <= a /\ a < brk + size
  BY <1>4, HeapWordsAre
<1>8. \A a \in Int : a \in HeapWords(brk) \cup fresh <=> a \in HeapWords(brk + size)
  <2> HIDE DEF fresh
  <2> QED BY <1>2, <1>3, <1>6, <1>7
<1>9. HeapWords(brk) \cup fresh = HeapWords(brk + size)
  <2> HIDE DEF fresh
  <2> QED BY <1>3, <1>5, <1>8
<1> QED BY <1>9 DEF WSIZE

\* A chunk is one free block from the old end of the heap to the new epilogue;
\* all other blocks are kept.
LEMMA ChunkTiled ==
    ASSUME NEW h, IsHeap(h), NEW B, Tiles(h, B), NEW size \in Int, size % 8 = 0, size > 0
    PROVE  LET g == WithChunk(h, size)
               C == B \cup {h.brk}
           IN  /\ IsHeap(g) /\ g.brk = h.brk + size /\ g.search_ptr = h.search_ptr
               /\ DOMAIN h.mem \subseteq DOMAIN g.mem
               /\ Tiles(g, C) /\ h.brk \notin B
               /\ g.mem[h.brk - WSIZE] = PACK(size, 0)
               /\ \A b \in B : Kept(h, g, b)
<1> DEFINE s == h.brk
           e == s + size
           C == B \cup {s}
           fresh == {s + WSIZE * i : i \in 0..(size \div WSIZE - 1)}
           longer == [a \in DOMAIN h.mem \cup fresh |-> IF a \in fresh THEN Data(0) ELSE h.mem[a]]
           grown == [h EXCEPT !.brk = e, !.mem = longer]
           f == PutBlock(grown, s, size, 0)
           g == [f EXCEPT !.mem[e - WSIZE] = PACK(0, 1)]
<1>1. /\ \A b \in B : /\ b \in Int /\ b % 8 = 0 /\ heap_listp <= b /\ b < h.brk
                      /\ b - WSIZE \in DOMAIN h.mem /\ FTRP(h, b) \in DOMAIN h.mem
                      /\ SizeOf(h, b) \in Int /\ SizeOf(h, b) % 8 = 0 /\ SizeOf(h, b) >= 8
                      /\ NEXT_BLKP(h, b) \in Int /\ NEXT_BLKP(h, b) % 8 = 0
                      /\ b < NEXT_BLKP(h, b) /\ NEXT_BLKP(h, b) <= h.brk
      /\ s \in Nat /\ s % 8 = 0 /\ s >= 16 /\ s - WSIZE \in DOMAIN h.mem
  BY TagsAreWords
<1>2. e \in Nat /\ e % 8 = 0 /\ s < e /\ s + 8 <= e
  <2>1. e \in Nat /\ e % 8 = 0 /\ s < e
    BY <1>1, EightsAdd
  <2> HIDE DEF e, s
  <2> QED BY <1>1, <2>1, EightsApart
<1>3. \A a \in Int : a \in DOMAIN h.mem <=> a % 4 = 0 /\ 0 <= a /\ a < s
  BY HeapWordsAre DEF IsHeap
<1>4. \A a \in Int : a \in HeapWords(e) <=> a % 4 = 0 /\ 0 <= a /\ a < e
  BY <1>2, HeapWordsAre
<1>5. DOMAIN h.mem \cup fresh = HeapWords(e)
  <2>1. DOMAIN h.mem = HeapWords(s) /\ size \in Nat
    BY DEF IsHeap
  <2> QED BY <1>1, <2>1, FreshWords
<1>6. /\ IsHeap(grown) /\ grown.brk = e /\ grown.search_ptr = h.search_ptr
      /\ DOMAIN grown.mem = HeapWords(e)
      /\ \A a \in DOMAIN h.mem : grown.mem[a] = h.mem[a]
  <2>1. grown = [mem |-> longer, brk |-> e, search_ptr |-> h.search_ptr]
    <3> HIDE DEF longer, e
    <3> QED BY EndChanged
  <2>2. Data(0) \in Word
    BY ConstantsAssumption DEF Data, Word
  <2>3. longer \in [HeapWords(e) -> Word]
    <3> HIDE DEF fresh, e
    <3> QED BY <1>5, <2>2 DEF IsHeap
  <2>4. \A a \in DOMAIN h.mem : longer[a] = h.mem[a]
    <3>1. \A a \in DOMAIN h.mem : a \in Int
      BY DEF IsHeap, HeapWords, WSIZE
    <3>2. \A a \in fresh : a >= s
      BY <1>1 DEF WSIZE
    <3>3. \A a \in DOMAIN h.mem : a \notin fresh
      <4> HIDE DEF fresh
      <4> QED BY <1>1, <1>3, <3>1, <3>2
    <3> QED BY <3>3
  <2>5. grown.mem = longer /\ grown.brk = e /\ grown.search_ptr = h.search_ptr
    <3> HIDE DEF grown, longer
    <3> QED BY <2>1
  <2>6. IsHeap(grown)
    <3> HIDE DEF grown, longer, e
    <3> QED BY <1>2, <2>1, <2>3, <2>5 DEF IsHeap
  <2>7. DOMAIN longer = HeapWords(e)
    <3> HIDE DEF longer
    <3> QED BY <2>3
  <2> HIDE DEF grown, longer
  <2> QED BY <2>4, <2>5, <2>6, <2>7
<1> HIDE DEF grown
<1>7. s - 4 \in HeapWords(e) /\ e - 8 \in HeapWords(e) /\ e - 4 \in HeapWords(e)
  <2>1. (s - 4) % 4 = 0 /\ (e - 8) % 4 = 0 /\ (e - 4) % 4 = 0
    BY <1>1, <1>2, HeaderIsAligned, FooterIsAligned
  <2> HIDE DEF s, e
  <2> QED BY <1>1, <1>2, <1>4, <2>1
<1>8. /\ IsHeap(f) /\ f.brk = e /\ f.search_ptr = h.search_ptr
      /\ DOMAIN f.mem = HeapWords(e)
      /\ f.mem[s - 4] = PACK(size, 0) /\ f.mem[e - 8] = PACK(size, 0)
      /\ \A a \in HeapWords(e) : a # s - 4 /\ a # e - 8 => f.mem[a] = grown.mem[a]
  BY <1>1, <1>6, <1>7, PutBlockEffect DEF WSIZE, DSIZE
<1> HIDE DEF f
<1>9. /\ IsHeap(g) /\ g.brk = e /\ g.search_ptr = h.search_ptr
      /\ DOMAIN g.mem = HeapWords(e)
      /\ g.mem[e - 4] = PACK(0, 1)
      /\ \A a \in HeapWords(e) : a # e - 4 => g.mem[a] = f.mem[a]
  <2> DEFINE tagged == [f.mem EXCEPT ![e - WSIZE] = PACK(0, 1)]
  <2>1. g = [mem |-> tagged, brk |-> e, search_ptr |-> h.search_ptr]
    <3>2. g = [f EXCEPT !.mem = tagged]
      OBVIOUS
    <3> HIDE DEF tagged, g, e
    <3> QED BY <1>8, <3>2, MemChanged
  <2>2. f.mem \in [HeapWords(e) -> Word]
    BY <1>8 DEF IsHeap
  <2>3. PACK(0, 1) \in Word
    BY DEF PACK, Word
  <2>4. tagged \in [HeapWords(e) -> Word] /\ DOMAIN tagged = HeapWords(e)
    <3> HIDE DEF e
    <3> QED BY <2>2, <2>3
  <2>5. tagged[e - 4] = PACK(0, 1) /\ \A a \in HeapWords(e) : a # e - 4 => tagged[a] = f.mem[a]
    BY <1>7, <2>2 DEF WSIZE
  <2>6. g.mem = tagged /\ g.brk = e /\ g.search_ptr = h.search_ptr
    <3> HIDE DEF g, tagged
    <3> QED BY <2>1
  <2> HIDE DEF g, tagged
  <2>7. IsHeap(g)
    <3> HIDE DEF e
    <3> QED BY <1>2, <2>1, <2>4, <2>6 DEF IsHeap
  <2> QED BY <2>4, <2>5, <2>6, <2>7
<1> HIDE DEF g
<1>10. /\ g.mem[s - 4] = PACK(size, 0) /\ g.mem[e - 8] = PACK(size, 0)
       /\ \A a \in DOMAIN h.mem : a # s - 4 => g.mem[a] = h.mem[a]
       /\ DOMAIN h.mem \subseteq HeapWords(e)
  <2>1. s - 4 # e - 4 /\ e - 8 # e - 4
    BY <1>1, <1>2
  <2>2. ASSUME NEW a \in DOMAIN h.mem PROVE a \in HeapWords(e) /\ a # e - 4 /\ a # e - 8
    <3>1. a \in Int /\ a < s
      BY <1>3 DEF IsHeap, HeapWords, WSIZE
    <3>2. a \in HeapWords(e)
      BY <1>5
    <3> HIDE DEF s, e
    <3> QED BY <1>1, <1>2, <3>1, <3>2
  <2> HIDE DEF s, e
  <2> QED BY <1>6, <1>7, <1>8, <1>9, <2>1, <2>2
<1>11. ASSUME NEW b \in B, NEW a \in DOMAIN h.mem, b - 4 <= a, a < b + SizeOf(h, b) - 4
       PROVE  g.mem[a] = h.mem[a]
  <2>1. a \in Int
    BY DEF IsHeap, HeapWords, WSIZE
  <2>2. b + SizeOf(h, b) <= s
    BY <1>1 DEF NEXT_BLKP
  <2>3. a # s - 4
    BY <1>1, <1>11, <2>1, <2>2
  <2> QED BY <1>10, <2>3
<1>12. ASSUME NEW b \in B
       PROVE  /\ g.mem[b - 4] = h.mem[b - 4] /\ g.mem[FTRP(h, b)] = h.mem[FTRP(h, b)]
              /\ SizeOf(g, b) = SizeOf(h, b) /\ NEXT_BLKP(g, b) = NEXT_BLKP(h, b)
              /\ FTRP(g, b) = FTRP(h, b)
  <2>1. b - 4 \in DOMAIN h.mem /\ FTRP(h, b) \in DOMAIN h.mem /\ b \in Int /\ SizeOf(h, b) \in Int /\ SizeOf(h, b) >= 8
    BY <1>1 DEF WSIZE
  <2>2. FTRP(h, b) = b + SizeOf(h, b) - 8
    BY <2>1 DEF FTRP, DSIZE
  <2>3. g.mem[b - 4] = h.mem[b - 4]
    BY <1>11, <2>1
  <2>4. g.mem[FTRP(h, b)] = h.mem[FTRP(h, b)]
    BY <1>11, <2>1, <2>2
  <2>5. SizeOf(g, b) = SizeOf(h, b)
    BY <2>3 DEF SizeOf, WSIZE
  <2> QED BY <2>3, <2>4, <2>5 DEF NEXT_BLKP, FTRP
<1>13. SizeOf(g, s) = size /\ NEXT_BLKP(g, s) = e /\ FTRP(g, s) = e - 8
  <2>1. SizeOf(g, s) = size
    BY <1>10 DEF SizeOf, PACK, WSIZE
  <2> QED BY <1>1, <2>1 DEF NEXT_BLKP, FTRP, DSIZE
<1>14. ASSUME NEW b \in C PROVE Tagged(g, C, b)
  <2>1. CASE b = s
    <3>1. b \in 8..(e - 8) /\ b % 8 = 0
      BY <1>1, <1>2, <2>1
    <3>2. b \in heap_listp..(g.brk - DSIZE) /\ NEXT_BLKP(g, b) \in C \cup {g.brk}
      BY <1>9, <1>13, <2>1, <3>1 DEF heap_listp, WSIZE, DSIZE
    <3>3. g.mem[FTRP(g, b)] = g.mem[b - WSIZE]
      BY <1>10, <1>13, <2>1 DEF WSIZE
    <3>4. SizeOf(g, b) % 8 = 0 /\ SizeOf(g, b) > 0
      BY <1>13, <2>1
    <3> QED BY <3>1, <3>2, <3>3, <3>4 DEF Tagged
  <2>2. CASE b \in B
    <3>1. Tagged(h, B, b)
      BY <2>2 DEF Tiles
    <3>2. b \in heap_listp..(g.brk - DSIZE)
      BY <1>1, <1>2, <1>9, <2>2, <3>1 DEF Tagged, heap_listp, WSIZE, DSIZE
    <3>3. NEXT_BLKP(g, b) \in C \cup {g.brk}
      BY <1>12, <2>2, <3>1 DEF Tagged
    <3> QED BY <1>12, <2>2, <3>1, <3>2, <3>3 DEF Tagged, WSIZE
  <2> QED BY <2>1, <2>2
<1>15. s \notin B
  BY <1>1
<1>16. ASSUME NEW b \in C, NEW c \in C, b < c PROVE NEXT_BLKP(g, b) <= c
  <2>1. b \in B
    BY <1>1, <1>16
  <2>2. NEXT_BLKP(g, b) = NEXT_BLKP(h, b)
    BY <1>12, <2>1
  <2>3. CASE c \in B
    BY <1>16, <2>1, <2>2, <2>3 DEF Tiles
  <2>4. CASE c = s
    BY <1>1, <2>1, <2>2, <2>4
  <2> QED BY <2>3, <2>4
<1>17. ASSUME NEW c \in C \cup {e}, c # heap_listp PROVE \E b \in C : NEXT_BLKP(g, b) = c
  <2>1. CASE c = e
    BY <1>13, <2>1
  <2>2. CASE c # e
    <3>1. PICK b \in B : NEXT_BLKP(h, b) = c
      BY <1>17, <2>2 DEF Tiles
    <3> QED BY <1>12, <3>1
  <2> QED BY <2>1, <2>2
<1>18. heap_listp \in C /\ g.mem[heap_listp - WSIZE] = PACK(DSIZE, 1)
  <2>1. heap_listp \in B
    BY DEF Tiles
  <2> QED BY <1>12, <2>1 DEF Tiles, heap_listp, WSIZE
<1> HIDE DEF s, e
<1>19. Tiles(g, C)
  BY <1>9, <1>14, <1>16, <1>17, <1>18 DEF Tiles, WSIZE
<1>20. ASSUME NEW b \in B PROVE Kept(h, g, b)
  BY <1>11, <1>20 DEF Kept, WSIZE
<1>21. g = WithChunk(h, size)
  <2> DEFINE fresh_h == {h.brk + WSIZE * i : i \in 0..(size \div WSIZE - 1)}
             longer_h == [a \in DOMAIN h.mem \cup fresh_h |->
                             IF a \in fresh_h THEN Data(0) ELSE h.mem[a]]
             grown_h == [h EXCEPT !.brk = h.brk + size, !.mem = longer_h]
  <2>1. longer_h = longer
    BY DEF s
  <2>2. WithChunk(h, size) = [PutBlock(grown_h, h.brk, size, 0) EXCEPT !.mem[h.brk + size - WSIZE] = PACK(0, 1)]
    BY DEF WithChunk
  <2> HIDE DEF longer_h, longer
  <2>3. grown = grown_h
    BY <2>1 DEF grown, s, e
  <2>4. f = PutBlock(grown_h, h.brk, size, 0)
    BY <2>3 DEF f, s
  <2>5. e - WSIZE = h.brk + size - WSIZE
    BY <1>1 DEF e, s, WSIZE
  <2> HIDE DEF grown_h
  <2> QED BY <2>2, <2>4, <2>5 DEF g
<1> QED BY <1>9, <1>10, <1>15, <1>19, <1>20, <1>21 DEF WSIZE, s, e

----------------------------------------------------------------------------
\* Coalescing

\* A block that is kept has its tags.
LEMMA KeptTags ==
    ASSUME NEW h, IsHeap(h), NEW B, Tiles(h, B), NEW b \in B, NEW g, Kept(h, g, b)
    PROVE  /\ g.mem[b - WSIZE] = h.mem[b - WSIZE]
           /\ g.mem[FTRP(h, b)] = h.mem[FTRP(h, b)]
           /\ SizeOf(g, b) = SizeOf(h, b) /\ (IsFree(g, b) <=> IsFree(h, b))
           /\ NEXT_BLKP(g, b) = NEXT_BLKP(h, b) /\ FTRP(g, b) = FTRP(h, b)
<1>1. /\ b - 4 \in DOMAIN h.mem /\ FTRP(h, b) \in DOMAIN h.mem /\ b \in Int
      /\ SizeOf(h, b) \in Int /\ SizeOf(h, b) >= 8
  BY TagsAreWords DEF WSIZE
<1>2. FTRP(h, b) = b + SizeOf(h, b) - 8
  BY <1>1 DEF FTRP, DSIZE
<1>3. g.mem[b - 4] = h.mem[b - 4]
  BY <1>1 DEF Kept, WSIZE
<1>4. g.mem[FTRP(h, b)] = h.mem[FTRP(h, b)]
  BY <1>1, <1>2 DEF Kept, WSIZE
<1>5. SizeOf(g, b) = SizeOf(h, b)
  BY <1>3 DEF SizeOf, WSIZE
<1> QED BY <1>3, <1>4, <1>5 DEF IsFree, NEXT_BLKP, FTRP, WSIZE

\* Setting search_ptr leaves the blocks alone.
LEMMA SetSearchEffect ==
    ASSUME NEW h, IsHeap(h), NEW p \in Int
    PROVE  LET g == SetSearch(h, p)
           IN  /\ IsHeap(g)
               /\ g.mem = h.mem /\ g.brk = h.brk
               /\ g.search_ptr = IF policy = "next" THEN p ELSE h.search_ptr
               /\ \A B : Tiles(h, B) => Tiles(g, B)
               /\ \A b : SizeOf(g, b) = SizeOf(h, b)
<1> DEFINE g == SetSearch(h, p)
<1>1. CASE policy = "next"
  <2>1. g = [mem |-> h.mem, brk |-> h.brk, search_ptr |-> p]
    BY <1>1, SearchChanged DEF SetSearch
  <2> HIDE DEF g
  <2>2. g.mem = h.mem /\ g.brk = h.brk /\ g.search_ptr = p
    BY <2>1
  <2>3. IsHeap(g)
    BY <2>1, <2>2 DEF IsHeap
  <2>4. \A B : Tiles(h, B) => Tiles(g, B)
    BY <2>2 DEF Tiles, Tagged, SizeOf, NEXT_BLKP, FTRP
  <2>5. \A b : SizeOf(g, b) = SizeOf(h, b)
    BY <2>2 DEF SizeOf
  <2> QED BY <1>1, <2>2, <2>3, <2>4, <2>5 DEF g
<1>2. CASE policy # "next"
  BY <1>2 DEF SetSearch
<1> QED BY <1>1, <1>2

\* PREV_BLKP finds the block that leads to bp.
LEMMA PreviousBlock ==
    ASSUME NEW h, IsHeap(h), NEW B, Tiles(h, B), NEW bp \in B \cup {h.brk}, bp # heap_listp
    PROVE  /\ PREV_BLKP(h, bp) \in B
           /\ NEXT_BLKP(h, PREV_BLKP(h, bp)) = bp
           /\ \A b \in B : NEXT_BLKP(h, b) = bp => b = PREV_BLKP(h, bp)
<1>1. PICK p \in B : NEXT_BLKP(h, p) = bp
  BY DEF Tiles
<1>2. p \in Int /\ bp \in Int /\ SizeOf(h, p) \in Int
  BY <1>1, TagsAreWords
<1>3. bp = p + SizeOf(h, p)
  BY <1>1 DEF NEXT_BLKP
<1>4. FTRP(h, p) = bp - DSIZE
  BY <1>2, <1>3 DEF FTRP, DSIZE
<1>5. h.mem[bp - DSIZE] = h.mem[p - WSIZE]
  BY <1>4 DEF Tiles, Tagged
<1>6. PREV_BLKP(h, bp) = bp - SizeOf(h, p)
  BY <1>5 DEF PREV_BLKP, SizeOf
<1>7. PREV_BLKP(h, bp) = p
  BY <1>2, <1>3, <1>6
<1>8. ASSUME NEW b \in B, NEXT_BLKP(h, b) = bp PROVE b = p
  <2>1. b \in Int /\ b < bp /\ p < bp
    BY <1>1, <1>8, TagsAreWords
  <2>2. ~(b < p) /\ ~(p < b)
    BY <1>1, <1>2, <1>8, <2>1 DEF Tiles
  <2> QED BY <1>2, <2>1, <2>2
<1> QED BY <1>1, <1>7, <1>8

\* What coalesce merges: bp's block with the free ones of its neighbours.
LEMMA MergedBlock ==
    ASSUME NEW h, IsHeap(h), NEW B, Tiles(h, B), NEW bp \in B, bp # heap_listp
    PROVE  LET prev == PREV_BLKP(h, bp)
               next == NEXT_BLKP(h, bp)
               m == Merged(h, bp)
               nextFree == next \in B /\ IsFree(h, next)
           IN  /\ m.start = IF IsFree(h, prev) THEN prev ELSE bp
               /\ m.start \in B \ {heap_listp}
               /\ m.size \in Int
               /\ m.start + m.size = IF nextFree THEN NEXT_BLKP(h, next) ELSE next
               /\ m.start + m.size \in B \cup {h.brk}
               /\ m.size >= SizeOf(h, bp)
<1> DEFINE prev == PREV_BLKP(h, bp)
           next == NEXT_BLKP(h, bp)
           m == Merged(h, bp)
           nextFree == next \in B /\ IsFree(h, next)
           prev_size == IF IsFree(h, prev) THEN SizeOf(h, prev) ELSE 0
           next_size == IF nextFree THEN SizeOf(h, next) ELSE 0
<1>1. prev \in B /\ NEXT_BLKP(h, prev) = bp
  BY PreviousBlock
<1>2. \A b \in B : /\ h.mem[FTRP(h, b)] = h.mem[b - WSIZE]
                   /\ h.mem[b - WSIZE] \in Word
                   /\ b \in Int /\ SizeOf(h, b) \in Int /\ SizeOf(h, b) >= 8
                   /\ NEXT_BLKP(h, b) = b + SizeOf(h, b)
                   /\ NEXT_BLKP(h, b) \in B \cup {h.brk}
  BY TagsAreWords DEF Tiles, Tagged, NEXT_BLKP
<1>3. h.mem[FTRP(h, prev)].alloc = 1 <=> ~IsFree(h, prev)
  BY <1>1, <1>2 DEF IsFree, Word
<1>4. ~IsFree(h, next) <=> ~nextFree
  <2>1. ~IsFree(h, h.brk)
    BY DEF Tiles, IsFree, PACK
  <2> QED BY <1>2, <2>1
<1>5. nextFree => h.mem[FTRP(h, next)].size = SizeOf(h, next)
  BY <1>2 DEF SizeOf
<1>6. m.start = IF IsFree(h, prev) THEN prev ELSE bp
  BY <1>3 DEF Merged
<1>7. m.size = SizeOf(h, bp) + prev_size + next_size
  <2> HIDE DEF nextFree
  <2> QED BY <1>3, <1>4, <1>5 DEF Merged
<1>8. IsFree(h, prev) => prev # heap_listp
  BY DEF Tiles, IsFree, PACK
<1>9. m.start \in B \ {heap_listp}
  BY <1>1, <1>6, <1>8
<1>10. prev_size \in Nat /\ next_size \in Nat
  BY <1>1, <1>2
<1>11. m.size \in Int /\ m.size >= SizeOf(h, bp)
  <2> HIDE DEF prev_size, next_size
  <2> QED BY <1>2, <1>7, <1>10
<1>12. m.start + prev_size = bp
  BY <1>1, <1>2, <1>6
<1>13. bp + SizeOf(h, bp) + next_size = IF nextFree THEN NEXT_BLKP(h, next) ELSE next
  BY <1>2
<1>14. m.start + m.size = IF nextFree THEN NEXT_BLKP(h, next) ELSE next
  <2>1. m.start \in Int /\ SizeOf(h, bp) \in Int /\ bp \in Int
    BY <1>2, <1>9
  <2> HIDE DEF m, prev_size, next_size, nextFree
  <2>2. m.start + m.size = bp + SizeOf(h, bp) + next_size
    BY <1>7, <1>10, <1>12, <2>1
  <2> QED BY <1>13, <2>2
<1>15. m.start + m.size \in B \cup {h.brk}
  <2> HIDE DEF m
  <2> QED BY <1>2, <1>14
<1> HIDE DEF m
<1> QED BY <1>6, <1>9, <1>11, <1>14, <1>15 DEF m

\* A free block that may touch other free blocks becomes one that touches none;
\* the allocated blocks are kept.
LEMMA Coalesced ==
    ASSUME NEW h, IsHeap(h), NEW B, Tiles(h, B), NEW bp \in B, bp # heap_listp,
           IsFree(h, bp), Apart(h, B, bp)
    PROVE  LET r == coalesce(h, bp)
           IN  \E C :
                 /\ IsHeap(r.heap) /\ r.heap.brk = h.brk
                 /\ DOMAIN r.heap.mem = DOMAIN h.mem
                 /\ Tiles(r.heap, C) /\ Apart(r.heap, C, NULL)
                 /\ r.bp \in C \ {heap_listp}
                 /\ IsFree(r.heap, r.bp) /\ SizeOf(r.heap, r.bp) >= SizeOf(h, bp)
                 /\ Taken(r.heap, C) = Taken(h, B)
                 /\ \A b \in Taken(h, B) : Kept(h, r.heap, b)
                 /\ r.heap.search_ptr = IF policy = "next" THEN r.bp ELSE h.search_ptr
<1> DEFINE r == coalesce(h, bp)
           m == Merged(h, bp)
           s == m.start
           size == m.size
           e == s + size
           prev == PREV_BLKP(h, bp)
           next == NEXT_BLKP(h, bp)
           nextFree == next \in B /\ IsFree(h, next)
           f == PutBlock(h, s, size, 0)
           g == SetSearch(f, s)
           C == {b \in B : b <= s \/ e <= b}
<1>1. r.heap = g /\ r.bp = s
  BY DEF coalesce
<1> HIDE DEF r
<1>2. /\ s = IF IsFree(h, prev) THEN prev ELSE bp
      /\ s \in B /\ s # heap_listp /\ size \in Int
      /\ e = IF nextFree THEN NEXT_BLKP(h, next) ELSE next
      /\ e \in B \cup {h.brk}
      /\ size >= SizeOf(h, bp)
  BY MergedBlock
<1> HIDE DEF m
<1>3. \A b \in B : /\ b \in Int /\ heap_listp <= b /\ NEXT_BLKP(h, b) \in Int
                   /\ b < NEXT_BLKP(h, b) /\ SizeOf(h, b) \in Int /\ SizeOf(h, b) >= 8
  BY TagsAreWords
<1>4. /\ prev \in B /\ NEXT_BLKP(h, prev) = bp
      /\ \A b \in B : NEXT_BLKP(h, b) = bp => b = prev
  BY PreviousBlock
<1>5. s \in Int /\ s <= bp /\ e \in Int /\ bp < next /\ next <= e /\ s < e
  BY <1>2, <1>3, <1>4
<1>6. s + size \in B \cup {h.brk} /\ size > 0
  BY <1>2, <1>3
<1>7. /\ IsHeap(f) /\ f.brk = h.brk /\ f.search_ptr = h.search_ptr
      /\ DOMAIN f.mem = DOMAIN h.mem
      /\ Tiles(f, C)
      /\ f.mem[s - WSIZE] = PACK(size, 0)
      /\ \A b \in C : b # s => Kept(h, f, b)
  <2> HIDE DEF s, size
  <2> QED BY <1>2, <1>6, Retiled
<1> HIDE DEF f
<1>8. /\ IsHeap(g) /\ g.mem = f.mem /\ g.brk = f.brk
      /\ g.search_ptr = IF policy = "next" THEN s ELSE f.search_ptr
      /\ Tiles(g, C)
  BY <1>5, <1>7, SetSearchEffect
<1> HIDE DEF g
<1>9. \A b \in C : b # s => Kept(h, g, b)
  BY <1>7, <1>8 DEF Kept
<1>10. ASSUME NEW b \in C, b # s
       PROVE  (IsFree(g, b) <=> IsFree(h, b)) /\ NEXT_BLKP(g, b) = NEXT_BLKP(h, b)
  BY <1>9, <1>10, KeptTags
<1>11. SizeOf(g, s) = size /\ IsFree(g, s) /\ NEXT_BLKP(g, s) = e
  BY <1>7, <1>8 DEF SizeOf, IsFree, PACK, NEXT_BLKP
<1>12. s \in C
  BY <1>2, <1>5
<1> HIDE DEF s, e, size
<1>13. IsFree(h, s)
  BY <1>2
<1>14. ASSUME NEW b \in B, s < b, b < e PROVE IsFree(h, b)
  <2>1. b = bp \/ b = next \/ next < b
    <3>1. ASSUME b < bp PROVE FALSE
      <4>1. s = prev
        BY <1>2, <1>3, <1>4, <1>14, <3>1
      <4> QED BY <1>4, <1>14, <3>1, <4>1, <1>3 DEF Tiles
    <3>2. bp < b => next <= b
      BY DEF Tiles
    <3> QED BY <1>3, <1>5, <3>1, <3>2
  <2>2. CASE b = bp
    BY <2>2
  <2>3. CASE b = next
    BY <1>2, <1>14, <1>3, <2>3
  <2>4. CASE next < b
    <3>1. nextFree
      BY <1>2, <1>3, <1>14, <2>4
    <3>2. e <= b
      BY <1>2, <2>4, <3>1 DEF Tiles
    <3> QED BY <1>3, <1>5, <1>14, <3>2
  <2> QED BY <2>1, <2>2, <2>3, <2>4
<1>15. ASSUME NEW b \in Taken(h, B) PROVE b \in C /\ b # s
  <2>1. b \in B /\ b # s /\ ~IsFree(h, b)
    BY <1>13 DEF Taken
  <2> QED BY <1>3, <1>5, <1>14, <2>1
<1>16. Taken(g, C) = Taken(h, B)
  <2>1. ASSUME NEW b \in Taken(h, B) PROVE b \in Taken(g, C)
    BY <1>10, <1>15, <2>1 DEF Taken
  <2>2. ASSUME NEW b \in Taken(g, C) PROVE b \in Taken(h, B)
    BY <1>10, <1>11, <2>2 DEF Taken
  <2> QED BY <2>1, <2>2
<1>17. \A b \in Taken(h, B) : Kept(h, g, b)
  BY <1>9, <1>15
<1>18. Apart(g, C, NULL)
  <2> SUFFICES ASSUME NEW b \in C, NEXT_BLKP(g, b) \in C, IsFree(g, b), IsFree(g, NEXT_BLKP(g, b))
               PROVE  FALSE
    BY DEF Apart
  <2>1. CASE b = s
    <3>1. e \in B /\ IsFree(h, e)
      BY <1>5, <1>10, <1>11, <2>1
    <3>2. CASE nextFree
      <4>1. bp \in {next, e}
        BY <1>2, <3>1, <3>2 DEF Apart
      <4> QED BY <1>3, <1>5, <4>1
    <3>3. CASE ~nextFree
      BY <1>2, <3>1, <3>3
    <3> QED BY <3>2, <3>3
  <2>2. CASE b # s
    <3>1. NEXT_BLKP(g, b) = NEXT_BLKP(h, b) /\ IsFree(h, b) /\ b \in B /\ NEXT_BLKP(h, b) \in C
      BY <1>10, <2>2
    <3>2. CASE NEXT_BLKP(h, b) = s
      <4>1. CASE IsFree(h, prev)
        <5>1. bp \in {b, s}
          BY <1>2, <1>13, <3>1, <3>2, <4>1 DEF Apart
        <5>2. b < s /\ s < bp
          BY <1>2, <1>3, <1>4, <3>1, <3>2, <4>1
        <5> QED BY <1>3, <1>5, <5>1, <5>2
      <4>2. CASE ~IsFree(h, prev)
        <5>1. b = prev
          BY <1>2, <1>4, <3>1, <3>2, <4>2
        <5> QED BY <3>1, <4>2, <5>1
      <4> QED BY <4>1, <4>2
    <3>3. CASE NEXT_BLKP(h, b) # s
      <4>1. IsFree(h, NEXT_BLKP(h, b))
        BY <1>10, <3>1, <3>3
      <4>2. bp \in {b, NEXT_BLKP(h, b)}
        BY <3>1, <4>1 DEF Apart
      <4>3. bp \in C /\ bp # s
        BY <2>2, <3>1, <3>3, <4>2
      <4> QED BY <1>3, <1>5, <4>3
    <3> QED BY <3>2, <3>3
  <2> QED BY <2>1, <2>2
<1>19. /\ IsHeap(g) /\ g.brk = h.brk /\ DOMAIN g.mem = DOMAIN h.mem
       /\ SizeOf(g, s) >= SizeOf(h, bp)
       /\ g.search_ptr = IF policy = "next" THEN s ELSE h.search_ptr
  BY <1>2, <1>7, <1>8, <1>11
<1> HIDE DEF C
<1>20. /\ IsHeap(g) /\ g.brk = h.brk /\ DOMAIN g.mem = DOMAIN h.mem
       /\ Tiles(g, C) /\ Apart(g, C, NULL)
       /\ s \in C \ {heap_listp}
       /\ IsFree(g, s) /\ SizeOf(g, s) >= SizeOf(h, bp)
       /\ Taken(g, C) = Taken(h, B)
       /\ \A b \in Taken(h, B) : Kept(h, g, b)
       /\ g.search_ptr = IF policy = "next" THEN s ELSE h.search_ptr
  BY <1>2, <1>8, <1>11, <1>12, <1>16, <1>17, <1>18, <1>19
<1> HIDE DEF g
<1> QED BY <1>1, <1>20 DEF r

----------------------------------------------------------------------------
\* Walking over the blocks

\* The walk of Blocks, as an equation.
LEMMA BlocksWalk ==
    ASSUME NEW h, IsHeap(h)
    PROVE  \E walk :
              /\ walk = [bp \in Int |-> IF EndsAt(h, bp) THEN {} ELSE {bp} \cup walk[NEXT_BLKP(h, bp)]]
              /\ Blocks(h) = walk[heap_listp]
<1> DEFINE T == {bp \in Int : ~EndsAt(h, bp)}
           next == [bp \in T |-> NEXT_BLKP(h, bp)]
           Walks(w) == w = [bp \in Int |-> IF EndsAt(h, bp) THEN {} ELSE {bp} \cup w[NEXT_BLKP(h, bp)]]
<1>1. T \in SUBSET Int
  OBVIOUS
<1>2. \A bp \in T : NEXT_BLKP(h, bp) \in Int
  BY DEF IsHeap, EndsAt, NEXT_BLKP, SizeOf, Word, WSIZE
<1>3. next \in [T -> Int]
  BY <1>2
<1>4. PICK walk : IsWalk(walk, Int, T, next)
  <2> HIDE DEF T, next
  <2> QED BY <1>1, <1>3, WalkExists
<1>5. Walks(walk)
  <2>1. \A x \in Int : (IF x \in T THEN {x} \cup walk[next[x]] ELSE {})
                       = (IF EndsAt(h, x) THEN {} ELSE {x} \cup walk[NEXT_BLKP(h, x)])
    OBVIOUS
  <2> HIDE DEF T, next
  <2> QED BY <1>4, <2>1 DEF IsWalk
<1>6. Walks(CHOOSE w : Walks(w))
  <2> HIDE DEF Walks
  <2> QED BY <1>5
<1>7. Blocks(h) = (CHOOSE w : Walks(w))[heap_listp]
  BY DEF Blocks
<1> QED BY <1>6, <1>7

\* The loop of find_fit, as an equation.
LEMMA ScanWalk ==
    ASSUME NEW h, IsHeap(h), NEW start, NEW limit, NEW asize
    PROVE  \E scan :
              /\ scan = [bp \in Int |->
                            IF EndsAt(h, bp) \/ bp > limit THEN NULL
                            ELSE IF IsFree(h, bp) /\ asize <= SizeOf(h, bp) THEN bp
                            ELSE scan[NEXT_BLKP(h, bp)]]
              /\ Scan(h, start, limit, asize) = scan[start]
<1> DEFINE Stops(bp) == EndsAt(h, bp) \/ bp > limit
           Fits(bp) == IsFree(h, bp) /\ asize <= SizeOf(h, bp)
           T == {bp \in Int : ~Stops(bp) /\ ~Fits(bp)}
           next == [bp \in T |-> NEXT_BLKP(h, bp)]
           value == [bp \in Int |-> IF Stops(bp) THEN NULL ELSE bp]
           Scans(w) == w = [bp \in Int |-> IF Stops(bp) THEN NULL
                                           ELSE IF Fits(bp) THEN bp ELSE w[NEXT_BLKP(h, bp)]]
<1>1. T \in SUBSET Int
  OBVIOUS
<1>2. \A bp \in T : NEXT_BLKP(h, bp) \in Int
  BY DEF IsHeap, EndsAt, NEXT_BLKP, SizeOf, Word, WSIZE
<1>3. next \in [T -> Int] /\ value \in [Int -> Int]
  BY <1>2 DEF NULL
<1>4. PICK scan : IsSearch(scan, Int, T, next, value)
  <2> HIDE DEF T, next, value
  <2> QED BY <1>1, <1>3, SearchExists
<1>5. Scans(scan)
  <2>1. \A x \in Int : (IF x \in T THEN scan[next[x]] ELSE value[x])
                       = (IF Stops(x) THEN NULL ELSE IF Fits(x) THEN x ELSE scan[NEXT_BLKP(h, x)])
    OBVIOUS
  <2> HIDE DEF T, next, value, Stops, Fits
  <2> QED BY <1>4, <2>1 DEF IsSearch
<1>6. Scans(CHOOSE w : Scans(w))
  <2> HIDE DEF Scans
  <2> QED BY <1>5
<1>7. Scan(h, start, limit, asize) = (CHOOSE w : Scans(w))[start]
  BY DEF Scan
<1> QED BY <1>6, <1>7

\* A walk ends at the epilogue and nowhere before.
LEMMA WalkEnds ==
    ASSUME NEW h, IsHeap(h), NEW B, Tiles(h, B)
    PROVE  /\ EndsAt(h, h.brk)
           /\ \A b \in B : ~EndsAt(h, b)
           /\ IsFiniteSet(B \cup {h.brk}) /\ B \cup {h.brk} \in SUBSET Int
<1>1. EndsAt(h, h.brk)
  BY DEF Tiles, EndsAt, SizeOf, PACK
<1>2. \A b \in B : ~EndsAt(h, b)
  BY TagsAreWords DEF EndsAt
<1>3. B \cup {h.brk} \subseteq 0..h.brk
  BY TagsAreWords DEF heap_listp, WSIZE
<1>4. IsFiniteSet(0..h.brk)
  BY TagsAreWords, FS_Interval
<1>5. IsFiniteSet(B \cup {h.brk})
  BY <1>3, <1>4, FS_Subset
<1> QED BY <1>1, <1>2, <1>3, <1>5

\* The walk of Blocks meets the blocks of the tiling, all of them.
LEMMA BlocksAre ==
    ASSUME NEW h, IsHeap(h), NEW B, Tiles(h, B)
    PROVE  Blocks(h) = B
<1>1. PICK walk :
         /\ walk = [bp \in Int |-> IF EndsAt(h, bp) THEN {} ELSE {bp} \cup walk[NEXT_BLKP(h, bp)]]
         /\ Blocks(h) = walk[heap_listp]
  BY BlocksWalk
<1> DEFINE From(x) == {b \in B : x <= b}
           Bad == {x \in B \cup {h.brk} : walk[x] # From(x)}
<1>2. \A b \in B : /\ b \in Int /\ b < h.brk /\ heap_listp <= b /\ NEXT_BLKP(h, b) \in Int
                   /\ b < NEXT_BLKP(h, b) /\ NEXT_BLKP(h, b) \in B \cup {h.brk}
  BY TagsAreWords DEF Tiles, Tagged
<1>3. h.brk \in Int
  BY TagsAreWords
<1>4. walk[h.brk] = From(h.brk)
  <2>1. walk[h.brk] = {}
    BY <1>1, <1>3, WalkEnds
  <2>2. From(h.brk) = {}
    BY <1>2, <1>3
  <2> QED BY <2>1, <2>2
<1>5. ASSUME NEW x \in B, walk[NEXT_BLKP(h, x)] = From(NEXT_BLKP(h, x)) PROVE walk[x] = From(x)
  <2>1. walk[x] = {x} \cup From(NEXT_BLKP(h, x))
    BY <1>1, <1>2, <1>5, WalkEnds
  <2>2. \A b \in B : x <= b <=> b = x \/ NEXT_BLKP(h, x) <= b
    BY <1>2 DEF Tiles
  <2> QED BY <2>1, <2>2
<1>6. Bad = {}
  <2> SUFFICES ASSUME Bad # {} PROVE FALSE
    OBVIOUS
  <2>1. Bad \in SUBSET Int /\ IsFiniteSet(Bad)
    BY WalkEnds, FS_Subset
  <2>2. PICK x \in Bad : \A y \in Bad : y <= x
    <3> HIDE DEF Bad
    <3> QED BY <2>1, LargestExists
  <2>3. x \in B /\ walk[x] # From(x)
    BY <1>4
  <2>4. NEXT_BLKP(h, x) \notin Bad
    BY <1>2, <2>2, <2>3
  <2>5. walk[NEXT_BLKP(h, x)] = From(NEXT_BLKP(h, x))
    BY <1>2, <2>3, <2>4
  <2> QED BY <1>5, <2>3, <2>5
<1>7. heap_listp \in B
  BY DEF Tiles
<1>8. walk[heap_listp] = From(heap_listp)
  BY <1>6, <1>7
<1>9. From(heap_listp) = B
  BY <1>2
<1> QED BY <1>1, <1>8, <1>9

\* What the loop of find_fit finds: a free block that is large enough, or NULL
\* when there is none between start and limit.
LEMMA ScanFinds ==
    ASSUME NEW h, IsHeap(h), NEW B, Tiles(h, B), NEW start \in B \cup {h.brk},
           NEW limit \in Int, NEW asize \in Int
    PROVE  LET fit == Scan(h, start, limit, asize)
           IN  \/ fit \in B /\ IsFree(h, fit) /\ asize <= SizeOf(h, fit)
               \/ /\ fit = NULL
                  /\ \A b \in B : start <= b /\ b <= limit /\ IsFree(h, b) => SizeOf(h, b) < asize
<1>1. PICK scan :
         /\ scan = [bp \in Int |->
                       IF EndsAt(h, bp) \/ bp > limit THEN NULL
                       ELSE IF IsFree(h, bp) /\ asize <= SizeOf(h, bp) THEN bp
                       ELSE scan[NEXT_BLKP(h, bp)]]
         /\ Scan(h, start, limit, asize) = scan[start]
  BY ScanWalk
<1> DEFINE Found(fit) == fit \in B /\ IsFree(h, fit) /\ asize <= SizeOf(h, fit)
           None(x) == \A b \in B : x <= b /\ b <= limit /\ IsFree(h, b) => SizeOf(h, b) < asize
           Good(x) == Found(scan[x]) \/ (scan[x] = NULL /\ None(x))
           Bad == {x \in B \cup {h.brk} : ~Good(x)}
<1>2. \A b \in B : /\ b \in Int /\ b < h.brk /\ NEXT_BLKP(h, b) \in Int /\ SizeOf(h, b) \in Int
                   /\ b < NEXT_BLKP(h, b) /\ NEXT_BLKP(h, b) \in B \cup {h.brk}
                   /\ ~EndsAt(h, b)
  <2>1. \A b \in B : ~EndsAt(h, b)
    BY WalkEnds
  <2> QED BY <2>1, TagsAreWords DEF Tiles, Tagged
<1>3. h.brk \in Int
  BY TagsAreWords
<1>4. Good(h.brk)
  <2>1. scan[h.brk] = NULL
    BY <1>1, <1>3, WalkEnds
  <2> QED BY <1>2, <1>3, <2>1
<1>5. ASSUME NEW x \in B, Good(NEXT_BLKP(h, x)) PROVE Good(x)
  <2>1. CASE x > limit
    <3>1. scan[x] = NULL
      BY <1>1, <1>2, <2>1
    <3> QED BY <1>2, <2>1, <3>1
  <2>2. CASE x <= limit /\ IsFree(h, x) /\ asize <= SizeOf(h, x)
    <3>1. x \in Int /\ ~EndsAt(h, x) /\ ~(x > limit)
      BY <1>2, <2>2
    <3>2. scan[x] = x
      BY <1>1, <2>2, <3>1
    <3>3. Found(scan[x])
      BY <2>2, <3>2
    <3> HIDE DEF None, Found
    <3> QED BY <3>3
  <2>3. CASE x <= limit /\ ~(IsFree(h, x) /\ asize <= SizeOf(h, x))
    <3>1. scan[x] = scan[NEXT_BLKP(h, x)]
      <4>1. x \in Int /\ ~EndsAt(h, x) /\ ~(x > limit)
        BY <1>2, <2>3
      <4> QED BY <1>1, <2>3, <4>1
    <3>2. None(NEXT_BLKP(h, x)) => None(x)
      <4>1. \A b \in B : x <= b <=> b = x \/ NEXT_BLKP(h, x) <= b
        BY <1>2 DEF Tiles
      <4>2. IsFree(h, x) => SizeOf(h, x) < asize
        BY <1>2, <2>3
      <4> QED BY <4>1, <4>2
    <3> HIDE DEF None, Found
    <3> QED BY <1>5, <3>1, <3>2
  <2> QED BY <1>2, <2>1, <2>2, <2>3
<1>6. Bad = {}
  <2> SUFFICES ASSUME Bad # {} PROVE FALSE
    OBVIOUS
  <2>1. Bad \in SUBSET Int /\ IsFiniteSet(Bad)
    <3>1. Bad \subseteq B \cup {h.brk}
      OBVIOUS
    <3> HIDE DEF Bad
    <3> QED BY <3>1, WalkEnds, FS_Subset
  <2>2. PICK x \in Bad : \A y \in Bad : y <= x
    <3> HIDE DEF Bad
    <3> QED BY <2>1, LargestExists
  <2> HIDE DEF Good
  <2>3. x \in B /\ ~Good(x)
    BY <1>4
  <2>4. NEXT_BLKP(h, x) \notin Bad
    BY <1>2, <2>2, <2>3
  <2>5. Good(NEXT_BLKP(h, x))
    BY <1>2, <2>3, <2>4
  <2> QED BY <1>5, <2>3, <2>5
<1>7. Good(start)
  <2> HIDE DEF Good
  <2> QED BY <1>6
<1> QED BY <1>1, <1>7
=============================================================================
