------------------------- MODULE ImplicitListProofs -------------------------
(* Theorems about the two packages of module ImplicitList, and the lemmas   *)
(* that say what each of their routines does to a sound heap.               *)
EXTENDS HeapLemmas

LOCAL Sets == INSTANCE FiniteSetsExt

\* Between two calls: the blocks tile the heap, no two free ones touch, and
\* search_ptr is one of them (the first-fit file, which has none, leaves it at
\* the prologue).
Sound(h, B) ==
    /\ IsHeap(h) /\ Tiles(h, B) /\ Apart(h, B, NULL)
    /\ h.brk <= MaxHeap
    /\ h.search_ptr \in B
    /\ policy = "next" \/ h.search_ptr = heap_listp

\* All that is in the blocks S of h is in g.
AllKept(h, g, S) == \A b \in S : Kept(h, g, b)

----------------------------------------------------------------------------
\* Lemmas about heaps that keep blocks

\* What is kept in two steps is kept.
LEMMA KeptTwice ==
    ASSUME NEW h, IsHeap(h), NEW B, Tiles(h, B), NEW b \in B, NEW g, NEW k,
           DOMAIN h.mem \subseteq DOMAIN g.mem, Kept(h, g, b), Kept(g, k, b)
    PROVE  Kept(h, k, b)
<1>1. SizeOf(g, b) = SizeOf(h, b)
  BY KeptTags
<1> QED BY <1>1 DEF Kept

\* A heap with the tags of another has its blocks.
LEMMA SameTags ==
    ASSUME NEW h, IsHeap(h), NEW B, Tiles(h, B),
           NEW g, IsHeap(g), g.brk = h.brk,
           g.mem[h.brk - WSIZE] = h.mem[h.brk - WSIZE],
           \A b \in B : g.mem[b - WSIZE] = h.mem[b - WSIZE] /\ g.mem[FTRP(h, b)] = h.mem[FTRP(h, b)]
    PROVE  /\ Tiles(g, B)
           /\ Taken(g, B) = Taken(h, B)
           /\ \A bp : Apart(h, B, bp) => Apart(g, B, bp)
           /\ \A b \in B : SizeOf(g, b) = SizeOf(h, b) /\ NEXT_BLKP(g, b) = NEXT_BLKP(h, b)
<1>1. \A b \in B : /\ SizeOf(g, b) = SizeOf(h, b) /\ (IsFree(g, b) <=> IsFree(h, b))
                   /\ NEXT_BLKP(g, b) = NEXT_BLKP(h, b) /\ FTRP(g, b) = FTRP(h, b)
  BY DEF SizeOf, IsFree, NEXT_BLKP, FTRP
<1>2. heap_listp \in B /\ g.mem[heap_listp - WSIZE] = PACK(DSIZE, 1)
  BY DEF Tiles
<1>3. \A b \in B : Tagged(g, B, b)
  BY <1>1 DEF Tiles, Tagged
<1>4. g.mem[g.brk - WSIZE] = PACK(0, 1)
  BY DEF Tiles
<1>5. \A b, c \in B : b < c => NEXT_BLKP(g, b) <= c
  BY <1>1 DEF Tiles
<1>6. \A c \in B \cup {g.brk} : c # heap_listp => \E b \in B : NEXT_BLKP(g, b) = c
  BY <1>1 DEF Tiles
<1>7. Tiles(g, B)
  BY <1>2, <1>3, <1>4, <1>5, <1>6 DEF Tiles
<1>8. Taken(g, B) = Taken(h, B)
  BY <1>1 DEF Taken
<1>9. ASSUME NEW bp, Apart(h, B, bp) PROVE Apart(g, B, bp)
  BY <1>1, <1>9 DEF Apart
<1> QED BY <1>1, <1>7, <1>8, <1>9

\* No pointer to a block is NULL, and the prologue is taken.
LEMMA BlocksAreNotNull ==
    ASSUME NEW h, IsHeap(h), NEW B, Tiles(h, B)
    PROVE  NULL \notin B /\ heap_listp \in B /\ ~IsFree(h, heap_listp)
<1>1. NULL \notin B
  BY TagsAreWords DEF NULL, heap_listp, WSIZE
<1>2. ~IsFree(h, heap_listp)
  BY DEF Tiles, IsFree, PACK
<1> QED BY <1>1, <1>2 DEF Tiles

\* Where no free blocks touch, the blocks that other lemmas except need no care.
LEMMA ApartAnyway ==
    ASSUME NEW h, IsHeap(h), NEW B, Tiles(h, B), Apart(h, B, NULL)
    PROVE  \A b \in B : NEXT_BLKP(h, b) \in B /\ IsFree(h, b) => ~IsFree(h, NEXT_BLKP(h, b))
  BY BlocksAreNotNull DEF Apart

----------------------------------------------------------------------------
\* The routines

\* extend_heap leaves the heap alone, or adds a free block of at least the size
\* asked for, with the memory before the old end still in place.
LEMMA Extended ==
    ASSUME NEW h, IsHeap(h), NEW B, Tiles(h, B), Apart(h, B, NULL),
           NEW size \in Nat, size % 8 = 0, size > 0, size < WORD
    PROVE  LET r == extend_heap(h, size \div WSIZE)
           IN  \/ r = Failed(h)
               \/ \E C :
                    /\ IsHeap(r.heap) /\ Tiles(r.heap, C) /\ Apart(r.heap, C, NULL)
                    /\ r.heap.brk = h.brk + size /\ r.heap.brk <= MaxHeap
                    /\ DOMAIN h.mem \subseteq DOMAIN r.heap.mem
                    /\ r.bp \in C \ {heap_listp} /\ IsFree(r.heap, r.bp)
                    /\ SizeOf(r.heap, r.bp) >= size
                    /\ Taken(r.heap, C) = Taken(h, B) /\ AllKept(h, r.heap, Taken(h, B))
                    /\ r.heap.search_ptr = IF policy = "next" THEN r.bp ELSE h.search_ptr
<1> DEFINE words == size \div WSIZE
           r == extend_heap(h, words)
           bp == h.brk
           g == WithChunk(h, size)
           C == B \cup {bp}
<1>1. ((IF words % 2 = 1 THEN words + 1 ELSE words) * WSIZE) % WORD = size
  <2>1. size \div 4 \in Int /\ (size \div 4) * 4 = size /\ (size \div 4) % 2 # 1
    OBVIOUS
  <2>2. size % WORD = size
    BY ConstantsAssumption
  <2> QED BY <2>1, <2>2 DEF WSIZE
<1>2. CASE ~CanGrow(h, size)
  BY <1>1, <1>2 DEF extend_heap
<1>3. CASE CanGrow(h, size)
  <2>1. r = coalesce(g, bp)
    BY <1>1, <1>3 DEF extend_heap
  <2>2. /\ IsHeap(g) /\ g.brk = h.brk + size /\ g.search_ptr = h.search_ptr
        /\ DOMAIN h.mem \subseteq DOMAIN g.mem
        /\ Tiles(g, C) /\ bp \notin B
        /\ g.mem[bp - WSIZE] = PACK(size, 0)
        /\ \A b \in B : Kept(h, g, b)
    <3>1. size \in Int
      OBVIOUS
    <3> QED BY <3>1, ChunkTiled
  <2>3. SizeOf(g, bp) = size /\ IsFree(g, bp)
    BY <2>2 DEF SizeOf, IsFree, PACK
  <2> HIDE DEF g
  <2>4. \A b \in B : /\ SizeOf(g, b) = SizeOf(h, b) /\ (IsFree(g, b) <=> IsFree(h, b))
                     /\ NEXT_BLKP(g, b) = NEXT_BLKP(h, b)
    BY <2>2, KeptTags
  <2>5. bp # heap_listp
    BY <2>2 DEF Tiles
  <2>6. Apart(g, C, bp)
    BY <2>2, <2>4, ApartAnyway DEF Apart
  <2>7. Taken(g, C) = Taken(h, B)
    BY <2>2, <2>3, <2>4 DEF Taken
  <2> DEFINE k == r.heap
  <2> HIDE DEF r, C
  <2>8. PICK D :
        /\ IsHeap(k) /\ k.brk = g.brk
        /\ DOMAIN k.mem = DOMAIN g.mem
        /\ Tiles(k, D) /\ Apart(k, D, NULL)
        /\ r.bp \in D \ {heap_listp}
        /\ IsFree(k, r.bp) /\ SizeOf(k, r.bp) >= SizeOf(g, bp)
        /\ Taken(k, D) = Taken(g, C)
        /\ \A b \in Taken(g, C) : Kept(g, k, b)
        /\ k.search_ptr = IF policy = "next" THEN r.bp ELSE g.search_ptr
    <3>1. bp \in C
      BY DEF C
    <3> QED BY <2>1, <2>2, <2>3, <2>5, <2>6, <3>1, Coalesced
  <2>9. h.brk + size <= MaxHeap
    BY <1>3 DEF CanGrow
  <2>10. AllKept(h, k, Taken(h, B))
    BY <2>2, <2>7, <2>8, KeptTwice DEF AllKept, Taken
  <2>11. /\ IsHeap(k) /\ Tiles(k, D) /\ Apart(k, D, NULL)
         /\ k.brk = h.brk + size /\ k.brk <= MaxHeap
         /\ DOMAIN h.mem \subseteq DOMAIN k.mem
         /\ r.bp \in D \ {heap_listp} /\ IsFree(k, r.bp)
         /\ SizeOf(k, r.bp) >= size
         /\ Taken(k, D) = Taken(h, B)
         /\ k.search_ptr = IF policy = "next" THEN r.bp ELSE h.search_ptr
    BY <2>2, <2>3, <2>7, <2>8, <2>9
  <2> QED BY <2>10, <2>11 DEF r
<1> QED BY <1>2, <1>3

\* find_fit returns a free block that is large enough, or NULL when there is
\* none: the next-fit search, in its two parts, looks at every block.
LEMMA FitFound ==
    ASSUME NEW h, NEW B, Sound(h, B), NEW asize \in Int
    PROVE  LET fit == find_fit(h, asize)
           IN  \/ fit \in B \ {heap_listp} /\ IsFree(h, fit) /\ asize <= SizeOf(h, fit)
               \/ /\ fit = NULL
                  /\ \A b \in B : IsFree(h, b) => SizeOf(h, b) < asize
<1> DEFINE fit == find_fit(h, asize)
           first == Scan(h, heap_listp, h.brk, asize)
           ahead == Scan(h, NEXT_BLKP(h, h.search_ptr), h.brk, asize)
           behind == Scan(h, NEXT_BLKP(h, heap_listp), h.search_ptr, asize)
           Fits(b) == b \in B \ {heap_listp} /\ IsFree(h, b) /\ asize <= SizeOf(h, b)
           NoneBetween(x, y) == \A b \in B : x <= b /\ b <= y /\ IsFree(h, b) => SizeOf(h, b) < asize
<1>1. IsHeap(h) /\ Tiles(h, B) /\ h.search_ptr \in B
  BY DEF Sound
<1>2. NULL \notin B /\ heap_listp \in B /\ ~IsFree(h, heap_listp)
  BY <1>1, BlocksAreNotNull
<1>3. h.brk \in Int /\ \A b \in B : b \in Int /\ heap_listp <= b /\ b <= h.brk
  BY <1>1, TagsAreWords
<1>4. \A b \in B : NEXT_BLKP(h, b) \in B \cup {h.brk}
  BY <1>1 DEF Tiles, Tagged
<1>5. \A b, c \in B : b < c => NEXT_BLKP(h, b) <= c
  BY <1>1 DEF Tiles
<1>6. Fits(first) \/ (first = NULL /\ NoneBetween(heap_listp, h.brk))
  BY <1>1, <1>2, <1>3, ScanFinds
<1>7. Fits(ahead) \/ (ahead = NULL /\ NoneBetween(NEXT_BLKP(h, h.search_ptr), h.brk))
  BY <1>1, <1>2, <1>3, <1>4, ScanFinds
<1>8. Fits(behind) \/ (behind = NULL /\ NoneBetween(NEXT_BLKP(h, heap_listp), h.search_ptr))
  BY <1>1, <1>2, <1>3, <1>4, ScanFinds
<1> HIDE DEF first, ahead, behind
<1>9. fit = IF policy = "first" THEN first ELSE IF ahead # NULL THEN ahead ELSE behind
  BY DEF find_fit, first, ahead, behind
<1> HIDE DEF fit
<1>10. NoneBetween(heap_listp, h.brk) => \A b \in B : IsFree(h, b) => SizeOf(h, b) < asize
  BY <1>3
<1>11. /\ NoneBetween(NEXT_BLKP(h, h.search_ptr), h.brk)
       /\ NoneBetween(NEXT_BLKP(h, heap_listp), h.search_ptr)
       => \A b \in B : IsFree(h, b) => SizeOf(h, b) < asize
  <2> SUFFICES ASSUME NoneBetween(NEXT_BLKP(h, h.search_ptr), h.brk),
                      NoneBetween(NEXT_BLKP(h, heap_listp), h.search_ptr),
                      NEW b \in B, IsFree(h, b)
               PROVE  SizeOf(h, b) < asize
    OBVIOUS
  <2>1. b # heap_listp
    BY <1>2
  <2>2. CASE b <= h.search_ptr
    BY <1>2, <1>3, <1>5, <2>1, <2>2
  <2>3. CASE h.search_ptr < b
    BY <1>1, <1>3, <1>5, <2>3
  <2> QED BY <1>1, <1>3, <2>2, <2>3
<1>12. \A b : Fits(b) => b # NULL
  BY <1>2
<1>13. Fits(fit) \/ (fit = NULL /\ \A b \in B : IsFree(h, b) => SizeOf(h, b) < asize)
  <2> HIDE DEF Fits, NoneBetween
  <2> QED BY <1>6, <1>7, <1>8, <1>9, <1>10, <1>11, <1>12
<1> QED BY <1>13 DEF fit

\* The block size for a request that is no closer than 15 to the largest size_t
\* has room for it and for the tags, and is a multiple of 8.
LEMMA AdjustedSizeFits ==
    ASSUME NEW size \in Nat, size + 15 < WORD
    PROVE  LET asize == AdjustedSize(size)
           IN  /\ asize \in Nat /\ asize % 8 = 0 /\ asize >= 16 /\ asize < WORD
               /\ asize >= size + DSIZE
<1>1. CASE size <= DSIZE
  <2>1. AdjustedSize(size) = 16
    BY <1>1 DEF AdjustedSize, DSIZE
  <2> QED BY <1>1, <2>1, ConstantsAssumption DEF DSIZE
<1>2. CASE ~(size <= DSIZE)
  <2>1. size > 8
    BY <1>2 DEF DSIZE
  <2>2. (size + 15) % WORD = size + 15
    BY ConstantsAssumption
  <2>3. AdjustedSize(size) = 8 * ((size + 15) \div 8)
    BY <1>2, <2>2 DEF AdjustedSize, DSIZE
  <2>4. /\ 8 * ((size + 15) \div 8) \in Nat /\ (8 * ((size + 15) \div 8)) % 8 = 0
        /\ 8 * ((size + 15) \div 8) >= size + 8 /\ 8 * ((size + 15) \div 8) <= size + 15
    OBVIOUS
  <2> HIDE DEF AdjustedSize
  <2> QED BY <2>1, <2>3, <2>4, ConstantsAssumption DEF DSIZE
<1> QED BY <1>1, <1>2

\* place turns a free block into an allocated one and, if what is left is large
\* enough, a free one.
LEMMA Placed ==
    ASSUME NEW h, IsHeap(h), NEW B, Tiles(h, B), Apart(h, B, NULL),
           NEW s \in B \ {heap_listp}, IsFree(h, s),
           NEW asize \in Nat, asize % 8 = 0, asize >= 16, asize <= SizeOf(h, s)
    PROVE  LET g == place(h, s, asize)
           IN  \E C :
                 /\ IsHeap(g) /\ g.brk = h.brk /\ g.search_ptr = h.search_ptr
                 /\ DOMAIN g.mem = DOMAIN h.mem
                 /\ Tiles(g, C) /\ Apart(g, C, NULL) /\ B \subseteq C
                 /\ SizeOf(g, s) >= asize
                 /\ Taken(g, C) = Taken(h, B) \cup {s} /\ AllKept(h, g, Taken(h, B))
<1> DEFINE g == place(h, s, asize)
           next == NEXT_BLKP(h, s)
           r == s + asize
<1>1. \A b \in B : /\ b \in Int /\ SizeOf(h, b) \in Int /\ NEXT_BLKP(h, b) \in Int
                   /\ b < NEXT_BLKP(h, b) /\ NEXT_BLKP(h, b) \in B \cup {h.brk}
  BY TagsAreWords DEF Tiles, Tagged
<1>2. \A b \in B : NEXT_BLKP(h, b) \in B /\ IsFree(h, b) => ~IsFree(h, NEXT_BLKP(h, b))
  BY ApartAnyway
<1>3. s \notin Taken(h, B)
  BY DEF Taken
<1>4. CASE SizeOf(h, s) - asize >= 2 * DSIZE
  <2>1. g = Split(h, s, asize)
    BY <1>4 DEF place
  <2> HIDE DEF g
  <2>2. /\ IsHeap(g) /\ g.brk = h.brk /\ g.search_ptr = h.search_ptr
        /\ DOMAIN g.mem = DOMAIN h.mem
        /\ Tiles(g, B \cup {r}) /\ r \notin B
        /\ g.mem[s - WSIZE] = PACK(asize, 1)
        /\ g.mem[r - WSIZE] = PACK(SizeOf(h, s) - asize, 0)
        /\ \A b \in B : b # s => Kept(h, g, b)
    <3>1. asize \in Int /\ asize > 0 /\ asize < SizeOf(h, s)
      BY <1>1, <1>4 DEF DSIZE
    <3> DEFINE f == Split(h, s, asize)
    <3>2. /\ IsHeap(f) /\ f.brk = h.brk /\ f.search_ptr = h.search_ptr
          /\ DOMAIN f.mem = DOMAIN h.mem
          /\ Tiles(f, B \cup {r}) /\ r \notin B
          /\ f.mem[s - WSIZE] = PACK(asize, 1)
          /\ f.mem[r - WSIZE] = PACK(SizeOf(h, s) - asize, 0)
          /\ \A b \in B : b # s => Kept(h, f, b)
      BY <3>1, SplitTiled
    <3> HIDE DEF f
    <3> QED BY <2>1, <3>2 DEF f
  <2>3. SizeOf(g, s) = asize /\ ~IsFree(g, s) /\ NEXT_BLKP(g, s) = r
    BY <2>2 DEF SizeOf, IsFree, NEXT_BLKP, PACK
  <2>4. IsFree(g, r) /\ NEXT_BLKP(g, r) = next
    <3>1. SizeOf(g, r) = SizeOf(h, s) - asize /\ IsFree(g, r)
      BY <2>2 DEF SizeOf, IsFree, PACK
    <3> QED BY <1>1, <3>1 DEF NEXT_BLKP
  <2>5. \A b \in B : b # s => /\ (IsFree(g, b) <=> IsFree(h, b))
                              /\ NEXT_BLKP(g, b) = NEXT_BLKP(h, b)
    BY <2>2, KeptTags
  <2>6. r # heap_listp
    BY <2>2 DEF Tiles
  <2>7. Taken(g, B \cup {r}) = Taken(h, B) \cup {s}
    BY <2>2, <2>3, <2>4, <2>5, <2>6 DEF Taken
  <2>8. Apart(g, B \cup {r}, NULL)
    <3> SUFFICES ASSUME NEW b \in B \cup {r}, NEXT_BLKP(g, b) \in B \cup {r},
                        IsFree(g, b), IsFree(g, NEXT_BLKP(g, b))
                 PROVE  FALSE
      BY DEF Apart
    <3>1. CASE b = r
      <4>1. next \in B /\ next # s /\ IsFree(h, next)
        <5>1. next \in B \cup {r} /\ next # r /\ next # s
          BY <1>1, <1>4, <2>2, <2>4, <3>1 DEF NEXT_BLKP, DSIZE
        <5> QED BY <2>4, <2>5, <3>1, <5>1
      <4> QED BY <1>2, <4>1
    <3>2. CASE b # r
      <4>1. b \in B /\ b # s /\ IsFree(h, b) /\ NEXT_BLKP(g, b) = NEXT_BLKP(h, b)
        BY <2>3, <2>5, <3>2
      <4>2. NEXT_BLKP(h, b) # r
        BY <1>1, <2>2, <4>1, TagsAreWords
      <4> QED BY <1>2, <2>3, <2>5, <4>1, <4>2
    <3> QED BY <3>1, <3>2
  <2>9. AllKept(h, g, Taken(h, B))
    BY <2>2, <1>3 DEF AllKept, Taken
  <2>10. SizeOf(g, s) >= asize /\ B \subseteq B \cup {r}
    BY <2>3
  <2> HIDE DEF r
  <2> QED BY <2>2, <2>7, <2>8, <2>9, <2>10 DEF g
<1>5. CASE ~(SizeOf(h, s) - asize >= 2 * DSIZE)
  <2>1. g = PutBlock(h, s, SizeOf(h, s), 1)
    BY <1>5 DEF place
  <2> HIDE DEF g
  <2> DEFINE size == SizeOf(h, s)
             C == {b \in B : b <= s \/ s + size <= b}
  <2>2. s + size = next
    BY DEF NEXT_BLKP
  <2>3. C = B
    BY <1>1, <2>2 DEF Tiles
  <2>4. size \in Int /\ size > 0 /\ s + size \in B \cup {h.brk}
    BY <1>1, <2>2, TagsAreWords
  <2>5. /\ IsHeap(g) /\ g.brk = h.brk /\ g.search_ptr = h.search_ptr
        /\ DOMAIN g.mem = DOMAIN h.mem
        /\ Tiles(g, B)
        /\ g.mem[s - WSIZE] = PACK(size, 1)
        /\ \A b \in B : b # s => Kept(h, g, b)
    <3>1. /\ IsHeap(g) /\ g.brk = h.brk /\ g.search_ptr = h.search_ptr
          /\ DOMAIN g.mem = DOMAIN h.mem
          /\ Tiles(g, C)
          /\ g.mem[s - WSIZE] = PACK(size, 1)
          /\ \A b \in C : b # s => Kept(h, g, b)
      <4>1. g = PutBlock(h, s, size, 1)
        BY <2>1
      <4> HIDE DEF size
      <4> QED BY <2>4, <4>1, Retiled
    <3> HIDE DEF C
    <3> QED BY <2>3, <3>1
  <2>6. SizeOf(g, s) = size /\ ~IsFree(g, s)
    BY <2>5 DEF SizeOf, IsFree, PACK
  <2>7. \A b \in B : b # s => /\ (IsFree(g, b) <=> IsFree(h, b))
                              /\ NEXT_BLKP(g, b) = NEXT_BLKP(h, b)
    BY <2>5, KeptTags
  <2>8. Taken(g, B) = Taken(h, B) \cup {s}
    BY <2>6, <2>7 DEF Taken
  <2>9. Apart(g, B, NULL)
    BY <1>2, <2>6, <2>7 DEF Apart
  <2>10. AllKept(h, g, Taken(h, B))
    BY <2>5, <1>3 DEF AllKept, Taken
  <2>11. SizeOf(g, s) >= asize /\ B \subseteq B
    BY <1>1, <2>6
  <2> HIDE DEF size
  <2> QED BY <2>5, <2>8, <2>9, <2>10, <2>11 DEF g
<1> QED BY <1>4, <1>5

\* What a package has done to h with blocks B when it is left with r.heap and
\* blocks C, and r.bp is allocated with room for size bytes: everything that was
\* allocated is still there.
Allocated(h, B, size, r, C) ==
    /\ Sound(r.heap, C)
    /\ r.bp \in C /\ r.bp \notin Taken(h, B)
    /\ SizeOf(r.heap, r.bp) >= size + DSIZE
    /\ Taken(r.heap, C) = Taken(h, B) \cup {r.bp}
    /\ AllKept(h, r.heap, Taken(h, B))
    /\ DOMAIN h.mem \subseteq DOMAIN r.heap.mem /\ h.brk <= r.heap.brk

\* A block of a sound heap, once allocated, is what mm_malloc returns.
LEMMA PlacedAndSearched ==
    ASSUME NEW h, IsHeap(h), NEW B, Tiles(h, B), Apart(h, B, NULL),
           h.brk <= MaxHeap, policy = "next" \/ h.search_ptr = heap_listp,
           NEW s \in B \ {heap_listp}, IsFree(h, s),
           NEW asize \in Nat, asize % 8 = 0, asize >= 16, asize <= SizeOf(h, s)
    PROVE  LET g == SetSearch(place(h, s, asize), s)
           IN  \E C :
                 /\ Sound(g, C) /\ s \in C
                 /\ SizeOf(g, s) >= asize
                 /\ Taken(g, C) = Taken(h, B) \cup {s} /\ AllKept(h, g, Taken(h, B))
                 /\ DOMAIN g.mem = DOMAIN h.mem /\ g.brk = h.brk
<1> DEFINE f == place(h, s, asize)
           g == SetSearch(f, s)
<1>1. PICK C :
         /\ IsHeap(f) /\ f.brk = h.brk /\ f.search_ptr = h.search_ptr
         /\ DOMAIN f.mem = DOMAIN h.mem
         /\ Tiles(f, C) /\ Apart(f, C, NULL) /\ B \subseteq C
         /\ SizeOf(f, s) >= asize
         /\ Taken(f, C) = Taken(h, B) \cup {s} /\ AllKept(h, f, Taken(h, B))
  BY Placed
<1> HIDE DEF f
<1>2. s \in Int
  BY TagsAreWords
<1>3. /\ IsHeap(g) /\ g.mem = f.mem /\ g.brk = f.brk
      /\ g.search_ptr = IF policy = "next" THEN s ELSE f.search_ptr
      /\ Tiles(g, C) /\ SizeOf(g, s) = SizeOf(f, s)
  BY <1>1, <1>2, SetSearchEffect
<1> HIDE DEF g
<1>4. /\ Apart(g, C, NULL) /\ Taken(g, C) = Taken(f, C)
      /\ AllKept(h, g, Taken(h, B))
  BY <1>1, <1>3 DEF Apart, Taken, AllKept, Kept, IsFree, NEXT_BLKP, SizeOf
<1>5. g.search_ptr \in C /\ (policy = "next" \/ g.search_ptr = heap_listp)
  BY <1>1, <1>3 DEF Tiles
<1>6. Sound(g, C)
  BY <1>1, <1>3, <1>4, <1>5 DEF Sound
<1> QED BY <1>1, <1>3, <1>4, <1>6 DEF g, f

\* mm_malloc fails and leaves the heap alone, or returns a new block.  It makes
\* the heap longer only when no free block is large enough.
LEMMA MallocEffect ==
    ASSUME NEW h, NEW B, Sound(h, B), NEW size \in Nat, size + 15 < WORD
    PROVE  LET r == mm_malloc(h, size)
           IN  \/ r = Failed(h)
               \/ /\ \E C : Allocated(h, B, size, r, C)
                  /\ r.heap.brk # h.brk =>
                        \A b \in B : IsFree(h, b) => SizeOf(h, b) < AdjustedSize(size)
<1> DEFINE r == mm_malloc(h, size)
           asize == AdjustedSize(size)
           fit == find_fit(h, asize)
           more == IF asize > CHUNKSIZE THEN asize ELSE CHUNKSIZE
           grown == extend_heap(h, more \div WSIZE)
           Done(g, bp) == [heap |-> SetSearch(place(g, bp, asize), bp), bp |-> bp]
<1>1. r = IF size = 0 THEN Failed(h)
          ELSE IF fit # NULL THEN Done(h, fit)
          ELSE IF grown.bp = NULL THEN Failed(h)
          ELSE Done(grown.heap, grown.bp)
  BY DEF mm_malloc
<1>2. /\ asize \in Nat /\ asize % 8 = 0 /\ asize >= 16 /\ asize < WORD
      /\ asize >= size + DSIZE
  BY AdjustedSizeFits
<1>3. more \in Nat /\ more % 8 = 0 /\ more > 0 /\ more < WORD /\ more >= asize
  BY <1>2, ConstantsAssumption
<1>4. /\ IsHeap(h) /\ Tiles(h, B) /\ Apart(h, B, NULL) /\ h.brk <= MaxHeap
      /\ policy = "next" \/ h.search_ptr = heap_listp
  BY DEF Sound
<1>5. \/ fit \in B \ {heap_listp} /\ IsFree(h, fit) /\ asize <= SizeOf(h, fit)
      \/ /\ fit = NULL
         /\ \A b \in B : IsFree(h, b) => SizeOf(h, b) < asize
  BY <1>2, FitFound
<1> HIDE DEF r, asize, fit
<1>6. CASE size = 0
  BY <1>1, <1>6 DEF r
<1>7. CASE size # 0 /\ fit # NULL
  <2>1. fit \in B \ {heap_listp} /\ IsFree(h, fit) /\ asize <= SizeOf(h, fit)
    BY <1>5, <1>7
  <2> DEFINE g == SetSearch(place(h, fit, asize), fit)
  <2>2. PICK C :
          /\ Sound(g, C) /\ fit \in C
          /\ SizeOf(g, fit) >= asize
          /\ Taken(g, C) = Taken(h, B) \cup {fit} /\ AllKept(h, g, Taken(h, B))
          /\ DOMAIN g.mem = DOMAIN h.mem /\ g.brk = h.brk
    BY <1>2, <1>4, <2>1, PlacedAndSearched
  <2>3. r = [heap |-> g, bp |-> fit]
    BY <1>1, <1>7
  <2> HIDE DEF g
  <2>4. r.heap = g /\ r.bp = fit
    BY <2>3
  <2>5. fit \notin Taken(h, B)
    BY <2>1 DEF Taken
  <2>6. SizeOf(g, fit) >= size + DSIZE
    <3>1. SizeOf(g, fit) \in Int
      BY <2>2, TagsAreWords DEF Sound
    <3> QED BY <1>2, <2>2, <3>1 DEF DSIZE
  <2>7. h.brk <= g.brk
    BY <1>4, <2>2, TagsAreWords
  <2>8. Allocated(h, B, size, r, C)
    BY <2>2, <2>4, <2>5, <2>6, <2>7 DEF Allocated
  <2> QED BY <2>2, <2>4, <2>8 DEF r
<1>8. CASE size # 0 /\ fit = NULL /\ grown = Failed(h)
  BY <1>1, <1>8 DEF r, Failed
<1>9. CASE size # 0 /\ fit = NULL /\ grown # Failed(h)
  <2> DEFINE k == grown.heap
             s == grown.bp
             g == SetSearch(place(k, s, asize), s)
  <2> HIDE DEF grown
  <2>1. PICK D :
          /\ IsHeap(k) /\ Tiles(k, D) /\ Apart(k, D, NULL)
          /\ k.brk = h.brk + more /\ k.brk <= MaxHeap
          /\ DOMAIN h.mem \subseteq DOMAIN k.mem
          /\ s \in D \ {heap_listp} /\ IsFree(k, s)
          /\ SizeOf(k, s) >= more
          /\ Taken(k, D) = Taken(h, B) /\ AllKept(h, k, Taken(h, B))
          /\ k.search_ptr = IF policy = "next" THEN s ELSE h.search_ptr
    <3> HIDE DEF more
    <3> QED BY <1>3, <1>4, <1>9, Extended DEF grown
  <2> HIDE DEF k, s
  <2>2. asize <= SizeOf(k, s)
    <3>1. SizeOf(k, s) \in Int
      BY <2>1, TagsAreWords
    <3> HIDE DEF more
    <3> QED BY <1>2, <1>3, <2>1, <3>1
  <2>3. policy = "next" \/ k.search_ptr = heap_listp
    BY <1>4, <2>1
  <2>4. PICK C :
          /\ Sound(g, C) /\ s \in C
          /\ SizeOf(g, s) >= asize
          /\ Taken(g, C) = Taken(k, D) \cup {s} /\ AllKept(k, g, Taken(k, D))
          /\ DOMAIN g.mem = DOMAIN k.mem /\ g.brk = k.brk
    BY <1>2, <2>1, <2>2, <2>3, PlacedAndSearched
  <2>5. s # NULL
    BY <2>1, BlocksAreNotNull
  <2>6. r = [heap |-> g, bp |-> s]
    BY <1>1, <1>9, <2>5 DEF k, s
  <2> HIDE DEF g
  <2>7. r.heap = g /\ r.bp = s
    BY <2>6
  <2>8. s \notin Taken(h, B)
    BY <2>1 DEF Taken
  <2>9. SizeOf(g, s) >= size + DSIZE
    <3>1. SizeOf(g, s) \in Int
      BY <2>4, TagsAreWords DEF Sound
    <3> QED BY <1>2, <2>4, <3>1 DEF DSIZE
  <2>10. AllKept(h, g, Taken(h, B))
    BY <1>4, <2>1, <2>4, KeptTwice DEF AllKept, Taken
  <2>11. h.brk <= g.brk
    BY <1>3, <1>4, <2>1, <2>4, TagsAreWords
  <2>12. Allocated(h, B, size, r, C)
    BY <2>1, <2>4, <2>7, <2>8, <2>9, <2>10, <2>11 DEF Allocated
  <2>13. \A b \in B : IsFree(h, b) => SizeOf(h, b) < asize
    BY <1>5, <1>9, BlocksAreNotNull, <1>4
  <2> QED BY <2>12, <2>13 DEF r, asize
<1> QED BY <1>6, <1>7, <1>8, <1>9

\* mm_free of an allocated block: it is no longer allocated, all others are as
\* they were.
LEMMA FreeEffect ==
    ASSUME NEW h, NEW B, Sound(h, B), NEW bp \in Taken(h, B)
    PROVE  LET g == mm_free(h, bp)
           IN  \E C :
                 /\ Sound(g, C)
                 /\ Taken(g, C) = Taken(h, B) \ {bp}
                 /\ AllKept(h, g, Taken(h, B) \ {bp})
                 /\ DOMAIN g.mem = DOMAIN h.mem /\ g.brk = h.brk
<1> DEFINE size == SizeOf(h, bp)
           D == {b \in B : b <= bp \/ bp + size <= b}
           f == PutBlock(h, bp, size, 0)
           r == coalesce(f, bp)
           g == mm_free(h, bp)
<1>1. /\ IsHeap(h) /\ Tiles(h, B) /\ Apart(h, B, NULL) /\ h.brk <= MaxHeap
      /\ policy = "next" \/ h.search_ptr = heap_listp
  BY DEF Sound
<1>2. bp \in B \ {heap_listp}
  BY DEF Taken
<1>3. \A b \in B : /\ b \in Int /\ SizeOf(h, b) \in Int /\ SizeOf(h, b) >= 8
                   /\ NEXT_BLKP(h, b) \in Int
                   /\ b < NEXT_BLKP(h, b) /\ NEXT_BLKP(h, b) \in B \cup {h.brk}
  BY <1>1, TagsAreWords DEF Tiles, Tagged
<1>4. bp + size = NEXT_BLKP(h, bp)
  BY DEF NEXT_BLKP
<1>5. D = B
  BY <1>1, <1>2, <1>3, <1>4 DEF Tiles
<1>6. size \in Int /\ size > 0 /\ bp + size \in B \cup {h.brk}
  BY <1>2, <1>3, <1>4
<1>7. /\ IsHeap(f) /\ f.brk = h.brk /\ f.search_ptr = h.search_ptr
      /\ DOMAIN f.mem = DOMAIN h.mem
      /\ Tiles(f, D)
      /\ f.mem[bp - WSIZE] = PACK(size, 0)
      /\ \A b \in D : b # bp => Kept(h, f, b)
  <2> HIDE DEF size
  <2> QED BY <1>1, <1>2, <1>6, Retiled
<1>8. g = r.heap
  BY DEF mm_free
<1> HIDE DEF f, D, g
<1>9. IsFree(f, bp) /\ SizeOf(f, bp) = size
  BY <1>7 DEF IsFree, SizeOf, PACK
<1>10. \A b \in B : b # bp => /\ (IsFree(f, b) <=> IsFree(h, b))
                              /\ NEXT_BLKP(f, b) = NEXT_BLKP(h, b)
  BY <1>1, <1>5, <1>7, KeptTags
<1>11. Apart(f, B, bp)
  BY <1>1, <1>10, ApartAnyway DEF Apart
<1>12. Taken(f, B) = Taken(h, B) \ {bp}
  BY <1>9, <1>10 DEF Taken
<1>13. PICK C :
         /\ IsHeap(r.heap) /\ r.heap.brk = f.brk
         /\ DOMAIN r.heap.mem = DOMAIN f.mem
         /\ Tiles(r.heap, C) /\ Apart(r.heap, C, NULL)
         /\ r.bp \in C \ {heap_listp}
         /\ Taken(r.heap, C) = Taken(f, B)
         /\ \A b \in Taken(f, B) : Kept(f, r.heap, b)
         /\ r.heap.search_ptr = IF policy = "next" THEN r.bp ELSE f.search_ptr
  BY <1>2, <1>5, <1>7, <1>9, <1>11, Coalesced
<1> HIDE DEF r
<1>14. r.heap.search_ptr \in C /\ (policy = "next" \/ r.heap.search_ptr = heap_listp)
  BY <1>1, <1>7, <1>13 DEF Tiles
<1>15. Sound(r.heap, C)
  BY <1>1, <1>7, <1>13, <1>14 DEF Sound
<1>16. AllKept(h, r.heap, Taken(h, B) \ {bp})
  BY <1>1, <1>5, <1>7, <1>12, <1>13, KeptTwice DEF AllKept, Taken
<1> QED BY <1>7, <1>8, <1>12, <1>13, <1>15, <1>16 DEF g

----------------------------------------------------------------------------
\* The client, and what the model forgets

\* The memory of h becomes mem, but for the tags.
LEMMA Rewritten ==
    ASSUME NEW h, NEW B, Sound(h, B), NEW mem \in [DOMAIN h.mem -> Word],
           mem[h.brk - WSIZE] = h.mem[h.brk - WSIZE],
           \A b \in B : mem[b - WSIZE] = h.mem[b - WSIZE] /\ mem[FTRP(h, b)] = h.mem[FTRP(h, b)]
    PROVE  LET g == [h EXCEPT !.mem = mem]
           IN  /\ Sound(g, B) /\ Taken(g, B) = Taken(h, B)
               /\ g.mem = mem /\ g.brk = h.brk /\ g.search_ptr = h.search_ptr
               /\ \A b \in B : SizeOf(g, b) = SizeOf(h, b) /\ NEXT_BLKP(g, b) = NEXT_BLKP(h, b)
<1> DEFINE g == [h EXCEPT !.mem = mem]
<1>1. /\ IsHeap(h) /\ Tiles(h, B) /\ Apart(h, B, NULL) /\ h.brk <= MaxHeap
      /\ h.search_ptr \in B /\ (policy = "next" \/ h.search_ptr = heap_listp)
  BY DEF Sound
<1>2. g = [mem |-> mem, brk |-> h.brk, search_ptr |-> h.search_ptr]
  BY <1>1, MemChanged
<1> HIDE DEF g
<1>3. g.mem = mem /\ g.brk = h.brk /\ g.search_ptr = h.search_ptr
  BY <1>2
<1>4. IsHeap(g)
  BY <1>1, <1>2, <1>3 DEF IsHeap
<1>5. /\ Tiles(g, B) /\ Taken(g, B) = Taken(h, B) /\ Apart(g, B, NULL)
      /\ \A b \in B : SizeOf(g, b) = SizeOf(h, b) /\ NEXT_BLKP(g, b) = NEXT_BLKP(h, b)
  BY <1>1, <1>3, <1>4, SameTags
<1>6. Sound(g, B)
  BY <1>1, <1>3, <1>4, <1>5 DEF Sound
<1> QED BY <1>3, <1>5, <1>6 DEF g

\* The words of a block between its header and its footer are nobody's tags.
LEMMA PayloadIsNoTag ==
    ASSUME NEW h, IsHeap(h), NEW B, Tiles(h, B), NEW s \in B,
           NEW a \in Int, s <= a, a + DSIZE < NEXT_BLKP(h, s)
    PROVE  /\ a # h.brk - WSIZE
           /\ \A b \in B : a # b - WSIZE /\ a # FTRP(h, b)
<1>1. \A b \in B : b \in Int /\ NEXT_BLKP(h, b) \in Int /\ b + 8 <= NEXT_BLKP(h, b)
  BY TagsAreWords DEF NEXT_BLKP
<1>2. h.brk \in Int /\ NEXT_BLKP(h, s) <= h.brk
  BY TagsAreWords
<1>3. \A b \in B : FTRP(h, b) = NEXT_BLKP(h, b) - 8
  BY TagsAreWords DEF FTRP, NEXT_BLKP, DSIZE
<1>4. ASSUME NEW b \in B PROVE a # b - WSIZE /\ a # FTRP(h, b)
  <2>1. CASE b < s
    <3>1. NEXT_BLKP(h, b) <= s
      BY <2>1 DEF Tiles
    <3> QED BY <1>1, <1>3, <2>1, <3>1 DEF WSIZE
  <2>2. CASE b = s
    BY <1>1, <1>3, <2>2 DEF WSIZE, DSIZE
  <2>3. CASE s < b
    <3>1. NEXT_BLKP(h, s) <= b
      BY <2>3 DEF Tiles
    <3> QED BY <1>1, <1>3, <2>3, <3>1 DEF WSIZE, DSIZE
  <2> QED BY <1>1, <2>1, <2>2, <2>3
<1> QED BY <1>1, <1>2, <1>4 DEF WSIZE, DSIZE

\* The words of a client's region lie between the tags of its block.
LEMMA RegionInBlock ==
    ASSUME NEW h, IsHeap(h), NEW B, Tiles(h, B), NEW s \in B,
           NEW size \in Nat, size + DSIZE <= SizeOf(h, s)
    PROVE  \A a \in RegionWords(s, size) : /\ a \in Int /\ s <= a /\ a + DSIZE < NEXT_BLKP(h, s)
                                           /\ a \in DOMAIN h.mem
<1>1. /\ s \in Int /\ s % 8 = 0 /\ s >= 8 /\ SizeOf(h, s) \in Int
      /\ NEXT_BLKP(h, s) <= h.brk /\ h.brk \in Nat /\ h.brk % 8 = 0
  BY TagsAreWords DEF heap_listp, WSIZE
<1>2. NEXT_BLKP(h, s) = s + SizeOf(h, s)
  BY DEF NEXT_BLKP
<1>3. \A a \in Int : a \in DOMAIN h.mem <=> a % 4 = 0 /\ 0 <= a /\ a < h.brk
  BY <1>1, HeapWordsAre DEF IsHeap
<1> SUFFICES ASSUME NEW a \in RegionWords(s, size)
             PROVE  /\ a \in Int /\ s <= a /\ a + DSIZE < NEXT_BLKP(h, s)
                    /\ a \in DOMAIN h.mem
  OBVIOUS
<1>4. PICK i \in 0..((size + 3) \div 4 - 1) : a = s + 4 * i
  BY DEF RegionWords, WSIZE
<1>5. i \in Int /\ i >= 0 /\ 4 * i < size
  <2>1. 4 * ((size + 3) \div 4) <= size + 3 /\ (size + 3) \div 4 \in Int
    OBVIOUS
  <2> QED BY <2>1
<1>6. a % 4 = 0
  <2>1. s % 4 = 0
    BY <1>1
  <2> QED BY <1>1, <1>4, <1>5, <2>1
<1>7. a \in Int /\ s <= a /\ a + 8 < NEXT_BLKP(h, s)
  BY <1>1, <1>2, <1>4, <1>5 DEF DSIZE
<1>8. 0 <= a /\ a < h.brk
  BY <1>1, <1>2, <1>7
<1> QED BY <1>3, <1>6, <1>7, <1>8 DEF DSIZE

\* The client writes into its region and nowhere else.
LEMMA WrittenEffect ==
    ASSUME NEW h, NEW B, Sound(h, B), NEW s \in B,
           NEW size \in Nat, size + DSIZE <= SizeOf(h, s), NEW c \in Nat
    PROVE  LET g == Written(h, s, size, c)
           IN  /\ Sound(g, B) /\ Taken(g, B) = Taken(h, B)
               /\ DOMAIN g.mem = DOMAIN h.mem /\ g.brk = h.brk
               /\ \A b \in B : SizeOf(g, b) = SizeOf(h, b)
               /\ \A a \in DOMAIN h.mem :
                     g.mem[a] = IF c # 0 /\ a \in RegionWords(s, size) THEN Data(c) ELSE h.mem[a]
<1> DEFINE mem == [a \in DOMAIN h.mem |-> IF a \in RegionWords(s, size) THEN Data(c) ELSE h.mem[a]]
           g == [h EXCEPT !.mem = mem]
<1>1. IsHeap(h) /\ Tiles(h, B)
  BY DEF Sound
<1>2. CASE c = 0
  <2>1. Written(h, s, size, c) = h
    BY <1>2 DEF Written
  <2> QED BY <1>2, <2>1
<1>3. CASE c # 0
  <2>1. Written(h, s, size, c) = g
    BY <1>3 DEF Written
  <2>2. Data(c) \in Word
    BY ConstantsAssumption DEF Data, Word
  <2>3. h.mem \in [DOMAIN h.mem -> Word]
    BY <1>1 DEF IsHeap
  <2>4. mem \in [DOMAIN h.mem -> Word]
    BY <2>2, <2>3
  <2>5. \A a \in RegionWords(s, size) : /\ a # h.brk - WSIZE
                                        /\ \A b \in B : a # b - WSIZE /\ a # FTRP(h, b)
    BY <1>1, RegionInBlock, PayloadIsNoTag
  <2>6. mem[h.brk - WSIZE] = h.mem[h.brk - WSIZE]
    BY <1>1, <2>5, TagsAreWords
  <2>7. \A b \in B : mem[b - WSIZE] = h.mem[b - WSIZE] /\ mem[FTRP(h, b)] = h.mem[FTRP(h, b)]
    BY <1>1, <2>5, TagsAreWords
  <2>8. \A a \in DOMAIN h.mem :
           mem[a] = IF c # 0 /\ a \in RegionWords(s, size) THEN Data(c) ELSE h.mem[a]
    BY <1>3
  <2>9. DOMAIN mem = DOMAIN h.mem
    OBVIOUS
  <2> HIDE DEF mem
  <2>10. /\ Sound(g, B) /\ Taken(g, B) = Taken(h, B)
         /\ g.mem = mem /\ g.brk = h.brk
         /\ \A b \in B : SizeOf(g, b) = SizeOf(h, b)
    BY <2>4, <2>6, <2>7, Rewritten
  <2> HIDE DEF g
  <2> QED BY <2>1, <2>8, <2>9, <2>10
<1> QED BY <1>2, <1>3

\* memcpy writes into the new region and nowhere else, and what it writes is in
\* the old block.
LEMMA CopiedEffect ==
    ASSUME NEW h, NEW B, Sound(h, B), NEW from \in B, NEW to \in B,
           NEW size \in Nat, size + DSIZE <= SizeOf(h, to)
    PROVE  LET g == Copied(h, from, to, size)
           IN  /\ Sound(g, B) /\ Taken(g, B) = Taken(h, B)
               /\ DOMAIN g.mem = DOMAIN h.mem /\ g.brk = h.brk
               /\ \A b \in B : SizeOf(g, b) = SizeOf(h, b)
               /\ \A a \in DOMAIN h.mem :
                     g.mem[a] = IF to <= a /\ a < to + Lesser(size, SizeOf(h, from))
                                THEN h.mem[from + (a - to)] ELSE h.mem[a]
<1> DEFINE copySize == IF size < SizeOf(h, from) THEN size ELSE SizeOf(h, from)
           mem == [a \in DOMAIN h.mem |->
                      IF a \in to..(to + copySize - 1) THEN h.mem[from + (a - to)] ELSE h.mem[a]]
           g == [h EXCEPT !.mem = mem]
<1>1. IsHeap(h) /\ Tiles(h, B)
  BY DEF Sound
<1>2. Copied(h, from, to, size) = g
  BY DEF Copied
<1>3. /\ from \in Int /\ from % 8 = 0 /\ from >= 8
      /\ SizeOf(h, from) \in Int /\ SizeOf(h, from) >= 8
      /\ NEXT_BLKP(h, from) <= h.brk /\ h.brk \in Nat /\ h.brk % 8 = 0
      /\ to \in Int /\ to % 8 = 0 /\ SizeOf(h, to) \in Int
  BY <1>1, TagsAreWords DEF heap_listp, WSIZE
<1>4. \A a \in Int : a \in DOMAIN h.mem <=> a % 4 = 0 /\ 0 <= a /\ a < h.brk
  BY <1>1, <1>3, HeapWordsAre DEF IsHeap
<1>5. copySize \in Int /\ copySize <= size /\ copySize <= SizeOf(h, from)
  BY <1>3
<1>6. copySize = Lesser(size, SizeOf(h, from))
  BY DEF Lesser
<1> HIDE DEF copySize
<1>7. NEXT_BLKP(h, from) = from + SizeOf(h, from) /\ NEXT_BLKP(h, to) = to + SizeOf(h, to)
  BY DEF NEXT_BLKP
<1>8. ASSUME NEW a \in DOMAIN h.mem, a \in to..(to + copySize - 1)
      PROVE  from + (a - to) \in DOMAIN h.mem
  <2>1. a \in Int /\ a % 4 = 0
    BY <1>4, <1>8, <1>3
  <2>2. (from + (a - to)) % 4 = 0
    <3>1. from % 4 = 0 /\ to % 4 = 0
      BY <1>3
    <3> QED BY <1>3, <2>1, <3>1
  <2>3. 0 <= from + (a - to) /\ from + (a - to) < h.brk
    BY <1>3, <1>5, <1>7, <1>8, <2>1
  <2> QED BY <1>3, <1>4, <2>1, <2>2, <2>3
<1>9. ASSUME NEW a \in to..(to + copySize - 1)
      PROVE  a # h.brk - WSIZE /\ \A b \in B : a # b - WSIZE /\ a # FTRP(h, b)
  <2>1. a \in Int /\ to <= a /\ a + DSIZE < NEXT_BLKP(h, to)
    BY <1>3, <1>5, <1>7 DEF DSIZE
  <2> QED BY <1>1, <2>1, PayloadIsNoTag
<1>10. h.mem \in [DOMAIN h.mem -> Word]
  BY <1>1 DEF IsHeap
<1>11. mem \in [DOMAIN h.mem -> Word]
  BY <1>8, <1>10
<1>12. mem[h.brk - WSIZE] = h.mem[h.brk - WSIZE]
  BY <1>1, <1>9, TagsAreWords
<1>13. \A b \in B : mem[b - WSIZE] = h.mem[b - WSIZE] /\ mem[FTRP(h, b)] = h.mem[FTRP(h, b)]
  BY <1>1, <1>9, TagsAreWords
<1>14. DOMAIN mem = DOMAIN h.mem
  OBVIOUS
<1>15. \A a \in DOMAIN h.mem :
          mem[a] = IF to <= a /\ a < to + Lesser(size, SizeOf(h, from))
                   THEN h.mem[from + (a - to)] ELSE h.mem[a]
  <2> SUFFICES ASSUME NEW a \in DOMAIN h.mem
               PROVE  a \in to..(to + copySize - 1) <=> to <= a /\ a < to + copySize
    BY <1>6
  <2>1. a \in Int
    <3>1. DOMAIN h.mem = HeapWords(h.brk)
      BY <1>1 DEF IsHeap
    <3> QED BY <1>3, <3>1 DEF HeapWords, WSIZE
  <2> QED BY <1>3, <1>5, <2>1
<1> HIDE DEF mem
<1>16. /\ Sound(g, B) /\ Taken(g, B) = Taken(h, B)
       /\ g.mem = mem /\ g.brk = h.brk
       /\ \A b \in B : SizeOf(g, b) = SizeOf(h, b)
  BY <1>11, <1>12, <1>13, Rewritten
<1> HIDE DEF g
<1> QED BY <1>2, <1>14, <1>15, <1>16

\* What the model forgets is no tag and not known to the client.
LEMMA ForgottenEffect ==
    ASSUME NEW h, NEW B, Sound(h, B), NEW regions
    PROVE  LET g == Forgotten(h, regions)
           IN  /\ Sound(g, B) /\ Taken(g, B) = Taken(h, B)
               /\ DOMAIN g.mem = DOMAIN h.mem /\ g.brk = h.brk /\ g.search_ptr = h.search_ptr
               /\ \A b \in B : SizeOf(g, b) = SizeOf(h, b)
               /\ \A bp \in DOMAIN regions :
                     \A a \in DOMAIN h.mem \cap RegionWords(bp, regions[bp].known) :
                        g.mem[a] = h.mem[a]
<1> DEFINE tags == UNION {{bp - WSIZE, FTRP(h, bp)} : bp \in Blocks(h)}
           known == UNION {RegionWords(bp, regions[bp].known) : bp \in DOMAIN regions}
           kept == tags \cup known \cup {0, h.brk - WSIZE}
           mem == [a \in DOMAIN h.mem |-> IF a \in kept THEN h.mem[a] ELSE Junk]
           g == [h EXCEPT !.mem = mem]
<1>1. IsHeap(h) /\ Tiles(h, B)
  BY DEF Sound
<1>2. Forgotten(h, regions) = g
  BY DEF Forgotten
<1>3. Blocks(h) = B
  BY <1>1, BlocksAre
<1>4. \A b \in B : b - WSIZE \in kept /\ FTRP(h, b) \in kept
  BY <1>3
<1>5. h.brk - WSIZE \in kept
  OBVIOUS
<1>6. \A bp \in DOMAIN regions : RegionWords(bp, regions[bp].known) \subseteq kept
  OBVIOUS
<1> HIDE DEF kept
<1>7. mem \in [DOMAIN h.mem -> Word]
  <2>1. Junk \in Word
    BY ConstantsAssumption DEF Junk, Data, Word
  <2>2. h.mem \in [DOMAIN h.mem -> Word]
    BY <1>1 DEF IsHeap
  <2> QED BY <2>1, <2>2
<1>8. mem[h.brk - WSIZE] = h.mem[h.brk - WSIZE]
  BY <1>1, <1>5, TagsAreWords
<1>9. \A b \in B : mem[b - WSIZE] = h.mem[b - WSIZE] /\ mem[FTRP(h, b)] = h.mem[FTRP(h, b)]
  BY <1>1, <1>4, TagsAreWords
<1>10. \A bp \in DOMAIN regions :
          \A a \in DOMAIN h.mem \cap RegionWords(bp, regions[bp].known) : mem[a] = h.mem[a]
  BY <1>6
<1>11. DOMAIN mem = DOMAIN h.mem
  OBVIOUS
<1> HIDE DEF mem
<1>12. /\ Sound(g, B) /\ Taken(g, B) = Taken(h, B)
       /\ g.mem = mem /\ g.brk = h.brk /\ g.search_ptr = h.search_ptr
       /\ \A b \in B : SizeOf(g, b) = SizeOf(h, b)
  BY <1>7, <1>8, <1>9, Rewritten
<1> HIDE DEF g
<1> QED BY <1>2, <1>10, <1>11, <1>12

----------------------------------------------------------------------------
\* The inductive invariant

\* The allocated blocks are the client's regions, with room for them, and the
\* blocks that are lost.
Owned(h, B, regions, lost) ==
    /\ DOMAIN regions \cup lost = Taken(h, B) /\ DOMAIN regions \cap lost = {}
    /\ \A bp \in DOMAIN regions :
          /\ regions[bp].size \in Nat /\ regions[bp].known \in Nat
          /\ regions[bp].known <= regions[bp].size
          /\ regions[bp].size + DSIZE <= SizeOf(h, bp)

IInv ==
    /\ policy \in Policies
    /\ Sound(heap, Blocks(heap))
    /\ Owned(heap, Blocks(heap), live, leaked)

\* What the client knows of its regions S in h is still there in g.
KnownKept(h, g, regions, S) ==
    \A q \in S : \A a \in RegionWords(q, regions[q].known) : g.mem[a] = h.mem[a]

\* The words of a region that the client knows are in the block.
LEMMA KnownInBlock ==
    ASSUME NEW h, NEW B, Sound(h, B), NEW regions, NEW lost, Owned(h, B, regions, lost),
           NEW q \in DOMAIN regions
    PROVE  /\ q \in B \ {heap_listp}
           /\ regions[q].known \in Nat /\ regions[q].known + DSIZE <= SizeOf(h, q)
           /\ \A a \in RegionWords(q, regions[q].known) :
                 /\ a \in Int /\ q <= a /\ a + DSIZE < NEXT_BLKP(h, q) /\ a \in DOMAIN h.mem
<1>1. IsHeap(h) /\ Tiles(h, B)
  BY DEF Sound
<1>2. q \in B \ {heap_listp}
  BY DEF Owned, Taken
<1>3. regions[q].known \in Nat /\ regions[q].known + DSIZE <= SizeOf(h, q)
  <2>1. SizeOf(h, q) \in Int
    BY <1>1, <1>2, TagsAreWords
  <2> QED BY <2>1 DEF Owned, DSIZE
<1> QED BY <1>1, <1>2, <1>3, RegionInBlock

\* What is in blocks that are kept is kept.
LEMMA KeptIsKnown ==
    ASSUME NEW h, NEW B, Sound(h, B), NEW regions, NEW lost, Owned(h, B, regions, lost),
           NEW S \in SUBSET DOMAIN regions, NEW g, AllKept(h, g, S)
    PROVE  KnownKept(h, g, regions, S)
<1> SUFFICES ASSUME NEW q \in S, NEW a \in RegionWords(q, regions[q].known)
             PROVE  g.mem[a] = h.mem[a]
  BY DEF KnownKept
<1>1. q \in B /\ a \in Int /\ q <= a /\ a + DSIZE < NEXT_BLKP(h, q) /\ a \in DOMAIN h.mem
  BY KnownInBlock
<1>2. q \in Int /\ SizeOf(h, q) \in Int /\ NEXT_BLKP(h, q) = q + SizeOf(h, q)
  BY <1>1, TagsAreWords DEF Sound, NEXT_BLKP
<1>3. q - WSIZE <= a /\ a < q + SizeOf(h, q) - WSIZE
  BY <1>1, <1>2 DEF WSIZE, DSIZE
<1> QED BY <1>1, <1>3 DEF AllKept, Kept

\* The regions of two blocks share no word.
LEMMA RegionsApart ==
    ASSUME NEW h, IsHeap(h), NEW B, Tiles(h, B), NEW b \in B, NEW c \in B, b # c,
           NEW m \in Nat, m + DSIZE <= SizeOf(h, b),
           NEW n \in Nat, n + DSIZE <= SizeOf(h, c),
           NEW a \in RegionWords(b, m)
    PROVE  a \notin RegionWords(c, n)
<1>1. /\ b \in Int /\ c \in Int /\ NEXT_BLKP(h, b) \in Int /\ NEXT_BLKP(h, c) \in Int
  BY TagsAreWords
<1>2. a \in Int /\ b <= a /\ a + DSIZE < NEXT_BLKP(h, b)
  BY RegionInBlock
<1>3. a \in RegionWords(c, n) => c <= a /\ a + DSIZE < NEXT_BLKP(h, c)
  BY RegionInBlock
<1>4. NEXT_BLKP(h, b) <= c \/ NEXT_BLKP(h, c) <= b
  BY <1>1 DEF Tiles
<1> QED BY <1>1, <1>2, <1>3, <1>4 DEF DSIZE

----------------------------------------------------------------------------
\* The client's calls

\* What malloc makes of a heap h and the regions that the client has in it, when
\* it finds a block and the client writes c into it.
Mallocated(h, regions, size, c, k, regions2) ==
    LET r == mm_malloc(h, size)
    IN  /\ r.bp # NULL
        /\ regions2 = With(regions, r.bp, [size |-> size, known |-> IF c = 0 THEN 0 ELSE size])
        /\ k = Forgotten(Written(r.heap, r.bp, size, c), regions2)

\* malloc: the regions the client has are as they were, the new one is in a
\* block of its own and holds what the client wrote.
LEMMA ClientMallocs ==
    ASSUME NEW h, NEW B, Sound(h, B), NEW regions, NEW lost, Owned(h, B, regions, lost),
           NEW size \in Nat, size + 15 < WORD, NEW c \in Nat,
           NEW k, NEW regions2, Mallocated(h, regions, size, c, k, regions2)
    PROVE  LET r == mm_malloc(h, size)
           IN  \E C :
                 /\ Sound(k, C) /\ Owned(k, C, regions2, lost)
                 /\ r.bp \in C /\ r.bp \notin DOMAIN regions
                 /\ KnownKept(h, k, regions, DOMAIN regions)
                 /\ c # 0 => \A a \in RegionWords(r.bp, size) : k.mem[a] = Data(c)
                 /\ k.brk = r.heap.brk /\ h.brk <= k.brk
<1> DEFINE r == mm_malloc(h, size)
           bp == r.bp
           f == r.heap
           w == Written(f, bp, size, c)
           known == IF c = 0 THEN 0 ELSE size
<1>0. /\ bp # NULL /\ regions2 = With(regions, bp, [size |-> size, known |-> known])
      /\ k = Forgotten(w, regions2)
  BY DEF Mallocated
<1> HIDE DEF r
<1>1. PICK C : Allocated(h, B, size, r, C)
  <2>1. r # Failed(h)
    BY <1>0 DEF Failed
  <2> QED BY <2>1, MallocEffect DEF r
<1>2. /\ Sound(f, C) /\ bp \in C /\ bp \notin Taken(h, B)
      /\ SizeOf(f, bp) >= size + DSIZE
      /\ Taken(f, C) = Taken(h, B) \cup {bp}
      /\ AllKept(h, f, Taken(h, B))
      /\ DOMAIN h.mem \subseteq DOMAIN f.mem /\ h.brk <= f.brk
  BY <1>1 DEF Allocated
<1>3. IsHeap(f) /\ Tiles(f, C) /\ IsHeap(h) /\ Tiles(h, B)
  BY <1>2 DEF Sound
<1>4. SizeOf(f, bp) \in Int /\ size + DSIZE <= SizeOf(f, bp)
  BY <1>2, <1>3, TagsAreWords DEF DSIZE
<1>5. \A q \in Taken(h, B) : SizeOf(f, q) = SizeOf(h, q)
  BY <1>2, <1>3, KeptTags DEF AllKept, Taken
<1>6. /\ Sound(w, C) /\ Taken(w, C) = Taken(f, C)
      /\ DOMAIN w.mem = DOMAIN f.mem /\ w.brk = f.brk
      /\ \A b \in C : SizeOf(w, b) = SizeOf(f, b)
      /\ \A a \in DOMAIN f.mem :
            w.mem[a] = IF c # 0 /\ a \in RegionWords(bp, size) THEN Data(c) ELSE f.mem[a]
  BY <1>2, <1>4, WrittenEffect
<1> HIDE DEF w
<1>7. /\ Sound(k, C) /\ Taken(k, C) = Taken(w, C)
      /\ DOMAIN k.mem = DOMAIN w.mem /\ k.brk = w.brk
      /\ \A b \in C : SizeOf(k, b) = SizeOf(w, b)
      /\ \A q \in DOMAIN regions2 :
            \A a \in DOMAIN w.mem \cap RegionWords(q, regions2[q].known) : k.mem[a] = w.mem[a]
  BY <1>0, <1>6, ForgottenEffect
<1>8. /\ DOMAIN regions2 = DOMAIN regions \cup {bp} /\ bp \notin DOMAIN regions
      /\ regions2[bp].size = size /\ regions2[bp].known = known
      /\ \A q \in DOMAIN regions : regions2[q] = regions[q]
  <2>1. bp \notin DOMAIN regions
    BY <1>2 DEF Owned
  <2> HIDE DEF known
  <2> QED BY <1>0, <2>1 DEF With
<1>9. Owned(k, C, regions2, lost)
  <2>1. DOMAIN regions2 \cup lost = Taken(k, C)
    BY <1>2, <1>6, <1>7, <1>8 DEF Owned
  <2>2. DOMAIN regions2 \cap lost = {}
    BY <1>2, <1>8 DEF Owned
  <2>3. ASSUME NEW q \in DOMAIN regions
        PROVE  /\ regions2[q].size \in Nat /\ regions2[q].known \in Nat
               /\ regions2[q].known <= regions2[q].size
               /\ regions2[q].size + DSIZE <= SizeOf(k, q)
    <3>1. q \in Taken(h, B) /\ q \in C
      BY <1>2 DEF Owned, Taken
    <3>2. SizeOf(k, q) = SizeOf(h, q)
      BY <1>5, <1>6, <1>7, <3>1
    <3> QED BY <1>8, <3>2 DEF Owned
  <2>4. /\ size \in Nat /\ known \in Nat /\ known <= size /\ size + DSIZE <= SizeOf(k, bp)
    BY <1>2, <1>4, <1>6, <1>7
  <2> HIDE DEF known
  <2> QED BY <1>8, <2>1, <2>2, <2>3, <2>4 DEF Owned
<1>10. KnownKept(h, k, regions, DOMAIN regions)
  <2> SUFFICES ASSUME NEW q \in DOMAIN regions, NEW a \in RegionWords(q, regions[q].known)
               PROVE  k.mem[a] = h.mem[a]
    BY DEF KnownKept
  <2>1. KnownKept(h, f, regions, DOMAIN regions)
    <3>1. AllKept(h, f, DOMAIN regions)
      BY <1>2 DEF AllKept, Owned
    <3> QED BY <3>1, KeptIsKnown
  <2>2. /\ q \in B /\ a \in DOMAIN h.mem
        /\ regions[q].known \in Nat /\ regions[q].known + DSIZE <= SizeOf(h, q)
    BY KnownInBlock
  <2>3. q \in C /\ q # bp /\ SizeOf(f, q) = SizeOf(h, q)
    BY <1>2, <1>5 DEF Owned, Taken
  <2>4. a \notin RegionWords(bp, size)
    BY <1>2, <1>3, <1>4, <2>2, <2>3, RegionsApart
  <2>5. a \in DOMAIN f.mem /\ f.mem[a] = h.mem[a]
    BY <1>2, <2>1, <2>2 DEF KnownKept
  <2>6. w.mem[a] = f.mem[a]
    BY <1>6, <2>4, <2>5
  <2>7. k.mem[a] = w.mem[a]
    BY <1>6, <1>7, <1>8, <2>5
  <2> QED BY <2>5, <2>6, <2>7
<1>11. ASSUME c # 0, NEW a \in RegionWords(bp, size) PROVE k.mem[a] = Data(c)
  <2>1. a \in DOMAIN f.mem
    BY <1>2, <1>3, <1>4, RegionInBlock
  <2>2. w.mem[a] = Data(c)
    BY <1>6, <1>11, <2>1
  <2>3. k.mem[a] = w.mem[a]
    BY <1>6, <1>7, <1>8, <1>11, <2>1
  <2> QED BY <2>2, <2>3
<1>12. k.brk = r.heap.brk /\ h.brk <= k.brk
  BY <1>2, <1>6, <1>7
<1> QED BY <1>2, <1>7, <1>8, <1>9, <1>10, <1>11, <1>12 DEF r

\* free: the other regions are as they were.
LEMMA ClientFrees ==
    ASSUME NEW h, NEW B, Sound(h, B), NEW regions, NEW lost, Owned(h, B, regions, lost),
           NEW bp \in DOMAIN regions,
           NEW regions2, regions2 = [q \in DOMAIN regions \ {bp} |-> regions[q]],
           NEW k, NEW lost2,
           \/ k = Forgotten(mm_free(h, bp), regions2) /\ lost2 = lost
           \/ k = Forgotten(h, regions2) /\ lost2 = lost \cup {bp}
    PROVE  \E C :
              /\ Sound(k, C) /\ Owned(k, C, regions2, lost2)
              /\ KnownKept(h, k, regions2, DOMAIN regions2)
              /\ k.brk = h.brk
<1>1. PICK g : /\ k = Forgotten(g, regions2)
               /\ \/ g = mm_free(h, bp) /\ lost2 = lost
                  \/ g = h /\ lost2 = lost \cup {bp}
  OBVIOUS
<1>2. /\ bp \in Taken(h, B) /\ DOMAIN regions \cup lost = Taken(h, B)
      /\ DOMAIN regions \cap lost = {}
  BY DEF Owned
<1> DEFINE Lost(T) == \/ T = Taken(h, B) \ {bp} /\ lost2 = lost
                      \/ T = Taken(h, B) /\ lost2 = lost \cup {bp}
<1>3. \E C :
         /\ Sound(g, C)
         /\ Lost(Taken(g, C))
         /\ AllKept(h, g, Taken(h, B) \ {bp})
         /\ DOMAIN g.mem = DOMAIN h.mem /\ g.brk = h.brk
  <2>1. CASE g = mm_free(h, bp) /\ lost2 = lost
    BY <1>2, <2>1, FreeEffect
  <2>2. CASE g = h /\ lost2 = lost \cup {bp}
    <3>1. AllKept(h, h, Taken(h, B) \ {bp})
      BY DEF AllKept, Kept
    <3> QED BY <2>2, <3>1
  <2> QED BY <1>1, <2>1, <2>2
<1>4. PICK C :
         /\ Sound(g, C)
         /\ Lost(Taken(g, C))
         /\ AllKept(h, g, Taken(h, B) \ {bp})
         /\ DOMAIN g.mem = DOMAIN h.mem /\ g.brk = h.brk
  BY <1>3
<1>5. /\ Sound(k, C) /\ Taken(k, C) = Taken(g, C)
      /\ DOMAIN k.mem = DOMAIN g.mem /\ k.brk = g.brk
      /\ \A b \in C : SizeOf(k, b) = SizeOf(g, b)
      /\ \A q \in DOMAIN regions2 :
            \A a \in DOMAIN g.mem \cap RegionWords(q, regions2[q].known) : k.mem[a] = g.mem[a]
  BY <1>1, <1>4, ForgottenEffect
<1>6. /\ DOMAIN regions2 = DOMAIN regions \ {bp}
      /\ \A q \in DOMAIN regions2 : regions2[q] = regions[q]
  OBVIOUS
<1>7. Owned(k, C, regions2, lost2)
  <2>1. DOMAIN regions2 \cup lost2 = Taken(k, C)
    BY <1>2, <1>4, <1>5, <1>6
  <2>2. DOMAIN regions2 \cap lost2 = {}
    BY <1>2, <1>4, <1>6
  <2>3. ASSUME NEW q \in DOMAIN regions2 PROVE SizeOf(k, q) = SizeOf(h, q)
    <3>1. q \in Taken(h, B) \ {bp} /\ q \in B /\ q \in C
      BY <1>2, <1>5, <1>6, <2>1 DEF Taken
    <3>2. Kept(h, g, q)
      BY <1>4, <3>1 DEF AllKept
    <3>3. SizeOf(g, q) = SizeOf(h, q)
      BY <3>1, <3>2, KeptTags DEF Sound
    <3> QED BY <1>5, <3>1, <3>3
  <2> QED BY <1>6, <2>1, <2>2, <2>3 DEF Owned
<1>8. KnownKept(h, k, regions2, DOMAIN regions2)
  <2> SUFFICES ASSUME NEW q \in DOMAIN regions2, NEW a \in RegionWords(q, regions2[q].known)
               PROVE  k.mem[a] = h.mem[a]
    BY DEF KnownKept
  <2>1. AllKept(h, g, DOMAIN regions2)
    BY <1>2, <1>4, <1>6 DEF AllKept
  <2>2. g.mem[a] = h.mem[a]
    <3>1. KnownKept(h, g, regions, DOMAIN regions2)
      BY <1>6, <2>1, KeptIsKnown
    <3> QED BY <1>6, <3>1 DEF KnownKept
  <2>3. a \in DOMAIN h.mem
    BY <1>6, KnownInBlock
  <2> QED BY <1>4, <1>5, <2>2, <2>3
<1> QED BY <1>4, <1>5, <1>7, <1>8

\* What realloc makes of a heap h and the regions that the client has in it,
\* when mm_malloc finds a block.
Reallocated(h, regions, old, size, k, regions2) ==
    LET r == mm_malloc(h, size)
        rest == [q \in DOMAIN regions \ {old} |-> regions[q]]
        done == mm_free(Copied(r.heap, old, r.bp, size), old)
    IN  /\ r.bp # NULL
        /\ regions2 = With(rest, r.bp, [size  |-> size,
                                       known |-> Lesser(regions[old].known, size)])
        /\ k \in {Forgotten(g, regions2) : g \in {done, SetSearch(done, r.bp)}}

\* realloc: the other regions are as they were, and the new one, in a block of
\* its own, begins with what the client knew of the old.
LEMMA ClientReallocs ==
    ASSUME NEW h, NEW B, Sound(h, B), NEW regions, NEW lost, Owned(h, B, regions, lost),
           NEW old \in DOMAIN regions, NEW size \in Nat, size + 15 < WORD,
           NEW k, NEW regions2, Reallocated(h, regions, old, size, k, regions2)
    PROVE  LET bp == mm_malloc(h, size).bp
               known == Lesser(regions[old].known, size)
           IN  \E C :
                 /\ Sound(k, C) /\ Owned(k, C, regions2, lost)
                 /\ bp \in C /\ bp \notin DOMAIN regions
                 /\ KnownKept(h, k, regions, DOMAIN regions \ {old})
                 /\ \A i \in 0..((known + 3) \div 4 - 1) :
                       k.mem[bp + WSIZE * i] = h.mem[old + WSIZE * i]
                 /\ k.brk = mm_malloc(h, size).heap.brk /\ h.brk <= k.brk
<1> DEFINE r == mm_malloc(h, size)
           bp == r.bp
           f == r.heap
           rest == [q \in DOMAIN regions \ {old} |-> regions[q]]
           known == Lesser(regions[old].known, size)
           w == Copied(f, old, bp, size)
           done == mm_free(w, old)
           S == Taken(h, B)
<1>0. /\ bp # NULL /\ regions2 = With(rest, bp, [size |-> size, known |-> known])
      /\ k \in {Forgotten(g, regions2) : g \in {done, SetSearch(done, bp)}}
  BY DEF Reallocated
<1> HIDE DEF r
<1>1. PICK D : Allocated(h, B, size, r, D)
  <2>1. r # Failed(h)
    BY <1>0 DEF Failed
  <2> QED BY <2>1, MallocEffect DEF r
<1>2. /\ Sound(f, D) /\ bp \in D /\ bp \notin S
      /\ SizeOf(f, bp) >= size + DSIZE
      /\ Taken(f, D) = S \cup {bp}
      /\ AllKept(h, f, S)
      /\ DOMAIN h.mem \subseteq DOMAIN f.mem /\ h.brk <= f.brk
  BY <1>1 DEF Allocated
<1>3. IsHeap(f) /\ Tiles(f, D) /\ IsHeap(h) /\ Tiles(h, B)
  BY <1>2 DEF Sound
<1>4. SizeOf(f, bp) \in Int /\ size + DSIZE <= SizeOf(f, bp)
  BY <1>2, <1>3, TagsAreWords DEF DSIZE
<1>5. DOMAIN regions \subseteq S /\ S \subseteq B /\ S \subseteq D
  BY <1>2 DEF Owned, Taken
<1>6. \A q \in S : SizeOf(f, q) = SizeOf(h, q)
  BY <1>2, <1>3, <1>5, KeptTags DEF AllKept
<1>7. old \in D /\ old \in S /\ old # bp /\ bp \notin DOMAIN regions
  BY <1>2, <1>5
<1>8. /\ Sound(w, D) /\ Taken(w, D) = S \cup {bp}
      /\ DOMAIN w.mem = DOMAIN f.mem /\ w.brk = f.brk
      /\ \A b \in D : SizeOf(w, b) = SizeOf(f, b)
      /\ \A a \in DOMAIN f.mem :
            w.mem[a] = IF bp <= a /\ a < bp + Lesser(size, SizeOf(f, old))
                       THEN f.mem[old + (a - bp)] ELSE f.mem[a]
  BY <1>2, <1>4, <1>7, CopiedEffect
<1>24. done = mm_free(w, old)
  OBVIOUS
<1> HIDE DEF w, done
<1>9. PICK C :
        /\ Sound(done, C)
        /\ Taken(done, C) = (S \cup {bp}) \ {old}
        /\ AllKept(w, done, (S \cup {bp}) \ {old})
        /\ DOMAIN done.mem = DOMAIN w.mem /\ done.brk = w.brk
  <2>1. old \in Taken(w, D) /\ Taken(w, D) \ {old} = (S \cup {bp}) \ {old}
    BY <1>7, <1>8
  <2>3. \E C :
          /\ Sound(done, C)
          /\ Taken(done, C) = Taken(w, D) \ {old}
          /\ AllKept(w, done, Taken(w, D) \ {old})
          /\ DOMAIN done.mem = DOMAIN w.mem /\ done.brk = w.brk
    <3>1. Sound(w, D) /\ old \in Taken(w, D)
      BY <1>8, <2>1
    <3>2. \E C :
            /\ Sound(mm_free(w, old), C)
            /\ Taken(mm_free(w, old), C) = Taken(w, D) \ {old}
            /\ AllKept(w, mm_free(w, old), Taken(w, D) \ {old})
            /\ DOMAIN mm_free(w, old).mem = DOMAIN w.mem /\ mm_free(w, old).brk = w.brk
      BY ONLY <3>1, FreeEffect
    <3> QED BY ONLY <1>24, <3>2
  <2> QED BY <2>1, <2>3
<1>10. PICK g : (g = done \/ g = SetSearch(done, bp)) /\ k = Forgotten(g, regions2)
  BY <1>0
<1>11. bp \in C /\ bp \in Int
  <2>1. bp \in C
    BY <1>7, <1>9 DEF Taken
  <2> QED BY <1>9, <2>1, TagsAreWords DEF Sound
<1>12. /\ Sound(g, C) /\ Taken(g, C) = (S \cup {bp}) \ {old}
       /\ g.mem = done.mem /\ g.brk = done.brk
       /\ \A b \in C : SizeOf(g, b) = SizeOf(done, b)
  <2>1. CASE g = done
    BY <1>9, <2>1
  <2>2. CASE g = SetSearch(done, bp)
    <3>1. IsHeap(done) /\ Tiles(done, C) /\ Apart(done, C, NULL)
      BY <1>9 DEF Sound
    <3>2. /\ IsHeap(g) /\ g.mem = done.mem /\ g.brk = done.brk
          /\ g.search_ptr = IF policy = "next" THEN bp ELSE done.search_ptr
          /\ Tiles(g, C) /\ \A b : SizeOf(g, b) = SizeOf(done, b)
      BY <1>11, <2>2, <3>1, SetSearchEffect
    <3>3. Apart(g, C, NULL) /\ Taken(g, C) = Taken(done, C)
      BY <3>1, <3>2 DEF Apart, Taken, IsFree, NEXT_BLKP, SizeOf
    <3>4. Sound(g, C)
      BY <1>9, <1>11, <3>2, <3>3 DEF Sound
    <3> QED BY <1>9, <3>2, <3>3, <3>4
  <2> QED BY <1>10, <2>1, <2>2
<1>13. /\ Sound(k, C) /\ Taken(k, C) = (S \cup {bp}) \ {old}
       /\ DOMAIN k.mem = DOMAIN f.mem /\ k.brk = f.brk
       /\ \A b \in C : SizeOf(k, b) = SizeOf(done, b)
       /\ \A q \in DOMAIN regions2 :
             \A a \in DOMAIN f.mem \cap RegionWords(q, regions2[q].known) : k.mem[a] = done.mem[a]
  BY <1>8, <1>9, <1>10, <1>12, ForgottenEffect
<1>14. /\ DOMAIN rest = DOMAIN regions \ {old}
       /\ \A q \in DOMAIN rest : rest[q] = regions[q]
  OBVIOUS
<1>15. /\ DOMAIN regions2 = (DOMAIN regions \ {old}) \cup {bp}
       /\ regions2[bp].size = size /\ regions2[bp].known = known
       /\ \A q \in DOMAIN rest : regions2[q] = regions[q]
  BY <1>0, <1>7, <1>14 DEF With
<1> HIDE DEF rest
<1>16. known \in Nat /\ known <= size /\ known <= regions[old].known
  BY DEF Lesser, Owned
<1>17. \A q \in (S \cup {bp}) \ {old} : SizeOf(k, q) = SizeOf(f, q)
  <2>1. \A q \in (S \cup {bp}) \ {old} : q \in D /\ q \in C
    BY <1>2, <1>5, <1>9 DEF Taken
  <2>2. \A q \in (S \cup {bp}) \ {old} : SizeOf(done, q) = SizeOf(w, q)
    BY <1>8, <1>9, <2>1, KeptTags DEF AllKept, Sound
  <2>3. \A q \in (S \cup {bp}) \ {old} : SizeOf(w, q) = SizeOf(f, q)
    BY <1>8, <2>1
  <2>4. \A q \in (S \cup {bp}) \ {old} : SizeOf(k, q) = SizeOf(done, q)
    BY <1>13, <2>1
  <2> QED BY <2>2, <2>3, <2>4
<1>18. Owned(k, C, regions2, lost)
  <2>1. DOMAIN regions2 \cup lost = Taken(k, C)
    BY <1>7, <1>13, <1>15 DEF Owned
  <2>2. DOMAIN regions2 \cap lost = {}
    BY <1>2, <1>15 DEF Owned
  <2>3. ASSUME NEW q \in DOMAIN rest
        PROVE  /\ regions2[q].size \in Nat /\ regions2[q].known \in Nat
               /\ regions2[q].known <= regions2[q].size
               /\ regions2[q].size + DSIZE <= SizeOf(k, q)
    <3>1. q \in S /\ q # old
      BY <1>5, <1>14
    <3>2. SizeOf(k, q) = SizeOf(h, q)
      BY <1>6, <1>17, <3>1
    <3> QED BY <1>14, <1>15, <3>2 DEF Owned
  <2>4. SizeOf(k, bp) = SizeOf(f, bp)
    BY <1>7, <1>17
  <2>5. /\ regions2[bp].size \in Nat /\ regions2[bp].known \in Nat
        /\ regions2[bp].known <= regions2[bp].size
        /\ regions2[bp].size + DSIZE <= SizeOf(k, bp)
    BY <1>4, <1>15, <1>16, <2>4
  <2>6. DOMAIN regions2 = DOMAIN rest \cup {bp}
    BY <1>14, <1>15
  <2> QED BY <2>1, <2>2, <2>3, <2>5, <2>6 DEF Owned
<1>19. KnownKept(h, f, regions, DOMAIN regions)
  <2>1. AllKept(h, f, DOMAIN regions)
    BY <1>2, <1>5 DEF AllKept
  <2> QED BY <2>1, KeptIsKnown
<1>20. \A n \in Nat : n <= size => n + DSIZE <= SizeOf(w, bp)
  BY <1>2, <1>4, <1>8 DEF DSIZE
<1>21. KnownKept(h, k, regions, DOMAIN regions \ {old})
  <2> SUFFICES ASSUME NEW q \in DOMAIN rest, NEW a \in RegionWords(q, regions[q].known)
               PROVE  k.mem[a] = h.mem[a]
    BY <1>14 DEF KnownKept
  <2>1. /\ q \in B /\ q \in DOMAIN regions /\ q # old /\ q \in S /\ q \in D /\ q # bp
        /\ regions[q].known \in Nat /\ regions[q].known + DSIZE <= SizeOf(h, q)
        /\ a \in Int /\ q <= a /\ a + DSIZE < NEXT_BLKP(h, q) /\ a \in DOMAIN h.mem
    BY <1>5, <1>7, <1>14, KnownInBlock
  <2>2. a \in DOMAIN f.mem /\ f.mem[a] = h.mem[a]
    BY <1>2, <1>19, <2>1 DEF KnownKept
  <2>3. w.mem[a] = f.mem[a]
    <3>1. NEXT_BLKP(f, q) = NEXT_BLKP(h, q)
      BY <1>6, <2>1 DEF NEXT_BLKP
    <3>2. bp \in Int /\ q \in Int /\ NEXT_BLKP(f, q) \in Int /\ NEXT_BLKP(f, bp) = bp + SizeOf(f, bp)
      BY <1>2, <1>3, <2>1, TagsAreWords DEF NEXT_BLKP
    <3>3. NEXT_BLKP(f, q) <= bp \/ NEXT_BLKP(f, bp) <= q
      BY <1>2, <1>3, <2>1, <3>2 DEF Tiles
    <3>4. Lesser(size, SizeOf(f, old)) \in Int /\ Lesser(size, SizeOf(f, old)) <= size
      BY <1>3, <1>7, TagsAreWords DEF Lesser
    <3>5. ~(bp <= a /\ a < bp + Lesser(size, SizeOf(f, old)))
      BY <1>4, <2>1, <3>1, <3>2, <3>3, <3>4 DEF DSIZE
    <3> QED BY <1>8, <2>2, <3>5
  <2>4. /\ SizeOf(w, q) = SizeOf(h, q) /\ NEXT_BLKP(w, q) = NEXT_BLKP(h, q)
    BY <1>6, <1>8, <2>1 DEF NEXT_BLKP
  <2>5. done.mem[a] = w.mem[a]
    <3>1. q \in Int /\ SizeOf(w, q) \in Int /\ NEXT_BLKP(w, q) = q + SizeOf(w, q)
      BY <1>8, <2>1, TagsAreWords DEF Sound, NEXT_BLKP
    <3>2. q - WSIZE <= a /\ a < q + SizeOf(w, q) - WSIZE
      BY <2>1, <2>4, <3>1 DEF WSIZE, DSIZE
    <3> QED BY <1>8, <1>9, <2>1, <2>2, <3>2 DEF AllKept, Kept
  <2>6. k.mem[a] = done.mem[a]
    <3>1. q \in DOMAIN regions2 /\ regions2[q] = regions[q]
      BY <1>14, <1>15
    <3>2. a \in DOMAIN f.mem \cap RegionWords(q, regions2[q].known)
      BY <2>2, <3>1
    <3> QED BY <1>13, <3>1, <3>2
  <2> QED BY <2>2, <2>3, <2>5, <2>6
<1>22. ASSUME NEW i \in 0..((known + 3) \div 4 - 1)
       PROVE  k.mem[bp + WSIZE * i] = h.mem[old + WSIZE * i]
  <2> DEFINE a == bp + WSIZE * i
             b == old + WSIZE * i
  <2>1. i \in Int /\ 0 <= i /\ 4 * i < known
    <3>1. 4 * ((known + 3) \div 4) <= known + 3 /\ (known + 3) \div 4 \in Int
      BY <1>16
    <3> QED BY <1>16, <3>1
  <2>2. a \in RegionWords(bp, known)
    BY DEF RegionWords
  <2>3. b \in RegionWords(old, regions[old].known)
    <3>1. regions[old].known \in Nat
      BY DEF Owned
    <3>2. 4 * ((regions[old].known + 3) \div 4) >= regions[old].known
          /\ (regions[old].known + 3) \div 4 \in Int
      BY <3>1
    <3>3. i <= (regions[old].known + 3) \div 4 - 1
      BY <1>16, <2>1, <3>1, <3>2
    <3> QED BY <2>1, <3>2, <3>3 DEF RegionWords
  <2>4. known + DSIZE <= SizeOf(f, bp)
    BY <1>4, <1>16 DEF DSIZE
  <2>5. a \in Int /\ bp <= a /\ a + DSIZE < NEXT_BLKP(f, bp) /\ a \in DOMAIN f.mem
    BY <1>2, <1>3, <1>16, <2>2, <2>4, RegionInBlock
  <2>6. f.mem[b] = h.mem[b]
    BY <1>19, <2>3 DEF KnownKept
  <2>7. w.mem[a] = f.mem[b]
    <3>1. old \in Int /\ SizeOf(f, old) \in Int
      BY <1>3, <1>7, TagsAreWords
    <3>2. old + (a - bp) = b
      BY <1>11, <2>1, <3>1 DEF WSIZE
    <3>3. known <= SizeOf(f, old)
      <4>1. SizeOf(f, old) = SizeOf(h, old)
        BY <1>6, <1>7
      <4>2. regions[old].known + DSIZE <= SizeOf(h, old) /\ regions[old].known \in Nat
        BY KnownInBlock
      <4> QED BY <1>16, <3>1, <4>1, <4>2 DEF DSIZE
    <3>4. a < bp + Lesser(size, SizeOf(f, old))
      BY <1>11, <1>16, <2>1, <3>1, <3>3 DEF WSIZE, Lesser
    <3> QED BY <1>8, <2>5, <3>2, <3>4
  <2>8. done.mem[a] = w.mem[a]
    <3>1. SizeOf(w, bp) = SizeOf(f, bp) /\ SizeOf(f, bp) \in Int
      BY <1>2, <1>4, <1>8
    <3>2. bp - WSIZE <= a /\ a < bp + SizeOf(w, bp) - WSIZE
      BY <1>11, <2>5, <3>1 DEF NEXT_BLKP, WSIZE, DSIZE
    <3> QED BY <1>7, <1>8, <1>9, <2>5, <3>2 DEF AllKept, Kept
  <2>9. k.mem[a] = done.mem[a]
    <3>1. bp \in DOMAIN regions2 /\ a \in DOMAIN f.mem \cap RegionWords(bp, regions2[bp].known)
      BY <1>15, <2>2, <2>5
    <3> HIDE DEF a
    <3> QED BY <1>13, <3>1
  <2> QED BY <2>6, <2>7, <2>8, <2>9
<1>23. k.brk = f.brk /\ h.brk <= k.brk
  BY <1>2, <1>13
<1> HIDE DEF known
<1> QED BY <1>7, <1>11, <1>13, <1>18, <1>21, <1>22, <1>23 DEF r, known

----------------------------------------------------------------------------
\* The inductive invariant holds

\* No request comes within 15 of the largest size_t.  (Where one does, the
\* arithmetic of the block size wraps around and the block is too small: run
\* heap_size_overflow.)
NoOverflow == \A size \in Sizes : size + 15 < WORD

\* The heap of mm_init before its first chunk: the prologue alone.
LEMMA EmptyHeap ==
    LET empty == [mem |-> [a \in {0, 4, 8, 12} |->
                              CASE a = 0 -> PACK(0, 0)
                                [] a \in {4, 8} -> PACK(DSIZE, 1)
                                [] a = 12 -> PACK(0, 1)],
                  brk |-> 4 * WSIZE, search_ptr |-> heap_listp]
    IN  Sound(empty, {heap_listp}) /\ Taken(empty, {heap_listp}) = {}
<1> DEFINE mem == [a \in {0, 4, 8, 12} |->
                      CASE a = 0 -> PACK(0, 0)
                        [] a \in {4, 8} -> PACK(DSIZE, 1)
                        [] a = 12 -> PACK(0, 1)]
           h == [mem |-> mem, brk |-> 4 * WSIZE, search_ptr |-> heap_listp]
<1>1. /\ DOMAIN mem = {0, 4, 8, 12}
      /\ mem[0] = PACK(0, 0) /\ mem[4] = PACK(8, 1) /\ mem[8] = PACK(8, 1) /\ mem[12] = PACK(0, 1)
  BY DEF DSIZE
<1>2. PACK(0, 0) \in Word /\ PACK(8, 1) \in Word /\ PACK(0, 1) \in Word
  BY DEF PACK, Word
<1>3. mem \in [DOMAIN mem -> Word]
  <2>1. \A a \in DOMAIN mem : mem[a] \in Word
    BY <1>1, <1>2
  <2> QED BY <2>1
<1> HIDE DEF mem
<1>4. h.mem = mem /\ h.brk = 16 /\ h.search_ptr = 8
  BY DEF heap_listp, WSIZE
<1>5. HeapWords(16) = {0, 4, 8, 12}
  <2>1. HeapWords(16) = {4 * i : i \in 0..3}
    BY DEF HeapWords, WSIZE
  <2> QED BY <2>1
<1>6. h \in [mem : [HeapWords(16) -> Word], brk : Nat, search_ptr : Int]
  BY <1>1, <1>3, <1>5 DEF heap_listp, WSIZE
<1> HIDE DEF h
<1>7. IsHeap(h)
  BY <1>4, <1>6 DEF IsHeap
<1>8. SizeOf(h, 8) = 8 /\ ~IsFree(h, 8) /\ NEXT_BLKP(h, 8) = 16 /\ FTRP(h, 8) = 8
  <2>1. h.mem[8 - 4] = PACK(8, 1)
    BY <1>1, <1>4
  <2> QED BY <2>1 DEF SizeOf, IsFree, NEXT_BLKP, FTRP, PACK, WSIZE, DSIZE
<1>9. Tagged(h, {8}, 8)
  <2>1. h.mem[8] = h.mem[8 - 4]
    BY <1>1, <1>4
  <2> QED BY <1>4, <1>8, <2>1 DEF Tagged, heap_listp, WSIZE, DSIZE
<1>10. Tiles(h, {8})
  <2>1. h.mem[8 - 4] = PACK(8, 1) /\ h.mem[16 - 4] = PACK(0, 1)
    BY <1>1, <1>4
  <2> QED BY <1>4, <1>8, <1>9, <2>1 DEF Tiles, heap_listp, WSIZE, DSIZE
<1>11. Apart(h, {8}, NULL)
  BY <1>8 DEF Apart
<1>12. Taken(h, {8}) = {}
  BY DEF Taken, heap_listp, WSIZE
<1>13. Sound(h, {8})
  BY <1>4, <1>7, <1>10, <1>11, ConstantsAssumption DEF Sound, heap_listp, WSIZE
<1> QED BY <1>12, <1>13 DEF h, mem, heap_listp, WSIZE

\* mm_init leaves a sound heap with nothing allocated.
LEMMA InitialIsSound ==
    \E C : Sound(InitialHeap, C) /\ Taken(InitialHeap, C) = {}
<1> DEFINE empty == [mem |-> [a \in {0, 4, 8, 12} |->
                                 CASE a = 0 -> PACK(0, 0)
                                   [] a \in {4, 8} -> PACK(DSIZE, 1)
                                   [] a = 12 -> PACK(0, 1)],
                     brk |-> 4 * WSIZE, search_ptr |-> heap_listp]
           r == extend_heap(empty, CHUNKSIZE \div WSIZE)
           g == r.heap
           k == SetSearch(g, heap_listp)
<1>1. InitialHeap = k
  BY DEF InitialHeap
<1>2. Sound(empty, {heap_listp}) /\ Taken(empty, {heap_listp}) = {}
  BY EmptyHeap
<1> HIDE DEF empty
<1>3. /\ IsHeap(empty) /\ Tiles(empty, {heap_listp}) /\ Apart(empty, {heap_listp}, NULL)
      /\ empty.brk <= MaxHeap /\ empty.search_ptr = heap_listp
  BY <1>2 DEF Sound
<1>4. CHUNKSIZE \in Nat /\ CHUNKSIZE % 8 = 0 /\ CHUNKSIZE > 0 /\ CHUNKSIZE < WORD
  BY ConstantsAssumption
<1>5. PICK C :
        /\ IsHeap(g) /\ Tiles(g, C) /\ Apart(g, C, NULL)
        /\ g.brk <= MaxHeap /\ Taken(g, C) = {}
        /\ policy = "next" \/ g.search_ptr = heap_listp
  <2>1. CASE r = Failed(empty)
    <3>1. g = empty
      BY <2>1 DEF Failed
    <3> HIDE DEF g
    <3> QED BY <1>2, <1>3, <3>1
  <2>2. CASE r # Failed(empty)
    <3>1. \E C :
            /\ IsHeap(g) /\ Tiles(g, C) /\ Apart(g, C, NULL)
            /\ g.brk <= MaxHeap
            /\ Taken(g, C) = Taken(empty, {heap_listp})
            /\ g.search_ptr = IF policy = "next" THEN r.bp ELSE empty.search_ptr
      BY <1>3, <1>4, <2>2, Extended
    <3> HIDE DEF g, r
    <3> QED BY <1>2, <1>3, <3>1
  <2> QED BY <2>1, <2>2
<1> HIDE DEF g
<1>6. heap_listp \in Int /\ heap_listp \in C
  BY <1>5 DEF Tiles, heap_listp, WSIZE
<1>7. /\ IsHeap(k) /\ k.mem = g.mem /\ k.brk = g.brk
      /\ k.search_ptr = IF policy = "next" THEN heap_listp ELSE g.search_ptr
      /\ Tiles(k, C)
  BY <1>5, <1>6, SetSearchEffect
<1> HIDE DEF k
<1>8. Apart(k, C, NULL) /\ Taken(k, C) = Taken(g, C)
  BY <1>5, <1>7 DEF Apart, Taken, IsFree, NEXT_BLKP, SizeOf
<1>9. Sound(k, C)
  BY <1>5, <1>6, <1>7, <1>8 DEF Sound
<1> QED BY <1>1, <1>5, <1>8, <1>9

\* The initial states.
LEMMA InitIInv == Init => IInv
<1> SUFFICES ASSUME Init PROVE IInv
  OBVIOUS
<1>1. PICK C : Sound(heap, C) /\ Taken(heap, C) = {}
  BY InitialIsSound DEF Init
<1>2. Blocks(heap) = C
  BY <1>1, BlocksAre DEF Sound
<1>3. DOMAIN live = {} /\ leaked = {}
  BY DEF Init
<1>4. Owned(heap, C, live, leaked)
  BY <1>1, <1>3 DEF Owned
<1> QED BY <1>1, <1>2, <1>4 DEF IInv, Init

\* An invariant of one call of the client is one of its next call: the blocks
\* that Blocks finds are those of the tiling the call has left.
LEMMA TilingIsInvariant ==
    ASSUME IInv, UNCHANGED policy, NEW C, Sound(heap', C), Owned(heap', C, live', leaked')
    PROVE  IInv'
<1>1. Blocks(heap') = C
  BY BlocksAre DEF Sound
<1> QED BY <1>1 DEF IInv, Sound, Owned

\* When malloc returns NULL the heap is what it was.
LEMMA NullMeansUnchanged ==
    ASSUME NEW h, NEW B, Sound(h, B), NEW size \in Nat, size + 15 < WORD,
           mm_malloc(h, size).bp = NULL
    PROVE  mm_malloc(h, size).heap = h
<1> DEFINE r == mm_malloc(h, size)
<1>1. r = Failed(h) \/ \E C : Allocated(h, B, size, r, C)
  BY MallocEffect
<1>2. ~\E C : Allocated(h, B, size, r, C)
  BY BlocksAreNotNull DEF Allocated, Sound
<1> QED BY <1>1, <1>2 DEF Failed

\* malloc.
LEMMA MallocKeepsIInv ==
    ASSUME IInv, NoOverflow, NEW size \in Sizes, Malloc(size)
    PROVE  IInv'
<1> DEFINE r == mm_malloc(heap, size)
<1>1. size \in Nat /\ size + 15 < WORD
  BY ConstantsAssumption DEF NoOverflow
<1>2. Sound(heap, Blocks(heap)) /\ Owned(heap, Blocks(heap), live, leaked)
  BY DEF IInv
<1>3. CASE r.bp = NULL
  <2>1. r.heap = heap
    BY <1>1, <1>2, <1>3, NullMeansUnchanged
  <2>2. heap' = r.heap /\ UNCHANGED <<policy, live, leaked>>
    BY <1>3 DEF Malloc
  <2> QED BY <1>2, <2>1, <2>2, TilingIsInvariant
<1>4. CASE r.bp # NULL
  <2>1. PICK c \in Clients : Mallocated(heap, live, size, c, heap', live') /\ UNCHANGED <<policy, leaked>>
    BY <1>4 DEF Malloc, Mallocated
  <2>2. c \in Nat
    BY ConstantsAssumption
  <2>3. \E C : Sound(heap', C) /\ Owned(heap', C, live', leaked')
    BY <1>1, <1>2, <2>1, <2>2, ClientMallocs
  <2> QED BY <2>1, <2>3, TilingIsInvariant
<1> QED BY <1>3, <1>4

\* free.
LEMMA FreeKeepsIInv ==
    ASSUME IInv, NEW bp \in DOMAIN live, Free(bp)
    PROVE  IInv'
<1>1. Sound(heap, Blocks(heap)) /\ Owned(heap, Blocks(heap), live, leaked)
  BY DEF IInv
<1>2. /\ live' = [q \in DOMAIN live \ {bp} |-> live[q]]
      /\ heap' = Forgotten(mm_free(heap, bp), live')
      /\ UNCHANGED <<policy, leaked>>
  BY DEF Free, Without
<1>3. \E C : Sound(heap', C) /\ Owned(heap', C, live', leaked')
  BY <1>1, <1>2, ClientFrees
<1> QED BY <1>2, <1>3, TilingIsInvariant

\* realloc to size 0: in the first-fit file the block stays allocated.
LEMMA ReallocZeroKeepsIInv ==
    ASSUME IInv, NEW bp \in DOMAIN live, ReallocZero(bp)
    PROVE  IInv'
<1>1. Sound(heap, Blocks(heap)) /\ Owned(heap, Blocks(heap), live, leaked)
  BY DEF IInv
<1>2. /\ live' = [q \in DOMAIN live \ {bp} |-> live[q]]
      /\ \/ heap' = Forgotten(mm_free(heap, bp), live') /\ leaked' = leaked
         \/ heap' = Forgotten(heap, live') /\ leaked' = leaked \cup {bp}
      /\ UNCHANGED policy
  BY DEF ReallocZero, Without
<1>3. \E C : Sound(heap', C) /\ Owned(heap', C, live', leaked')
  BY <1>1, <1>2, ClientFrees
<1> QED BY <1>2, <1>3, TilingIsInvariant

\* realloc to another size.
LEMMA ReallocKeepsIInv ==
    ASSUME IInv, NoOverflow, NEW bp \in DOMAIN live, NEW size \in Sizes, Realloc(bp, size)
    PROVE  IInv'
<1> DEFINE r == mm_malloc(heap, size)
<1>1. size \in Nat /\ size + 15 < WORD
  BY ConstantsAssumption DEF NoOverflow
<1>2. Sound(heap, Blocks(heap)) /\ Owned(heap, Blocks(heap), live, leaked)
  BY DEF IInv
<1>3. CASE r.bp = NULL
  <2>1. r.heap = heap
    BY <1>1, <1>2, <1>3, NullMeansUnchanged
  <2>2. heap' = r.heap /\ UNCHANGED <<policy, live, leaked>>
    BY <1>3 DEF Realloc
  <2> QED BY <1>2, <2>1, <2>2, TilingIsInvariant
<1>4. CASE r.bp # NULL
  <2>1. Reallocated(heap, live, bp, size, heap', live') /\ UNCHANGED <<policy, leaked>>
    BY <1>4 DEF Realloc, Reallocated, Without
  <2>2. \E C : Sound(heap', C) /\ Owned(heap', C, live', leaked')
    BY <1>1, <1>2, <2>1, ClientReallocs
  <2> QED BY <2>1, <2>2, TilingIsInvariant
<1> QED BY <1>3, <1>4

\* Every step keeps the inductive invariant ...
LEMMA StepIInv == IInv /\ NoOverflow /\ [Next]_vars => IInv'
<1> SUFFICES ASSUME IInv, NoOverflow, [Next]_vars PROVE IInv'
  OBVIOUS
<1>1. ASSUME NEW size \in Sizes, Malloc(size) PROVE IInv'
  BY <1>1, MallocKeepsIInv
<1>2. ASSUME NEW bp \in DOMAIN live, Free(bp) PROVE IInv'
  BY <1>2, FreeKeepsIInv
<1>3. ASSUME NEW bp \in DOMAIN live, NEW size \in Sizes, Realloc(bp, size) PROVE IInv'
  BY <1>3, ReallocKeepsIInv
<1>4. ASSUME NEW bp \in DOMAIN live, ReallocZero(bp) PROVE IInv'
  BY <1>4, ReallocZeroKeepsIInv
<1>5. CASE UNCHANGED vars
  BY <1>5 DEF vars, IInv, Sound, Owned
<1> QED BY <1>1, <1>2, <1>3, <1>4, <1>5 DEF Next

\* ... so it holds of every behaviour.
THEOREM HeapInvariant == NoOverflow => (Spec => []IInv)
<1> SUFFICES ASSUME NoOverflow PROVE Spec => []IInv
  OBVIOUS
<1>1. IInv /\ [Next]_vars => IInv'
  BY StepIInv
<1> QED BY <1>1, InitIInv, PTL DEF Spec

----------------------------------------------------------------------------
\* The safety properties

\* What the inductive invariant says of the blocks, for the proofs below.
LEMMA SoundBlocks ==
    ASSUME IInv
    PROVE  /\ IsHeap(heap) /\ Tiles(heap, Blocks(heap)) /\ Apart(heap, Blocks(heap), NULL)
           /\ heap.brk <= MaxHeap
           /\ heap.search_ptr \in Blocks(heap)
           /\ Owned(heap, Blocks(heap), live, leaked)
  BY DEF IInv, Sound

\* The words of the heap are those below brk, search_ptr stays inside, and the
\* pointers that mm_malloc has returned are aligned.
THEOREM TypeCorrect == NoOverflow => (Spec => []TypeOK)
<1>1. ASSUME IInv PROVE TypeOK
  <2> DEFINE B == Blocks(heap)
  <2>1. /\ IsHeap(heap) /\ Tiles(heap, B) /\ heap.brk <= MaxHeap
        /\ heap.search_ptr \in B /\ Owned(heap, B, live, leaked)
    BY <1>1, SoundBlocks
  <2>2. policy \in Policies
    BY <1>1 DEF IInv
  <2> HIDE DEF B
  <2>3. heap.brk \in 0..MaxHeap
    BY <2>1, TagsAreWords, ConstantsAssumption
  <2>4. DOMAIN heap.mem = {WSIZE * i : i \in 0..(heap.brk \div WSIZE - 1)}
    BY <2>1 DEF IsHeap, HeapWords
  <2>5. heap.search_ptr \in 0..heap.brk
    BY <2>1, TagsAreWords DEF heap_listp, WSIZE
  <2>6. \A bp \in DOMAIN live : bp % DSIZE = 0 /\ live[bp].known <= live[bp].size
    BY <2>1, TagsAreWords DEF Owned, Taken, DSIZE
  <2> QED BY <2>2, <2>3, <2>4, <2>5, <2>6 DEF TypeOK
<1> QED BY <1>1, HeapInvariant, PTL

\* The blocks tile the heap: the sizes in the headers lead from the prologue to
\* the epilogue, and every footer repeats its header.
THEOREM HeapIsTiled == NoOverflow => (Spec => []BlocksTileHeap)
<1>1. ASSUME IInv PROVE BlocksTileHeap
  <2> DEFINE B == Blocks(heap)
             last == Sets!Max(B)
  <2>1. IsHeap(heap) /\ Tiles(heap, B)
    BY <1>1, SoundBlocks
  <2> HIDE DEF B
  <2>2. last \in B /\ \A b \in B : b <= last
    <3>1. B \in SUBSET Int /\ IsFiniteSet(B) /\ B # {}
      <4>1. IsFiniteSet(B \cup {heap.brk}) /\ B \cup {heap.brk} \in SUBSET Int
        BY <2>1, WalkEnds
      <4>2. IsFiniteSet(B)
        BY <4>1, FS_Subset
      <4> QED BY <2>1, <4>1, <4>2, BlocksAreNotNull
    <3>2. \E x \in B : \A b \in B : x >= b
      BY <3>1, LargestExists
    <3>3. last = CHOOSE x \in B : \A b \in B : x >= b
      BY DEF Sets!Max
    <3> QED BY <3>1, <3>2, <3>3
  <2> HIDE DEF last
  <2>3. NEXT_BLKP(heap, last) = heap.brk
    BY <2>1, <2>2, TagsAreWords DEF Tiles, Tagged
  <2>4. ~IsFree(heap, heap.brk)
    BY <2>1 DEF Tiles, IsFree, PACK
  <2>5. \A bp \in B : heap.mem[FTRP(heap, bp)] = heap.mem[bp - WSIZE]
    BY <2>1 DEF Tiles, Tagged
  <2> QED BY <2>3, <2>4, <2>5 DEF BlocksTileHeap, B, last
<1> QED BY <1>1, HeapInvariant, PTL

\* No two free blocks touch: coalescing misses no case.
THEOREM Coalescing == NoOverflow => (Spec => []FreeBlocksCoalesced)
<1>1. ASSUME IInv PROVE FreeBlocksCoalesced
  <2> SUFFICES ASSUME NEW bp \in Blocks(heap), IsFree(heap, bp), NEXT_BLKP(heap, bp) # heap.brk
               PROVE  ~IsFree(heap, NEXT_BLKP(heap, bp))
    BY DEF FreeBlocksCoalesced
  <2>1. NEXT_BLKP(heap, bp) \in Blocks(heap)
    BY <1>1, SoundBlocks DEF Tiles, Tagged
  <2> QED BY <1>1, <2>1, SoundBlocks, ApartAnyway
<1> QED BY <1>1, HeapInvariant, PTL

\* Every allocated block is a region of the client, with room for what was asked,
\* or one that mm_realloc(p, 0) has leaked, never both.
THEOREM RegionsAreAllocated == NoOverflow => (Spec => []LiveIsAllocated)
<1>1. ASSUME IInv PROVE LiveIsAllocated
  BY <1>1, SoundBlocks DEF LiveIsAllocated, Owned, Taken
<1> QED BY <1>1, HeapInvariant, PTL

\* search_ptr is the start of a block, whatever was merged or split since.
THEOREM SearchPointer == NoOverflow => (Spec => []SearchStartsAtBlock)
<1>1. ASSUME IInv PROVE SearchStartsAtBlock
  BY <1>1, SoundBlocks DEF SearchStartsAtBlock
<1> QED BY <1>1, HeapInvariant, PTL

\* mm_malloc and mm_realloc ask for memory only when no free block is large
\* enough.
THEOREM GrowsForNeed == NoOverflow => (Spec => GrowsOnlyWhenFull)
<1> SUFFICES ASSUME NoOverflow PROVE Spec => GrowsOnlyWhenFull
  OBVIOUS
<1> DEFINE Takes(size) == Malloc(size) \/ \E old \in DOMAIN live : Realloc(old, size)
           Full(size) ==
              \A bp \in Blocks(heap) : IsFree(heap, bp) => SizeOf(heap, bp) < AdjustedSize(size)
<1>1. ASSUME IInv, NEW size \in Sizes, Takes(size), heap'.brk # heap.brk PROVE Full(size)
  <2> DEFINE r == mm_malloc(heap, size)
  <2>1. size \in Nat /\ size + 15 < WORD
    BY ConstantsAssumption DEF NoOverflow
  <2>2. Sound(heap, Blocks(heap)) /\ Owned(heap, Blocks(heap), live, leaked)
    BY <1>1 DEF IInv
  <2>3. r.bp # NULL
    <3>1. r.bp = NULL => r.heap = heap
      BY <2>1, <2>2, NullMeansUnchanged
    <3>2. r.bp = NULL => heap' = r.heap
      BY <1>1 DEF Malloc, Realloc
    <3> QED BY <1>1, <3>1, <3>2
  <2>4. heap'.brk = r.heap.brk
    <3>1. CASE Malloc(size)
      <4>1. PICK c \in Clients : Mallocated(heap, live, size, c, heap', live')
        BY <2>3, <3>1 DEF Malloc, Mallocated
      <4> QED BY <2>1, <2>2, <4>1, ClientMallocs, ConstantsAssumption
    <3>2. ASSUME NEW old \in DOMAIN live, Realloc(old, size) PROVE heap'.brk = r.heap.brk
      <4>1. Reallocated(heap, live, old, size, heap', live')
        BY <2>3, <3>2 DEF Realloc, Reallocated, Without
      <4>2. /\ Sound(heap, Blocks(heap)) /\ Owned(heap, Blocks(heap), live, leaked)
            /\ old \in DOMAIN live /\ size \in Nat /\ size + 15 < WORD
        BY <2>1, <2>2, <3>2
      <4> DEFINE bp == mm_malloc(heap, size).bp
                 known == Lesser(live[old].known, size)
      <4>3. \E C :
               /\ Sound(heap', C) /\ Owned(heap', C, live', leaked)
               /\ bp \in C /\ bp \notin DOMAIN live
               /\ KnownKept(heap, heap', live, DOMAIN live \ {old})
               /\ \A i \in 0..((known + 3) \div 4 - 1) :
                     heap'.mem[bp + WSIZE * i] = heap.mem[old + WSIZE * i]
               /\ heap'.brk = mm_malloc(heap, size).heap.brk /\ heap.brk <= heap'.brk
        BY <4>1, <4>2, ClientReallocs
      <4> QED BY <4>3
    <3> QED BY <1>1, <3>1, <3>2
  <2>5. r # Failed(heap)
    BY <2>3 DEF Failed
  <2> QED BY <1>1, <2>1, <2>2, <2>4, <2>5, MallocEffect
<1>2. IInv /\ [Next]_vars
      => [\A size \in Sizes :
             /\ Malloc(size) \/ \E old \in DOMAIN live : Realloc(old, size)
             /\ heap'.brk # heap.brk
             => \A bp \in Blocks(heap) :
                   IsFree(heap, bp) => SizeOf(heap, bp) < AdjustedSize(size)]_vars
  BY <1>1
<1> QED BY <1>2, HeapInvariant, PTL DEF Spec, GrowsOnlyWhenFull

----------------------------------------------------------------------------
\* The promise of malloc, free and realloc

\* What the client knows of a region, as the abstract specification has it.
KnownData(h, regions, q) ==
    [w \in 0..((regions[q].known + 3) \div 4 - 1) |-> h.mem[q + WSIZE * w]]

Regions(h, regions) ==
    [q \in DOMAIN regions |-> [size |-> regions[q].size, data |-> KnownData(h, regions, q)]]

\* Regions that are kept have the same contents.
LEMMA SameContents ==
    ASSUME NEW h, NEW g, NEW regions, NEW regions2, NEW q, regions2[q] = regions[q],
           \A a \in RegionWords(q, regions[q].known) : g.mem[a] = h.mem[a]
    PROVE  KnownData(g, regions2, q) = KnownData(h, regions, q)
<1>1. \A w \in 0..((regions[q].known + 3) \div 4 - 1) :
         g.mem[q + WSIZE * w] = h.mem[q + WSIZE * w]
  BY DEF RegionWords
<1> QED BY <1>1 DEF KnownData

\* A block of the heap is a pointer that the abstract specification can return,
\* with room for its region below the end of the heap.
LEMMA BlocksArePtrs ==
    ASSUME NEW h, NEW B, Sound(h, B), NEW q \in B, NEW size \in Nat, size + DSIZE <= SizeOf(h, q)
    PROVE  q \in Abstract!Ptrs /\ q + size <= h.brk
<1>1. /\ q \in Int /\ q % 8 = 0 /\ q >= 8 /\ SizeOf(h, q) \in Int
      /\ NEXT_BLKP(h, q) <= h.brk /\ NEXT_BLKP(h, q) = q + SizeOf(h, q)
      /\ h.brk \in Nat /\ h.brk <= MaxHeap
  BY TagsAreWords DEF Sound, NEXT_BLKP, heap_listp, WSIZE
<1> QED BY <1>1, ConstantsAssumption DEF Abstract!Ptrs, DSIZE

\* The regions of two blocks are disjoint.
LEMMA BlocksAreDisjoint ==
    ASSUME NEW h, NEW B, Sound(h, B), NEW p \in B, NEW q \in B, p # q,
           NEW m \in Nat, m + DSIZE <= SizeOf(h, p),
           NEW n \in Nat, n + DSIZE <= SizeOf(h, q)
    PROVE  Abstract!Region(p, m) \cap Abstract!Region(q, n) = {}
<1>1. /\ p \in Int /\ q \in Int /\ SizeOf(h, p) \in Int /\ SizeOf(h, q) \in Int
      /\ NEXT_BLKP(h, p) = p + SizeOf(h, p) /\ NEXT_BLKP(h, q) = q + SizeOf(h, q)
  BY TagsAreWords DEF Sound, NEXT_BLKP
<1>2. NEXT_BLKP(h, p) <= q \/ NEXT_BLKP(h, q) <= p
  BY <1>1 DEF Sound, Tiles
<1> QED BY <1>1, <1>2 DEF Abstract!Region, DSIZE

\* malloc is the abstract malloc ...
LEMMA MallocIsMalloc ==
    ASSUME IInv, NoOverflow, 0 \notin Clients,
           NEW size \in Sizes, Malloc(size), mm_malloc(heap, size).bp # NULL
    PROVE  Abstract!Malloc(size) /\ heap.brk <= heap'.brk
<1> DEFINE r == mm_malloc(heap, size)
           bp == r.bp
           A == Regions(heap, live)
           A2 == Regions(heap', live')
           data(c) == [w \in Abstract!Words(size) |-> Data(c)]
<1>1. size \in Nat /\ size + 15 < WORD
  BY ConstantsAssumption DEF NoOverflow
<1>2. Sound(heap, Blocks(heap)) /\ Owned(heap, Blocks(heap), live, leaked)
  BY DEF IInv
<1>3. PICK c \in Clients : Mallocated(heap, live, size, c, heap', live') /\ leaked' = leaked
  BY DEF Malloc, Mallocated
<1>4. c \in Nat /\ c # 0
  BY ConstantsAssumption
<1>5. PICK C :
        /\ Sound(heap', C) /\ Owned(heap', C, live', leaked')
        /\ bp \in C /\ bp \notin DOMAIN live
        /\ KnownKept(heap, heap', live, DOMAIN live)
        /\ c # 0 => \A a \in RegionWords(bp, size) : heap'.mem[a] = Data(c)
        /\ heap'.brk = r.heap.brk /\ heap.brk <= heap'.brk
  BY <1>1, <1>2, <1>3, <1>4, ClientMallocs
<1>6. /\ DOMAIN live' = DOMAIN live \cup {bp}
      /\ live'[bp].size = size /\ live'[bp].known = size
      /\ \A q \in DOMAIN live : live'[q] = live[q]
  <2>1. live' = With(live, bp, [size |-> size, known |-> size])
    BY <1>3, <1>4 DEF Mallocated
  <2> HIDE DEF r
  <2> QED BY <1>5, <2>1 DEF With
<1> HIDE DEF r
<1>7. \A q \in DOMAIN live' : /\ q \in C /\ live'[q].size \in Nat
                              /\ live'[q].size + DSIZE <= SizeOf(heap', q)
  BY <1>5 DEF Owned, Taken
<1>8. bp \in Abstract!Ptrs /\ bp + size <= heap'.brk
  BY <1>1, <1>5, <1>6, <1>7, BlocksArePtrs
<1>9. \A q \in DOMAIN live : Abstract!Region(bp, size) \cap Abstract!Region(q, live[q].size) = {}
  <2> SUFFICES ASSUME NEW q \in DOMAIN live
               PROVE  Abstract!Region(bp, size) \cap Abstract!Region(q, live[q].size) = {}
    OBVIOUS
  <2>1. q \in DOMAIN live' /\ bp \in DOMAIN live' /\ q # bp /\ live'[q] = live[q]
    BY <1>5, <1>6
  <2> QED BY <1>5, <1>6, <1>7, <2>1, BlocksAreDisjoint
<1>10. \A q \in DOMAIN live : KnownData(heap', live', q) = KnownData(heap, live, q)
  BY <1>5, <1>6, SameContents DEF KnownKept
<1>11. KnownData(heap', live', bp) = data(c)
  <2>1. \A w \in 0..((size + 3) \div 4 - 1) : heap'.mem[bp + WSIZE * w] = Data(c)
    BY <1>4, <1>5 DEF RegionWords
  <2> QED BY <1>6, <2>1 DEF KnownData, Abstract!Words
<1>12. A2 = Abstract!With(A, bp, [size |-> size, data |-> data(c)])
  <2> HIDE DEF data
  <2> QED BY <1>5, <1>6, <1>10, <1>11 DEF Regions, Abstract!With
<1>13. Abstract!Disjoint(bp, size, DOMAIN A)
  BY <1>9 DEF Abstract!Disjoint, Regions
<1>14. Abstract!Malloc(size)
  BY <1>8, <1>12, <1>13 DEF Abstract!Malloc, Regions, KnownData
<1> QED BY <1>5, <1>14

\* ... realloc is the abstract realloc ...
LEMMA ReallocIsRealloc ==
    ASSUME IInv, NoOverflow, NEW old \in DOMAIN live,
           NEW size \in Sizes, Realloc(old, size), mm_malloc(heap, size).bp # NULL
    PROVE  Abstract!Realloc(old, size) /\ heap.brk <= heap'.brk
<1> DEFINE bp == mm_malloc(heap, size).bp
           known == Lesser(live[old].known, size)
           A == Regions(heap, live)
           A2 == Regions(heap', live')
           D == Abstract!Words(size) \cap DOMAIN A[old].data
           data == [w \in D |-> A[old].data[w]]
<1>1. size \in Nat /\ size + 15 < WORD
  BY ConstantsAssumption DEF NoOverflow
<1>2. Sound(heap, Blocks(heap)) /\ Owned(heap, Blocks(heap), live, leaked)
  BY DEF IInv
<1>3. Reallocated(heap, live, old, size, heap', live') /\ leaked' = leaked
  BY DEF Realloc, Reallocated, Without
<1>4. PICK C :
        /\ Sound(heap', C) /\ Owned(heap', C, live', leaked')
        /\ bp \in C /\ bp \notin DOMAIN live
        /\ KnownKept(heap, heap', live, DOMAIN live \ {old})
        /\ \A i \in 0..((known + 3) \div 4 - 1) :
              heap'.mem[bp + WSIZE * i] = heap.mem[old + WSIZE * i]
        /\ heap.brk <= heap'.brk
  <2>1. \E C :
           /\ Sound(heap', C) /\ Owned(heap', C, live', leaked)
           /\ bp \in C /\ bp \notin DOMAIN live
           /\ KnownKept(heap, heap', live, DOMAIN live \ {old})
           /\ \A i \in 0..((known + 3) \div 4 - 1) :
                 heap'.mem[bp + WSIZE * i] = heap.mem[old + WSIZE * i]
           /\ heap'.brk = mm_malloc(heap, size).heap.brk /\ heap.brk <= heap'.brk
    BY <1>1, <1>2, <1>3, ClientReallocs
  <2> HIDE DEF bp, known
  <2> QED BY <1>3, <2>1
<1>5. /\ DOMAIN live' = (DOMAIN live \ {old}) \cup {bp}
      /\ live'[bp].size = size /\ live'[bp].known = known
      /\ \A q \in DOMAIN live \ {old} : live'[q] = live[q]
  <2> DEFINE rest == [q \in DOMAIN live \ {old} |-> live[q]]
  <2>1. live' = With(rest, bp, [size |-> size, known |-> known])
    BY <1>3 DEF Reallocated
  <2> HIDE DEF bp, known
  <2> QED BY <1>4, <2>1 DEF With
<1> HIDE DEF bp
<1>6. \A q \in DOMAIN live' : /\ q \in C /\ live'[q].size \in Nat
                              /\ live'[q].size + DSIZE <= SizeOf(heap', q)
  BY <1>4 DEF Owned, Taken
<1>7. bp \in Abstract!Ptrs /\ bp + size <= heap'.brk
  BY <1>1, <1>4, <1>5, <1>6, BlocksArePtrs
<1>8. \A q \in DOMAIN live \ {old} :
         Abstract!Region(bp, size) \cap Abstract!Region(q, live[q].size) = {}
  <2> SUFFICES ASSUME NEW q \in DOMAIN live \ {old}
               PROVE  Abstract!Region(bp, size) \cap Abstract!Region(q, live[q].size) = {}
    OBVIOUS
  <2>1. q \in DOMAIN live' /\ bp \in DOMAIN live' /\ q # bp /\ live'[q] = live[q]
    BY <1>4, <1>5
  <2> QED BY <1>4, <1>5, <1>6, <2>1, BlocksAreDisjoint
<1>9. \A q \in DOMAIN live \ {old} : KnownData(heap', live', q) = KnownData(heap, live, q)
  BY <1>4, <1>5, SameContents DEF KnownKept
<1>10. D = 0..((known + 3) \div 4 - 1)
  <2>1. live[old].known \in Nat
    BY <1>2 DEF Owned
  <2>2. DOMAIN A[old].data = 0..((live[old].known + 3) \div 4 - 1)
    BY DEF Regions, KnownData
  <2>3. \A m, n \in Nat : m <= n => (m + 3) \div 4 <= (n + 3) \div 4
    OBVIOUS
  <2>4. (size + 3) \div 4 \in Int /\ (live[old].known + 3) \div 4 \in Int
    BY <1>1, <2>1
  <2> DEFINE x == (size + 3) \div 4
             y == (live[old].known + 3) \div 4
  <2>5. IF live[old].known < size THEN known = live[old].known /\ y <= x ELSE known = size /\ x <= y
    BY <1>1, <2>1, <2>3 DEF Lesser
  <2>6. (known + 3) \div 4 = IF live[old].known < size THEN y ELSE x
    BY <2>5
  <2> HIDE DEF x, y
  <2>7. D = (0..(x - 1)) \cap (0..(y - 1))
    BY <2>2 DEF Abstract!Words, x, y
  <2> HIDE DEF D, known
  <2> QED BY <2>4, <2>5, <2>6, <2>7 DEF x, y
<1>11. KnownData(heap', live', bp) = data
  <2>1. \A i \in D : A[old].data[i] = heap.mem[old + WSIZE * i]
    BY DEF Regions, KnownData
  <2> HIDE DEF D, A, known
  <2>2. KnownData(heap', live', bp) = [w \in D |-> heap'.mem[bp + WSIZE * w]]
    BY <1>5, <1>10 DEF KnownData
  <2> QED BY <1>4, <1>10, <2>1, <2>2
<1>12. A2 = Abstract!With(Abstract!Without(A, old), bp, [size |-> size, data |-> data])
  <2> HIDE DEF data
  <2> QED BY <1>4, <1>5, <1>9, <1>11 DEF Regions, Abstract!With, Abstract!Without
<1>13. Abstract!Disjoint(bp, size, DOMAIN A \ {old})
  BY <1>8 DEF Abstract!Disjoint, Regions
<1>14. Abstract!Realloc(old, size)
  BY <1>7, <1>12, <1>13 DEF Abstract!Realloc, Regions, KnownData
<1> QED BY <1>4, <1>14

\* ... and free the abstract free, as is a realloc to size 0.
LEMMA FreeIsFree ==
    ASSUME IInv, NEW bp \in DOMAIN live, Free(bp) \/ ReallocZero(bp)
    PROVE  Abstract!Free(bp) /\ heap'.brk = heap.brk
<1>1. Sound(heap, Blocks(heap)) /\ Owned(heap, Blocks(heap), live, leaked)
  BY DEF IInv
<1>2. /\ live' = [q \in DOMAIN live \ {bp} |-> live[q]]
      /\ \/ heap' = Forgotten(mm_free(heap, bp), live') /\ leaked' = leaked
         \/ heap' = Forgotten(heap, live') /\ leaked' = leaked \cup {bp}
  BY DEF Free, ReallocZero, Without
<1>3. KnownKept(heap, heap', live', DOMAIN live') /\ heap'.brk = heap.brk
  BY <1>1, <1>2, ClientFrees
<1>4. DOMAIN live' = DOMAIN live \ {bp} /\ \A q \in DOMAIN live' : live'[q] = live[q]
  BY <1>2
<1>5. \A q \in DOMAIN live' : KnownData(heap', live', q) = KnownData(heap, live, q)
  BY <1>3, <1>4, SameContents DEF KnownKept
<1>6. Regions(heap', live') = Abstract!Without(Regions(heap, live), bp)
  BY <1>4, <1>5 DEF Regions, Abstract!Without
<1> QED BY <1>3, <1>6 DEF Abstract!Free, Regions, KnownData

\* The initial states are initial states of the abstract specification ...
LEMMA InitRefines == Init /\ IInv => Abstract!Init
<1> SUFFICES ASSUME Init, IInv PROVE Abstract!Init
  OBVIOUS
<1>1. heap.brk \in 0..MaxHeap
  BY SoundBlocks, TagsAreWords, ConstantsAssumption
<1>2. Regions(heap, live) = <<>>
  BY DEF Init, Regions
<1> QED BY <1>1, <1>2 DEF Abstract!Init, Regions, KnownData

\* ... and every step is a step of it, or changes nothing that it sees.
LEMMA StepRefines ==
    ASSUME IInv, IInv', NoOverflow, 0 \notin Clients, [Next]_vars
    PROVE  Abstract!Next \/ UNCHANGED <<Regions(heap, live), heap.brk>>
<1> DEFINE Goal == Abstract!Next \/ UNCHANGED <<Regions(heap, live), heap.brk>>
<1> SUFFICES Goal
  OBVIOUS
<1>1. heap.brk \in Nat /\ heap'.brk \in Nat /\ heap'.brk <= MaxHeap
  <2>1. heap.brk \in Nat
    BY SoundBlocks, TagsAreWords
  <2>2. IsHeap(heap') /\ Tiles(heap', Blocks(heap')) /\ heap'.brk <= MaxHeap
    BY DEF IInv, Sound
  <2>3. heap'.brk \in Nat /\ heap'.brk <= MaxHeap
    BY <2>2, TagsAreWords
  <2> QED BY <2>1, <2>3
<1>2. heap.brk <= heap'.brk => heap'.brk \in heap.brk..MaxHeap
  BY <1>1, ConstantsAssumption
<1>3. \A q : q \in DOMAIN Regions(heap, live) <=> q \in DOMAIN live
  BY DEF Regions
<1>4. UNCHANGED <<heap, live>> => Goal
  BY DEF Regions, KnownData
<1>5. ASSUME NEW size \in Sizes, mm_malloc(heap, size).bp = NULL
      PROVE  mm_malloc(heap, size).heap = heap
  <2>1. size \in Nat /\ size + 15 < WORD
    BY ConstantsAssumption DEF NoOverflow
  <2> QED BY <1>5, <2>1, NullMeansUnchanged DEF IInv
<1>6. ASSUME NEW size \in Sizes, Malloc(size) PROVE Goal
  <2>1. CASE mm_malloc(heap, size).bp = NULL
    <3>1. UNCHANGED <<heap, live>>
      BY <1>5, <1>6, <2>1 DEF Malloc
    <3> QED BY <1>4, <3>1
  <2>2. CASE mm_malloc(heap, size).bp # NULL
    <3>1. Abstract!Malloc(size) /\ heap.brk <= heap'.brk
      BY <1>6, <2>2, MallocIsMalloc
    <3> QED BY <1>2, <3>1 DEF Abstract!Next
  <2> QED BY <2>1, <2>2
<1>7. ASSUME NEW bp \in DOMAIN live, NEW size \in Sizes, Realloc(bp, size) PROVE Goal
  <2>1. CASE mm_malloc(heap, size).bp = NULL
    <3>1. UNCHANGED <<heap, live>>
      BY <1>5, <1>7, <2>1 DEF Realloc
    <3> QED BY <1>4, <3>1
  <2>2. CASE mm_malloc(heap, size).bp # NULL
    <3>1. Abstract!Realloc(bp, size) /\ heap.brk <= heap'.brk
      BY <1>7, <2>2, ReallocIsRealloc
    <3> QED BY <1>2, <1>3, <3>1 DEF Abstract!Next, Regions, KnownData
  <2> QED BY <2>1, <2>2
<1>8. ASSUME NEW bp \in DOMAIN live, Free(bp) \/ ReallocZero(bp) PROVE Goal
  <2>1. Abstract!Free(bp) /\ heap'.brk = heap.brk
    BY <1>8, FreeIsFree
  <2>2. heap'.brk \in heap.brk..MaxHeap
    BY <1>1, <1>2, <2>1
  <2>3. bp \in DOMAIN Regions(heap, live)
    BY <1>3
  <2> QED BY <2>1, <2>2, <2>3 DEF Abstract!Next, Regions, KnownData
<1>9. CASE UNCHANGED vars
  BY <1>4, <1>9 DEF vars
<1> HIDE DEF Goal
<1>10. CASE Next
  <2>1. CASE \E size \in Sizes : Malloc(size)
    BY <1>6, <2>1
  <2>2. CASE \E bp \in DOMAIN live, size \in Sizes : Realloc(bp, size)
    BY <1>7, <2>2
  <2>3. CASE \E bp \in DOMAIN live : Free(bp) \/ ReallocZero(bp)
    BY <1>8, <2>3
  <2> QED BY <1>10, <2>1, <2>2, <2>3 DEF Next
<1> QED BY <1>9, <1>10

\* The package keeps the promise of malloc, free and realloc, to a client that
\* writes what it gets.
THEOREM Implementation == NoOverflow /\ 0 \notin Clients => (Spec => ImplementsAllocator)
<1> SUFFICES ASSUME NoOverflow, 0 \notin Clients PROVE Spec => ImplementsAllocator
  OBVIOUS
<1>1. Init /\ IInv => Abstract!Init
  BY InitRefines
<1>2. IInv /\ IInv' /\ [Next]_vars
      => [Abstract!Next]_<<[bp \in DOMAIN live |->
                              [size |-> live[bp].size,
                               data |-> [w \in 0..((live[bp].known + 3) \div 4 - 1) |->
                                            heap.mem[bp + WSIZE * w]]]], heap.brk>>
  BY StepRefines DEF Regions, KnownData
<1>3. Spec => []IInv
  BY HeapInvariant
<1> QED BY <1>1, <1>2, <1>3, PTL DEF Spec, ImplementsAllocator, Abstract!Spec
=============================================================================
