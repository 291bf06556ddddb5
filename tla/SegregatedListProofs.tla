------------------------ MODULE SegregatedListProofs ------------------------
(* Theorems about module SegregatedList.  As long as no call has broken the *)
(* promise of malloc, the heap between two calls is tiled by blocks, the    *)
(* free ones are linked and do not touch, and the client's regions are      *)
(* allocated blocks.  The words that place and coalesce leave behind in a   *)
(* free block are part of the invariant too: what makes a wrong place show  *)
(* is that the model has forgotten the word before a free block's footer.   *)
EXTENDS SegregatedLemmas, TLAPS

----------------------------------------------------------------------------
\* The inductive invariant

IInv ==
    /\ misled \in BOOLEAN
    /\ Bounded(heap) /\ heap.brk <= MaxHeap
    /\ \A q \in DOMAIN live : q % DSIZE = 0 /\ live[q].known <= live[q].size
    /\ ~misled => Ready(heap, Blocks(heap)) /\ Owned(heap, Blocks(heap), live)

\* The allocated blocks.
Held == Taken(heap, Blocks(heap))

\* Every block for a request of the client can be counted by an int.  (Beyond, the
\* arithmetic of size_t and int wraps around, and mm_realloc misleads more often:
\* run heap_segregated has such sizes.)
NoOverflow == \A size \in Sizes : size + 16 < WORD \div 2

LEMMA SizesAreModerate ==
    ASSUME NoOverflow, NEW size \in Sizes
    PROVE  Moderate(size) /\ size \in Nat
BY SegregatedAssumption DEF NoOverflow, Moderate

\* The heap before the first chunk: padding, the prologue and the epilogue.
LEMMA EmptyHeap ==
    ASSUME NEW h, h = [mem   |-> [a \in {0, 4, 8, 12} |->
                                     CASE a = 0 -> 0
                                       [] a \in {4, 8} -> PACK(DSIZE, 1)
                                       [] a = 12 -> PACK(0, 1)],
                       brk   |-> 4 * WSIZE,
                       lists |-> [list \in 0..(LISTLIMIT - 1) |-> NULL]]
    PROVE  InOrder(h, {8}) /\ Frees(h, {8}) = {} /\ h.brk = 16
<1>1. /\ h.brk = 16 /\ h.mem[4] = 9 /\ h.mem[8] = 9 /\ h.mem[12] = 1 /\ h.mem[0] = 0
      /\ DOMAIN h.mem = {0, 4, 8, 12} /\ h.lists = [list \in Lists |-> 0]
  BY DEF PACK, DSIZE, WSIZE, Lists, NULL
<1>2. HeapWords(16) = {0, 4, 8, 12}
  <2>1. \A a \in Int : a % 4 = 0 /\ 0 <= a /\ a < 16 <=> a \in {0, 4, 8, 12}
    OBVIOUS
  <2>2. 16 % 8 = 0 /\ 16 \in Nat
    OBVIOUS
  <2>3. \A a \in Int : a \in HeapWords(16) <=> a \in {0, 4, 8, 12}
    BY <2>1, <2>2, HeapWordsAre
  <2>4. HeapWords(16) \subseteq Int
    BY DEF HeapWords, WSIZE
  <2> QED BY <2>3, <2>4
<1>3. IsHeap(h)
  <2>1. h.mem \in [HeapWords(16) -> Int]
    <3>1. h.mem = [a \in {0, 4, 8, 12} |-> h.mem[a]]
      OBVIOUS
    <3>2. \A a \in {0, 4, 8, 12} : h.mem[a] \in Int
      BY <1>1
    <3> QED BY <1>2, <3>1, <3>2
  <2>2. h.lists \in [Lists -> Int]
    <3>1. h.lists = [list \in Lists |-> 0] /\ 0 \in Int
      BY <1>1
    <3> QED BY ONLY <3>1
  <2>3. h = [mem |-> h.mem, brk |-> h.brk, lists |-> h.lists]
    OBVIOUS
  <2>4. 16 % 8 = 0
    OBVIOUS
  <2> QED BY <1>1, <2>1, <2>2, <2>3, <2>4 DEF IsHeap
<1>4. SizeOf(h, 8) = 8 /\ ~IsFree(h, 8) /\ NEXT_BLKP(h, 8) = 16 /\ FTRP(h, 8) = 8
  <2>1. h.mem[8 - WSIZE] = 9
    BY <1>1 DEF WSIZE
  <2>2. GET_SIZE(9) = 8
    BY DEF GET_SIZE
  <2>3. 9 % 2 = 1
    OBVIOUS
  <2>4. ~IsFree(h, 8)
    BY <2>1, <2>3 DEF IsFree
  <2>5. SizeOf(h, 8) = 8
    BY <2>1, <2>2 DEF SizeOf
  <2>6. 8 + 8 = 16 /\ 8 + 8 - 8 = 8
    OBVIOUS
  <2> QED BY <2>4, <2>5, <2>6 DEF NEXT_BLKP, FTRP, DSIZE
<1>5. Tiles(h, {8})
  <2>1. Tagged(h, {8}, 8)
    <3>1. 8 \in 8..(16 - 8) /\ 8 % 8 = 0 /\ 8 - 4 = 4
      OBVIOUS
    <3>2. h.mem[FTRP(h, 8)] = h.mem[8 - 4]
      BY ONLY <1>1, <1>4, <3>1
    <3>3. SizeOf(h, 8) >= 8
      BY ONLY <1>4
    <3> QED BY <1>1, <1>4, <3>1, <3>2, <3>3 DEF Tagged, DSIZE, WSIZE
  <2>2. \A c \in {8} \cup {h.brk} : c # DSIZE => \E b \in {8} : NEXT_BLKP(h, b) = c
    BY <1>1, <1>4 DEF DSIZE
  <2>3. h.mem[8 - 4] = 8 + 1 /\ h.mem[16 - 4] = 0 + 1
    BY <1>1
  <2>4. \A b, c \in {8} : b < c => NEXT_BLKP(h, b) <= c
    OBVIOUS
  <2> QED BY ONLY <1>1, <2>1, <2>2, <2>3, <2>4 DEF Tiles, DSIZE, WSIZE, PACK
<1>6. Frees(h, {8}) = {}
  BY <1>4 DEF Frees
<1>7. Linked(h, {})
  <2>1. \A c \in Lists : h.lists[c] = NULL
    BY <1>1 DEF NULL
  <2> QED BY <2>1 DEF Linked, ArePlaces, Chain
<1> QED BY <1>1, <1>3, <1>5, <1>6, <1>7 DEF InOrder

\* mm_init leaves a heap that is ready for the first call, whether or not there
\* was memory for the first chunk.
LEMMA InitIsReady ==
    \E B : Ready(InitialHeap, B) /\ InitialHeap.brk <= MaxHeap /\ Taken(InitialHeap, B) = {}
<1> DEFINE h == [mem   |-> [a \in {0, 4, 8, 12} |->
                               CASE a = 0 -> 0
                                 [] a \in {4, 8} -> PACK(DSIZE, 1)
                                 [] a = 12 -> PACK(0, 1)],
                 brk   |-> 4 * WSIZE,
                 lists |-> [list \in 0..(LISTLIMIT - 1) |-> NULL]]
           r == extend_heap(h, CHUNKSIZE \div WSIZE)
<1>1. InOrder(h, {8}) /\ Frees(h, {8}) = {} /\ h.brk = 16
  BY EmptyHeap
<1>2. InitialHeap = r.heap
  BY DEF InitialHeap
<1>3. r = extend_heap(h, CHUNKSIZE \div WSIZE)
  OBVIOUS
<1> HIDE DEF h, r
<1>4. Apart(h, {8}, NULL)
  BY <1>1 DEF Apart, Frees
<1>5. CHUNKSIZE \in Int /\ CHUNKSIZE % 8 = 0 /\ CHUNKSIZE >= 24
  BY SegregatedAssumption
<1>6. \/ h.brk + CHUNKSIZE > MaxHeap /\ r = Failed(h)
      \/ h.brk + CHUNKSIZE <= MaxHeap /\ Extension(h, {8}, CHUNKSIZE, r)
  BY <1>1, <1>3, <1>4, <1>5, ExtendedFits
<1>7. CASE r = Failed(h)
  <2>1. r.heap = h
    BY <1>7 DEF Failed
  <2>2. Ready(h, {8})
    BY <1>1, <1>4 DEF Ready
  <2>3. Taken(h, {8}) = {}
    BY DEF Taken, DSIZE
  <2> QED BY <1>1, <1>2, <2>1, <2>2, <2>3, SegregatedAssumption
<1>8. CASE h.brk + CHUNKSIZE <= MaxHeap /\ Extension(h, {8}, CHUNKSIZE, r)
  <2>1. /\ r.heap.brk = h.brk + CHUNKSIZE /\ InOrder(r.heap, {8} \cup {r.bp})
        /\ Apart(r.heap, {8} \cup {r.bp}, NULL)
        /\ NEXT_BLKP(r.heap, r.bp) = r.heap.brk /\ r.heap.mem[r.heap.brk - 12] = Junk
    BY <1>8 DEF Extension
  <2>2. 8 \notin Frees(r.heap, {8} \cup {r.bp})
    BY <2>1, FreesAre DEF InOrder, DSIZE
  <2>3. \A b \in Frees(r.heap, {8} \cup {r.bp}) : b = r.bp
    BY <2>2 DEF Frees
  <2>4. Ready(r.heap, {8} \cup {r.bp})
    BY <2>1, <2>3 DEF Ready
  <2>5. Taken(r.heap, {8} \cup {r.bp}) = {}
    <3>1. Taken(h, {8}) = {}
      BY DEF Taken, DSIZE
    <3>2. Source(h, {8}, r.heap, {8} \cup {r.bp}, r.bp)
      <4>1. CHUNKSIZE >= 0
        BY <1>5
      <4> QED BY <1>1, <1>5, <1>8, <4>1, ExtensionIsSource
    <3>3. Taken(r.heap, {8} \cup {r.bp}) = Taken(h, {8})
      BY <3>2 DEF Source
    <3> QED BY <3>1, <3>3
  <2> QED BY <1>2, <1>8, <2>1, <2>4, <2>5
<1> QED BY <1>6, <1>7, <1>8

----------------------------------------------------------------------------
\* What the client keeps

\* What the client knows of its regions S in h is still there in g.
KnownKept(h, g, regions, S) ==
    \A q \in S : \A a \in RegionWords(q, regions[q].known) : g.mem[a] = h.mem[a]

\* A region of a client: no more is known of it than it has.
IsRegion(region) ==
    region.size \in Nat /\ region.known \in Nat /\ region.known <= region.size

\* What blocks hold of what the client knows, it still knows.
LEMMA HeldIsKnown ==
    ASSUME NEW h, NEW B, InOrder(h, B), NEW regions, Owned(h, B, regions),
           NEW S \in SUBSET DOMAIN regions, NEW g, AllHold(h, g, S)
    PROVE  KnownKept(h, g, regions, S)
<1> SUFFICES ASSUME NEW q \in S, NEW a \in RegionWords(q, regions[q].known)
             PROVE  g.mem[a] = h.mem[a]
  BY DEF KnownKept
<1>1. q \in B /\ a \in DOMAIN h.mem /\ a \in Int /\ q <= a /\ a + 8 < NEXT_BLKP(h, q)
  BY KnownInBlock
<1>2. NEXT_BLKP(h, q) = q + SizeOf(h, q)
  BY DEF NEXT_BLKP
<1> QED BY <1>1, <1>2 DEF AllHold, Holds

\* The client owns in g the regions that it had in h, where they are held, and new
\* ones for which there is room.
LEMMA StillOwned ==
    ASSUME NEW h, NEW B, InOrder(h, B), NEW regions, Owned(h, B, regions),
           NEW g, NEW C, InOrder(g, C), NEW regions2, DOMAIN regions2 \subseteq Taken(g, C),
           \A q \in DOMAIN regions2 :
              \/ q \in DOMAIN regions /\ regions2[q] = regions[q] /\ Holds(h, g, q)
              \/ IsRegion(regions2[q]) /\ regions2[q].size + 8 <= SizeOf(g, q)
    PROVE  Owned(g, C, regions2)
<1> SUFFICES ASSUME NEW q \in DOMAIN regions2
             PROVE  IsRegion(regions2[q]) /\ regions2[q].size + 8 <= SizeOf(g, q)
  BY DEF Owned, IsRegion
<1>1. CASE q \in DOMAIN regions /\ regions2[q] = regions[q] /\ Holds(h, g, q)
  <2>1. IsRegion(regions[q]) /\ regions[q].size + 8 <= SizeOf(h, q)
    BY <1>1 DEF Owned, IsRegion
  <2>2. q \in B /\ q \in C
    BY <1>1 DEF Owned, Taken
  <2>3. SizeOf(h, q) \in Int /\ SizeOf(g, q) \in Int
    BY <2>2, TagsAreWords DEF InOrder
  <2>4. SizeOf(g, q) >= SizeOf(h, q)
    BY <1>1 DEF Holds
  <2> QED BY <1>1, <2>1, <2>3, <2>4 DEF IsRegion
<1> QED BY <1>1

----------------------------------------------------------------------------
\* Handing back

\* Between two calls.
LEMMA BetweenCalls ==
    ASSUME IInv, misled = FALSE
    PROVE  LET B == Blocks(heap)
           IN  /\ Ready(heap, B) /\ InOrder(heap, B) /\ Apart(heap, B, NULL)
               /\ IsHeap(heap) /\ Tiles(heap, B)
               /\ Owned(heap, B, live) /\ heap.brk <= MaxHeap
               /\ Allocated(heap) = Taken(heap, B)
               /\ DOMAIN live \subseteq Taken(heap, B)
<1>1. Ready(heap, Blocks(heap)) /\ Owned(heap, Blocks(heap), live) /\ heap.brk <= MaxHeap
  BY DEF IInv
<1>2. InOrder(heap, Blocks(heap)) /\ Apart(heap, Blocks(heap), NULL)
  BY <1>1 DEF Ready
<1>3. IsHeap(heap) /\ Tiles(heap, Blocks(heap))
  BY <1>2 DEF InOrder
<1>4. Allocated(heap) = Taken(heap, Blocks(heap))
  BY <1>3, AllocatedAre
<1> QED BY <1>1, <1>2, <1>3, <1>4 DEF Owned

\* The heap g, with the blocks C, can be handed back to a client that owns regions,
\* after a call that may give up bp.
Fit(g, C, regions, bp) ==
    /\ InOrder(g, C) /\ Apart(g, C, NULL) /\ g.brk <= MaxHeap /\ Owned(g, C, regions)
    /\ Taken(heap, Blocks(heap)) \ {bp} \subseteq Taken(g, C)

\* It has been handed back.
Returned(g, C, regions) ==
    /\ IInv' /\ misled' = FALSE /\ live' = regions /\ heap'.brk = g.brk
    /\ Held' = Taken(g, C)
    /\ InOrder(heap', C) /\ Owned(heap', C, regions)
    /\ KnownKept(g, heap', regions, DOMAIN regions)

\* A heap in order in which the client owns its regions is handed back, without
\* what nobody knows, and is ready for the next call.
LEMMA HandedBack ==
    ASSUME IInv, misled = FALSE, NEW g, NEW C, NEW regions, NEW bp,
           Fit(g, C, regions, bp), HandBack(g, regions, bp)
    PROVE  Returned(g, C, regions)
<1>1. InOrder(g, C) /\ Apart(g, C, NULL) /\ g.brk <= MaxHeap /\ Owned(g, C, regions)
  BY DEF Fit
<1>2. Sound(g, regions, bp)
  <2>1. Allocated(heap) \ {bp} \subseteq Taken(g, C)
    BY BetweenCalls DEF Fit
  <2> QED BY <1>1, <2>1, InOrderIsSound
<1>3. heap' = Forgotten(g, regions) /\ live' = regions /\ misled' = FALSE
  BY <1>2 DEF HandBack
<1>4. /\ Ready(heap', C) /\ SameBlocks(g, heap', C)
      /\ KnownKept(g, heap', regions, DOMAIN regions)
  BY <1>1, <1>3, ForgottenEffect DEF KnownKept
<1>5. /\ InOrder(heap', C) /\ heap'.brk = g.brk /\ Taken(heap', C) = Taken(g, C)
      /\ \A b \in C : SizeOf(heap', b) = SizeOf(g, b)
  BY <1>4 DEF Ready, SameBlocks
<1>6. Owned(heap', C, regions)
  <2>1. Taken(g, C) \subseteq C
    BY DEF Taken
  <2>2. \A q \in DOMAIN regions : SizeOf(heap', q) = SizeOf(g, q)
    BY <1>1, <1>5, <2>1 DEF Owned
  <2> QED BY <1>1, <1>5, <2>2 DEF Owned
<1>7. IsHeap(heap') /\ Tiles(heap', C) /\ Linked(heap', Frees(heap', C))
  BY <1>5 DEF InOrder
<1>8. Blocks(heap') = C
  BY <1>7, BlocksAre
<1>9. Bounded(heap')
  <2>1. heap'.brk > 0
    BY <1>7, TagsAreWords
  <2> QED BY <1>7, <2>1, LinkedIsBounded
<1>10. \A q \in DOMAIN live' : q % DSIZE = 0 /\ live'[q].known <= live'[q].size
  <2>1. \A b \in C : b % 8 = 0
    BY <1>7, TagsAreWords
  <2> QED BY <1>3, <1>6, <2>1 DEF Owned, Taken, DSIZE
<1>11. heap'.brk <= MaxHeap
  BY <1>1, <1>5
<1>12. Ready(heap', Blocks(heap')) /\ Owned(heap', Blocks(heap'), live')
  BY <1>3, <1>4, <1>6, <1>8
<1>13. IInv'
  BY <1>3, <1>9, <1>10, <1>11, <1>12 DEF IInv
<1>14. Held' = Taken(g, C)
  BY <1>5, <1>8 DEF Held
<1> QED BY <1>3, <1>4, <1>5, <1>6, <1>13, <1>14 DEF Returned

\* A broken promise leaves a heap whose lists point into it.
LEMMA BrokenKeepsBounds ==
    ASSUME IInv, NEW g, Bounded(g), g.brk <= MaxHeap, heap' = g, UNCHANGED live, misled' = TRUE
    PROVE  IInv'
BY DEF IInv

----------------------------------------------------------------------------
\* mm_malloc

\* What is written between the tags of one block leaves what the others hold.
LEMMA OthersHold ==
    ASSUME NEW h, IsHeap(h), NEW B, Tiles(h, B), NEW s \in B, NEW p \in B, p # s,
           NEW g, SizeOf(g, p) = SizeOf(h, p),
           \A a \in DOMAIN h.mem : g.mem[a] = h.mem[a] \/ (s <= a /\ a + 8 < NEXT_BLKP(h, s))
    PROVE  Holds(h, g, p)
<1>1. /\ s \in Int /\ p \in Int /\ SizeOf(h, p) \in Int /\ NEXT_BLKP(h, p) = p + SizeOf(h, p)
      /\ NEXT_BLKP(h, p) \in Int /\ NEXT_BLKP(h, s) \in Int
  BY TagsAreWords
<1>2. NEXT_BLKP(h, s) <= p \/ NEXT_BLKP(h, p) <= s
  BY <1>1 DEF Tiles
<1>3. ASSUME NEW a \in DOMAIN h.mem, p <= a, a + 8 < p + SizeOf(h, p) PROVE g.mem[a] = h.mem[a]
  <2>1. a \in Int
    BY HeapHas
  <2> QED BY <1>1, <1>2, <1>3, <2>1
<1> QED BY <1>1, <1>3 DEF Holds

\* What the client writes, wherever that is, are no numbers of tags.
LEMMA WrittenAnywhere ==
    ASSUME NEW h, IsHeap(h), NEW bp \in Int, NEW size \in Nat, NEW c \in Nat
    PROVE  Scribbled(h, Written(h, bp, size, c), bp)
<1> DEFINE g == Written(h, bp, size, c)
<1> DEFINE mem == [a \in DOMAIN h.mem |-> IF a \in RegionWords(bp, size) THEN Data(c) ELSE h.mem[a]]
<1>1. Data(c) \in Int /\ Data(c) < 0
  BY SegregatedAssumption DEF Data
<1>2. \A a \in RegionWords(bp, size) : bp <= a
  BY DEF RegionWords, WSIZE
<1>3. \A a \in DOMAIN h.mem : h.mem[a] \in Int
  BY HeapHas
<1>4. mem \in [DOMAIN h.mem -> Int]
  BY <1>1, <1>3
<1>5. g = [h EXCEPT !.mem = mem]
  BY DEF Written
<1>6. \A a \in DOMAIN h.mem : mem[a] = h.mem[a] \/ (bp <= a /\ mem[a] < 0)
  BY <1>1, <1>2
<1> HIDE DEF mem, g
<1>7. IsHeap(g) /\ g.mem = mem /\ g.brk = h.brk /\ g.lists = h.lists
  BY <1>4, <1>5, MemChanged
<1>8. Scribbled(h, g, bp)
  BY <1>6, <1>7 DEF Scribbled
<1> QED BY <1>8 DEF g

\* The client has got the region bp and filled it, and the others are as they were.
Filled(bp, size) ==
    /\ bp \notin Held /\ Held' = Held \cup {bp}
    /\ \E C, c :
          /\ InOrder(heap', C) /\ Owned(heap', C, live') /\ heap'.brk <= MaxHeap
          /\ bp \notin DOMAIN live /\ c \in Clients
          /\ live' = With(live, bp, [size |-> size, known |-> size])
          /\ KnownKept(heap, heap', live, DOMAIN live)
          /\ \A a \in RegionWords(bp, size) : heap'.mem[a] = Data(c)
          /\ heap.brk <= heap'.brk

\* Nothing has changed that the client knows of.
Nothing ==
    /\ live' = live /\ heap'.brk = heap.brk /\ Held' = Held
    /\ KnownKept(heap, heap', live, DOMAIN live)

\* A call that fails changes nothing.
LEMMA FailedCall ==
    ASSUME IInv, misled = FALSE, HandBack(heap, live, NULL)
    PROVE  IInv' /\ misled' = FALSE /\ Nothing
<1>1. PICK B, h, regions : B = Blocks(heap) /\ h = heap /\ regions = live
  OBVIOUS
<1>2. /\ InOrder(h, B) /\ Apart(h, B, NULL) /\ h.brk <= MaxHeap
      /\ Owned(h, B, regions)
  BY <1>1, BetweenCalls
<1>3. HandBack(h, regions, NULL)
  BY <1>1 DEF HandBack, Sound
<1>4. Fit(h, B, regions, NULL)
  BY <1>1, <1>2 DEF Fit
<1>5. Returned(h, B, regions)
  BY <1>3, <1>4, HandedBack
<1>6. Held = Taken(h, B)
  BY <1>1 DEF Held
<1> QED BY <1>1, <1>5, <1>6 DEF Nothing, Returned

\* The block that mm_malloc took was not of the size needed.
LEMMA MisplacedCall ==
    ASSUME IInv, NoOverflow, misled = FALSE, NEW size \in Sizes \ {0},
           NEW asize, asize = AdjustedSize(size),
           NEW x, NEW A, NEW q, Source(heap, Blocks(heap), x, A, q), asize < SizeOf(x, q),
           NEW r, r = place(x, q, asize), NEW c \in Clients, NEW regions, r.bp \in DOMAIN regions,
           NEW g, g = Written(r.heap, r.bp, size, c), HandBack(g, regions, NULL)
    PROVE  IInv' /\ misled' = TRUE /\ heap'.brk = x.brk
<1>1. size \in Nat /\ c \in Nat /\ Moderate(size)
  BY SegregatedAssumption, SizesAreModerate
<1>2. asize \in Int /\ asize % 8 = 0 /\ asize >= 16
  BY <1>1, AdjustedSizeFits
<1>3. InOrder(x, A) /\ q \in Frees(x, A) /\ x.mem[NEXT_BLKP(x, q) - 12] = Junk /\ x.brk <= MaxHeap
  BY DEF Source
<1>4. Misplaced(x, A, r, q, asize)
  BY <1>2, <1>3, PlacedWrongly
<1>5. /\ Bounded(r.heap) /\ r.heap.brk = x.brk /\ DOMAIN r.heap.mem = DOMAIN x.mem /\ r.bp \in Int
  BY <1>4 DEF Misplaced
<1>6. IsHeap(r.heap)
  BY <1>5 DEF Bounded
<1>7. Scribbled(r.heap, g, r.bp)
  BY <1>1, <1>5, <1>6, WrittenAnywhere
<1>8. ~Sound(g, regions, NULL)
  BY <1>2, <1>3, <1>4, <1>5, <1>7, MisplacedIsUnsound
<1>9. heap' = g /\ UNCHANGED live /\ misled' = TRUE
  BY <1>8 DEF HandBack
<1>10. Bounded(g) /\ g.brk <= MaxHeap
  BY <1>3, <1>5, <1>7 DEF Bounded, Scribbled
<1>11. g.brk = x.brk
  BY <1>5, <1>7 DEF Scribbled
<1> QED BY <1>9, <1>10, <1>11, BrokenKeepsBounds

\* A heap that the client writes its new region into holds what it held.
LEMMA FilledHolds ==
    ASSUME NEW h, NEW B, InOrder(h, B), NEW f, NEW C, NEW bp, NEW asize,
           Mallocated(h, B, f, C, bp, asize),
           NEW size \in Nat, size + 8 <= asize, NEW c \in Nat, NEW g, g = Written(f, bp, size, c)
    PROVE  /\ InOrder(g, C) /\ SameBlocks(f, g, C) /\ AllHold(h, g, Taken(h, B))
           /\ \A a \in RegionWords(bp, size) : g.mem[a] = Data(c)
<1>1. /\ InOrder(f, C) /\ IsHeap(f) /\ Tiles(f, C) /\ IsHeap(h) /\ Tiles(h, B)
      /\ bp \in Taken(f, C) /\ bp \in C /\ bp \notin Taken(h, B) /\ SizeOf(f, bp) = asize
      /\ Taken(f, C) = Taken(h, B) \cup {bp} /\ DOMAIN h.mem \subseteq DOMAIN f.mem
      /\ AllHold(h, f, Taken(h, B))
  BY DEF Mallocated, InOrder, Taken
<1>2. /\ InOrder(g, C) /\ SameBlocks(f, g, C)
      /\ \A a \in DOMAIN f.mem : g.mem[a] = IF a \in RegionWords(bp, size) THEN Data(c) ELSE f.mem[a]
  BY <1>1, WrittenEffect
<1>3. \A a \in RegionWords(bp, size) : a \in DOMAIN f.mem /\ bp <= a /\ a + 8 < NEXT_BLKP(f, bp)
  BY <1>1, RegionInBlock
<1>4. ASSUME NEW p \in Taken(h, B) PROVE Holds(h, g, p)
  <2>1. p \in B /\ p \in C /\ p # bp
    BY <1>1 DEF Taken
  <2>2. SizeOf(g, p) = SizeOf(f, p)
    BY <1>2, <2>1 DEF SameBlocks
  <2>3. \A a \in DOMAIN f.mem : g.mem[a] = f.mem[a] \/ (bp <= a /\ a + 8 < NEXT_BLKP(f, bp))
    BY <1>2, <1>3
  <2>4. Holds(f, g, p)
    BY <1>1, <2>1, <2>2, <2>3, OthersHold
  <2>5. SizeOf(g, p) \in Int
    BY <1>1, <2>1, <2>2, TagsAreWords
  <2>6. Holds(h, f, p)
    BY <1>1 DEF AllHold
  <2> QED BY <1>1, <2>1, <2>4, <2>5, <2>6, HoldsTwice
<1> QED BY <1>2, <1>3, <1>4 DEF AllHold

\* The client gets a block of the size needed.
LEMMA PlacedCall ==
    ASSUME IInv, NoOverflow, misled = FALSE, NEW size \in Sizes \ {0},
           NEW asize, asize = AdjustedSize(size),
           NEW x, NEW A, NEW q, Source(heap, Blocks(heap), x, A, q), asize = SizeOf(x, q),
           NEW r, r = place(x, q, asize), NEW c \in Clients,
           NEW regions, regions = With(live, r.bp, [size |-> size, known |-> size]),
           NEW g, g = Written(r.heap, r.bp, size, c), HandBack(g, regions, NULL)
    PROVE  IInv' /\ misled' = FALSE /\ Filled(r.bp, size) /\ heap'.brk = x.brk
<1>1. PICK B, h, old, bp, f : /\ B = Blocks(heap) /\ h = heap /\ old = live
                              /\ bp = r.bp /\ f = r.heap
  OBVIOUS
<1>2. size \in Nat /\ c \in Nat /\ Moderate(size)
  BY SegregatedAssumption, SizesAreModerate
<1>3. asize \in Int /\ size + 8 <= asize
  BY <1>2, AdjustedSizeFits
<1>4. InOrder(h, B) /\ Owned(h, B, old) /\ DOMAIN old \subseteq Taken(h, B)
  BY <1>1, BetweenCalls
<1>5. bp = q /\ f.brk = x.brk /\ Mallocated(h, B, f, A, bp, asize)
  BY <1>1, <1>3, <1>4, PlacedRightly
<1>6. g = Written(f, bp, size, c) /\ regions = With(old, bp, [size |-> size, known |-> size])
  BY <1>1
<1>7. /\ InOrder(g, A) /\ SameBlocks(f, g, A) /\ AllHold(h, g, Taken(h, B))
      /\ \A a \in RegionWords(bp, size) : g.mem[a] = Data(c)
  BY <1>2, <1>3, <1>4, <1>5, <1>6, FilledHolds
<1>8. /\ Apart(f, A, NULL) /\ bp \notin Taken(h, B) /\ Taken(f, A) = Taken(h, B) \cup {bp}
      /\ SizeOf(f, bp) = asize /\ h.brk <= f.brk /\ f.brk <= MaxHeap
  BY <1>5 DEF Mallocated
<1>9. /\ Apart(g, A, NULL) /\ Taken(g, A) = Taken(h, B) \cup {bp} /\ g.brk = f.brk
      /\ SizeOf(g, bp) = asize
  <2>1. bp \in A
    BY <1>8 DEF Taken
  <2> QED BY <1>7, <1>8, <2>1 DEF SameBlocks
<1>10. /\ DOMAIN regions = DOMAIN old \cup {bp} /\ bp \notin DOMAIN old
       /\ regions[bp].size = size /\ regions[bp].known = size
       /\ \A p \in DOMAIN old : regions[p] = old[p]
  <2>1. bp \notin DOMAIN old
    BY <1>4, <1>8
  <2>2. regions = With(old, bp, [size |-> size, known |-> size])
    BY <1>6
  <2> QED BY ONLY <2>1, <2>2 DEF With
<1>11. Owned(g, A, regions)
  <2>1. DOMAIN regions \subseteq Taken(g, A)
    BY <1>4, <1>9, <1>10
  <2>2. IsRegion(regions[bp]) /\ regions[bp].size + 8 <= SizeOf(g, bp)
    BY <1>2, <1>3, <1>9, <1>10 DEF IsRegion
  <2>3. \A p \in DOMAIN old : Holds(h, g, p)
    BY <1>4, <1>7 DEF AllHold
  <2> QED BY <1>4, <1>7, <1>10, <2>1, <2>2, <2>3, StillOwned
<1>12. Fit(g, A, regions, NULL)
  BY <1>1, <1>7, <1>8, <1>9, <1>11 DEF Fit
<1>13. Returned(g, A, regions)
  BY <1>12, HandedBack
<1>14. KnownKept(h, g, old, DOMAIN old)
  <2>1. AllHold(h, g, DOMAIN old)
    BY <1>4, <1>7 DEF AllHold
  <2> QED BY <1>4, <2>1, HeldIsKnown
<1>15. /\ KnownKept(h, heap', old, DOMAIN old)
       /\ \A a \in RegionWords(bp, size) : heap'.mem[a] = Data(c)
  <2>1. KnownKept(g, heap', regions, DOMAIN regions)
    BY <1>13 DEF Returned
  <2> QED BY <1>7, <1>10, <1>14, <2>1 DEF KnownKept
<1>16. Filled(bp, size)
  <2>1. InOrder(heap', A) /\ Owned(heap', A, live') /\ live' = regions /\ heap'.brk = g.brk
    BY <1>13 DEF Returned
  <2>2. bp \notin Held /\ Held' = Held \cup {bp}
    <3>1. Held = Taken(h, B)
      BY <1>1 DEF Held
    <3>2. Held' = Taken(g, A)
      BY <1>13 DEF Returned
    <3> QED BY <1>8, <1>9, <3>1, <3>2
  <2> QED BY <1>1, <1>6, <1>8, <1>9, <1>10, <1>15, <2>1, <2>2 DEF Filled
<1> QED BY <1>1, <1>5, <1>9, <1>13, <1>16 DEF Returned

\* The block that mm_malloc takes for the client's size.
LEMMA MisfitIs ==
    ASSUME NEW size, NEW asize, asize = AdjustedSize(size)
    PROVE  Misfit(size) <=> MisfitIn(heap, asize)
BY DEF Misfit, MisfitIn

\* malloc breaks its promise when it takes a block of another size, and then only.
LEMMA MallocStep ==
    ASSUME IInv, NoOverflow, misled = FALSE, NEW size \in Sizes, Malloc(size)
    PROVE  /\ IInv'
           /\ IF size # 0 /\ Misfit(size) THEN misled' = TRUE
              ELSE misled' = FALSE /\ (Nothing \/ \E bp : Filled(bp, size))
           /\ heap'.brk # heap.brk =>
                 \A p \in Frees(heap, Blocks(heap)) : SizeOf(heap, p) < AdjustedSize(size)
<1> DEFINE Goal ==
              /\ IInv'
              /\ IF size # 0 /\ Misfit(size) THEN misled' = TRUE
                 ELSE misled' = FALSE /\ (Nothing \/ \E bp : Filled(bp, size))
              /\ heap'.brk # heap.brk =>
                    \A p \in Frees(heap, Blocks(heap)) : SizeOf(heap, p) < AdjustedSize(size)
<1> SUFFICES Goal
  OBVIOUS
<1>1. PICK asize, r, old : asize = AdjustedSize(size) /\ r = mm_malloc(heap, size) /\ old = live
  OBVIOUS
<1>2. IF r.bp = NULL THEN HandBack(r.heap, old, NULL)
      ELSE \E c \in Clients : HandBack(Written(r.heap, r.bp, size, c),
                                       With(old, r.bp, [size |-> size, known |-> size]), NULL)
  BY <1>1 DEF Malloc, HandBack, Sound
<1>3. Ready(heap, Blocks(heap)) /\ InOrder(heap, Blocks(heap)) /\ heap.brk <= MaxHeap
  BY BetweenCalls
<1>4. ASSUME r = Failed(heap) PROVE IInv' /\ misled' = FALSE /\ Nothing
  <2>1. r.bp = NULL /\ r.heap = heap
    BY <1>4 DEF Failed
  <2>2. HandBack(heap, live, NULL)
    BY <1>1, <1>2, <2>1 DEF HandBack, Sound
  <2> QED BY <2>2, FailedCall
<1>5. CASE size = 0
  <2>1. r = Failed(heap)
    BY <1>1, <1>5 DEF mm_malloc
  <2> QED BY <1>4, <1>5, <2>1 DEF Nothing
<1>6. CASE size # 0 /\ r = Failed(heap) /\ ~MisfitIn(heap, asize)
  <2>1. ~Misfit(size)
    BY <1>1, <1>6, MisfitIs
  <2> QED BY <1>4, <1>6, <2>1 DEF Nothing
<1> DEFINE From(x, A, q) ==
              /\ Source(heap, Blocks(heap), x, A, q) /\ asize <= SizeOf(x, q)
              /\ r = place(x, q, asize)
              /\ MisfitIn(heap, asize) <=> SizeOf(x, q) # asize
              /\ x = heap \/ \A p \in Frees(heap, Blocks(heap)) : SizeOf(heap, p) < asize
<1>7. ASSUME size # 0, NEW x, NEW A, NEW q, From(x, A, q) PROVE Goal
  <2>1. size \in Sizes \ {0} /\ size \in Nat /\ Moderate(size)
    BY <1>7, SizesAreModerate
  <2>2. asize \in Int /\ asize % 8 = 0 /\ asize >= 16
    BY <1>1, <2>1, AdjustedSizeFits
  <2>3. InOrder(x, A) /\ IsHeap(x) /\ Tiles(x, A) /\ q \in Frees(x, A) /\ q \in A
    BY <1>7 DEF Source, InOrder, Frees
  <2>4. SizeOf(x, q) \in Int
    BY <2>3, TagsAreWords
  <2>5. heap'.brk = x.brk =>
           (heap'.brk # heap.brk => \A p \in Frees(heap, Blocks(heap)) : SizeOf(heap, p) < AdjustedSize(size))
    BY <1>1, <1>7
  <2>6. CASE asize < SizeOf(x, q)
    <3>1. Misplaced(x, A, r, q, asize)
      BY <1>7, <2>2, <2>3, <2>6, PlacedWrongly
    <3>2. r.bp # NULL
      BY <3>1 DEF Misplaced, NULL
    <3>3. PICK c \in Clients : HandBack(Written(r.heap, r.bp, size, c),
                                        With(old, r.bp, [size |-> size, known |-> size]), NULL)
      BY <1>2, <3>2
    <3>4. r.bp \in DOMAIN With(old, r.bp, [size |-> size, known |-> size])
      BY DEF With
    <3>5. IInv' /\ misled' = TRUE /\ heap'.brk = x.brk
      BY <1>1, <1>7, <2>1, <2>6, <3>3, <3>4, MisplacedCall
    <3>6. Misfit(size)
      BY <1>1, <1>7, <2>2, <2>4, <2>6, MisfitIs
    <3> QED BY <1>7, <2>5, <3>5, <3>6
  <2>7. CASE asize = SizeOf(x, q)
    <3>1. r.bp # NULL
      <4>1. r.bp = q
        BY <1>3, <1>7, <2>2, <2>7, PlacedRightly
      <4> QED BY <2>3, <4>1, FreesAre
    <3>2. PICK c \in Clients : HandBack(Written(r.heap, r.bp, size, c),
                                        With(old, r.bp, [size |-> size, known |-> size]), NULL)
      BY <1>2, <3>1
    <3>3. IInv' /\ misled' = FALSE /\ Filled(r.bp, size) /\ heap'.brk = x.brk
      BY <1>1, <1>7, <2>1, <2>7, <3>2, PlacedCall
    <3>4. ~Misfit(size)
      BY <1>1, <1>7, <2>7, MisfitIs
    <3> QED BY <1>7, <2>5, <3>3, <3>4
  <2>8. asize < SizeOf(x, q) \/ asize = SizeOf(x, q)
    BY <1>7, <2>2, <2>4
  <2> HIDE DEF From, Goal
  <2> QED BY <2>6, <2>7, <2>8
<1>8. CASE size # 0
  <2>1. /\ size \in Nat \ {0} /\ Moderate(size)
        /\ asize \in Int /\ asize % 8 = 0 /\ asize >= 16
    BY <1>1, <1>8, SizesAreModerate, AdjustedSizeFits
  <2>2. (r = Failed(heap) /\ ~MisfitIn(heap, asize)) \/ \E x, A, q : From(x, A, q)
    BY <1>1, <1>3, <2>1, MallocTakes
  <2>3. CASE r = Failed(heap) /\ ~MisfitIn(heap, asize)
    BY <1>6, <1>8, <2>3
  <2>4. ASSUME NEW x, NEW A, NEW q, From(x, A, q) PROVE Goal
    BY ONLY <1>7, <1>8, <2>4
  <2> HIDE DEF From, Goal
  <2> QED BY <2>2, <2>3, <2>4
<1> QED BY <1>5, <1>8

----------------------------------------------------------------------------
\* mm_free, and mm_realloc to size 0

\* The client has given up the region bp; the others are as they were.
Dropped(bp) ==
    /\ live' = Without(bp) /\ heap'.brk = heap.brk
    /\ KnownKept(heap, heap', live', DOMAIN live')

\* The client still owns the regions that are left, in a heap that holds them.
LEMMA FewerOwned ==
    ASSUME NEW h, NEW B, InOrder(h, B), NEW regions, Owned(h, B, regions),
           NEW S, NEW left, left = [q \in DOMAIN regions \ S |-> regions[q]],
           NEW g, NEW C, InOrder(g, C), Taken(h, B) \ S \subseteq Taken(g, C),
           AllHold(h, g, Taken(h, B) \ S)
    PROVE  /\ Owned(g, C, left)
           /\ KnownKept(h, g, left, DOMAIN left)
<1>1. DOMAIN left = DOMAIN regions \ S /\ \A q \in DOMAIN left : left[q] = regions[q]
  OBVIOUS
<1>2. DOMAIN regions \subseteq Taken(h, B)
  BY DEF Owned
<1>3. AllHold(h, g, DOMAIN left)
  BY <1>1, <1>2 DEF AllHold
<1>4. Owned(g, C, left)
  <2>1. \A q \in DOMAIN left : q \in DOMAIN regions /\ left[q] = regions[q] /\ Holds(h, g, q)
    BY <1>1, <1>3 DEF AllHold
  <2>2. DOMAIN left \subseteq Taken(g, C)
    BY <1>1, <1>2
  <2> QED BY <2>1, <2>2, StillOwned
<1>5. KnownKept(h, g, regions, DOMAIN left)
  BY <1>1, <1>3, HeldIsKnown
<1> QED BY <1>1, <1>4, <1>5 DEF KnownKept

\* A heap that holds the regions that are left is handed back.
LEMMA DroppedCall ==
    ASSUME IInv, misled = FALSE, NEW bp, NEW S \in SUBSET {bp},
           NEW g, NEW C, Leaves(heap, g, C, Taken(heap, Blocks(heap)) \ S),
           NEW q, S \subseteq {q}, HandBack(g, Without(bp), q)
    PROVE  IInv' /\ misled' = FALSE /\ Dropped(bp) /\ Held' = Held \ S
<1>1. PICK B, h, regions, left :
         /\ B = Blocks(heap) /\ h = heap /\ regions = live
         /\ left = [p \in DOMAIN regions \ {bp} |-> regions[p]]
  OBVIOUS
<1>2. /\ InOrder(h, B) /\ h.brk <= MaxHeap /\ Owned(h, B, regions)
  BY <1>1, BetweenCalls
<1>3. /\ InOrder(g, C) /\ Apart(g, C, NULL) /\ g.brk = h.brk
      /\ Taken(g, C) = Taken(h, B) \ S /\ AllHold(h, g, Taken(h, B) \ S)
  BY <1>1 DEF Leaves
<1>4. Owned(g, C, left) /\ KnownKept(h, g, left, DOMAIN left)
  <2>1. Taken(h, B) \ {bp} \subseteq Taken(g, C)
    BY <1>3
  <2>2. AllHold(h, g, Taken(h, B) \ {bp})
    BY <1>3 DEF AllHold
  <2>3. left = [p \in DOMAIN regions \ {bp} |-> regions[p]]
    BY <1>1
  <2> QED BY ONLY <1>2, <1>3, <2>1, <2>2, <2>3, FewerOwned
<1>5. left = Without(bp)
  BY <1>1 DEF Without
<1>6. HandBack(g, left, q)
  BY <1>5 DEF HandBack, Sound
<1>7. Fit(g, C, left, q)
  BY <1>1, <1>2, <1>3, <1>4 DEF Fit
<1>8. Returned(g, C, left)
  BY <1>6, <1>7, HandedBack
<1>9. KnownKept(h, heap', left, DOMAIN left)
  <2>1. KnownKept(g, heap', left, DOMAIN left)
    BY <1>8 DEF Returned
  <2> QED BY <1>4, <2>1 DEF KnownKept
<1>10. Held' = Held \ S
  <2>1. Held = Taken(h, B)
    BY <1>1 DEF Held
  <2>2. Held' = Taken(g, C)
    BY <1>8 DEF Returned
  <2> QED BY <1>3, <2>1, <2>2
<1> QED BY <1>1, <1>3, <1>5, <1>8, <1>9, <1>10 DEF Returned, Dropped

\* mm_free never breaks the promise.
LEMMA FreeStep ==
    ASSUME IInv, misled = FALSE, NEW bp \in DOMAIN live, Free(bp)
    PROVE  IInv' /\ misled' = FALSE /\ Dropped(bp) /\ Held' = Held \ {bp}
<1>1. PICK h, B : h = heap /\ B = Blocks(heap)
  OBVIOUS
<1>2. InOrder(h, B) /\ Apart(h, B, NULL) /\ bp \in Taken(h, B)
  BY <1>1, BetweenCalls
<1>3. PICK g : g = mm_free(heap, bp)
  OBVIOUS
<1>4. PICK C : Leaves(heap, g, C, Taken(heap, Blocks(heap)) \ {bp})
  BY <1>1, <1>2, <1>3, FreeEffect
<1>5. HandBack(g, Without(bp), bp)
  BY <1>3 DEF Free, HandBack, Sound
<1> QED BY <1>4, <1>5, DroppedCall

\* Nor does mm_realloc to size 0, which leaves the block allocated.
LEMMA ZeroStep ==
    ASSUME IInv, misled = FALSE, NEW bp \in DOMAIN live, ReallocZero(bp)
    PROVE  IInv' /\ misled' = FALSE /\ Dropped(bp) /\ Held' = Held
<1>1. PICK h, B : h = heap /\ B = Blocks(heap)
  OBVIOUS
<1>2. InOrder(h, B) /\ Apart(h, B, NULL) /\ IsHeap(h) /\ Tiles(h, B)
  BY <1>1, BetweenCalls
<1>3. Leaves(h, h, B, Taken(h, B))
  <2>1. AllHold(h, h, Taken(h, B))
    <3>1. \A b \in Taken(h, B) : SizeOf(h, b) \in Int
      BY <1>2, TagsAreWords DEF Taken
    <3> QED BY <3>1 DEF AllHold, Holds
  <2> QED BY <1>2, <2>1 DEF Leaves
<1>4. Leaves(heap, h, B, Taken(heap, Blocks(heap)) \ {})
  <2>1. Taken(heap, Blocks(heap)) \ {} = Taken(h, B)
    BY <1>1
  <2> QED BY <1>1, <1>3, <2>1
<1>5. HandBack(h, Without(bp), NULL)
  BY <1>1 DEF ReallocZero, HandBack, Sound
<1>6. {} \in SUBSET {bp} /\ {} \subseteq {NULL}
  OBVIOUS
<1>7. IInv' /\ misled' = FALSE /\ Dropped(bp) /\ Held' = Held \ {}
  BY <1>4, <1>5, <1>6, DroppedCall
<1>8. Held \ {} = Held
  OBVIOUS
<1> QED BY <1>7, <1>8

----------------------------------------------------------------------------
\* mm_realloc to a larger block

\* The client has the contents of the region old in bp, as far as size goes, and the
\* other regions are as they were.
Moved(old, bp, size) ==
    /\ bp \notin Held \ {old} /\ Held' = (Held \ {old}) \cup {bp}
    /\ \E C :
          /\ InOrder(heap', C) /\ Owned(heap', C, live')
          /\ heap.brk <= heap'.brk /\ heap'.brk <= MaxHeap
          /\ bp \notin DOMAIN live \ {old}
          /\ live' = With(Without(old), bp, Resized(old, size))
          /\ KnownKept(heap, heap', live, DOMAIN live \ {old})
          /\ \A w \in 0..((Resized(old, size).known + 3) \div 4 - 1) :
                heap'.mem[bp + WSIZE * w] = heap.mem[old + WSIZE * w]

\* The words of a region, by their numbers.
LEMMA WordsByNumber ==
    ASSUME NEW bp \in Int, NEW n \in Nat, NEW w \in 0..((n + 3) \div 4 - 1)
    PROVE  bp + WSIZE * w \in RegionWords(bp, n)
BY DEF RegionWords

\* What is known after a region has been resized is not more than it was.
LEMMA ResizedIs ==
    ASSUME NEW known \in Nat, NEW size \in Nat, NEW least, least = Lesser(known, size)
    PROVE  /\ least \in Nat /\ least <= known /\ least <= size
           /\ \A bp : RegionWords(bp, least) \subseteq RegionWords(bp, known)
<1>1. least \in Nat /\ least <= known /\ least <= size
  BY DEF Lesser
<1>2. (least + 3) \div 4 - 1 <= (known + 3) \div 4 - 1
  BY <1>1
<1> DEFINE x == (least + 3) \div 4 - 1
           y == (known + 3) \div 4 - 1
<1>3. x \in Int /\ y \in Int /\ x <= y
  BY <1>1, <1>2
<1>4. \A bp : RegionWords(bp, least) = {bp + WSIZE * i : i \in 0..x}
  BY DEF RegionWords
<1>5. \A bp : RegionWords(bp, known) = {bp + WSIZE * i : i \in 0..y}
  BY DEF RegionWords
<1> HIDE DEF x, y
<1>6. 0..x \subseteq 0..y
  BY <1>3
<1> QED BY <1>1, <1>4, <1>5, <1>6

\* With memory for it the block has become larger where it is, with what was in it.
LEMMA RegrownCall ==
    ASSUME IInv, NoOverflow, misled = FALSE, NEW bp \in DOMAIN live, NEW size \in Sizes \ {0},
           NEW newsize, newsize = AdjustedSize(size),
           NEW g, NEW C, Regrown(heap, Blocks(heap), g, C, bp, newsize),
           HandBack(g, With(live, bp, Resized(bp, size)), NULL)
    PROVE  IInv' /\ misled' = FALSE /\ Moved(bp, bp, size) /\ heap'.brk = g.brk
<1>1. PICK B, h, old, region, regions :
         /\ B = Blocks(heap) /\ h = heap /\ old = live
         /\ region = Resized(bp, size) /\ regions = With(old, bp, region)
  OBVIOUS
<1>2. /\ InOrder(h, B) /\ IsHeap(h) /\ Tiles(h, B) /\ Owned(h, B, old)
      /\ DOMAIN old \subseteq Taken(h, B)
  BY <1>1, BetweenCalls
<1>3. size \in Nat /\ newsize \in Int /\ newsize >= size + 8
  BY AdjustedSizeFits, SizesAreModerate
<1>4. /\ InOrder(g, C) /\ Apart(g, C, NULL) /\ IsHeap(g) /\ Tiles(g, C)
      /\ Taken(g, C) = Taken(h, B) /\ SizeOf(g, bp) >= newsize
      /\ AllHold(h, g, Taken(h, B)) /\ h.brk <= g.brk /\ g.brk <= MaxHeap
  BY <1>1 DEF Regrown, InOrder
<1>5. bp \in DOMAIN old /\ old[bp].known \in Nat /\ old[bp].size \in Nat
  BY <1>1, <1>2 DEF Owned
<1>6. region = [size |-> size, known |-> Lesser(old[bp].known, size)]
  BY <1>1 DEF Resized
<1>7. /\ region.size = size /\ region.known \in Nat /\ region.known <= size
      /\ \A p : RegionWords(p, region.known) \subseteq RegionWords(p, old[bp].known)
  BY <1>3, <1>5, <1>6, ResizedIs
<1>8. /\ DOMAIN regions = DOMAIN old /\ regions[bp] = region
      /\ \A q \in DOMAIN old \ {bp} : regions[q] = old[q]
  <2>1. regions = With(old, bp, region)
    BY <1>1
  <2> QED BY ONLY <1>5, <2>1 DEF With
<1>9. Owned(g, C, regions)
  <2>1. SizeOf(g, bp) \in Int
    <3>1. bp \in C
      BY <1>2, <1>4, <1>5 DEF Taken
    <3> QED BY <1>4, <3>1, TagsAreWords
  <2>2. IsRegion(regions[bp]) /\ regions[bp].size + 8 <= SizeOf(g, bp)
    BY <1>3, <1>4, <1>7, <1>8, <2>1 DEF IsRegion
  <2>3. \A q \in DOMAIN old : Holds(h, g, q)
    BY <1>2, <1>4 DEF AllHold
  <2>4. DOMAIN regions \subseteq Taken(g, C)
    BY <1>2, <1>4, <1>8
  <2> QED BY <1>2, <1>4, <1>8, <2>2, <2>3, <2>4, StillOwned
<1>10. HandBack(g, regions, NULL)
  BY <1>1 DEF HandBack, Sound
<1>11. Fit(g, C, regions, NULL)
  BY <1>1, <1>4, <1>9 DEF Fit
<1>12. Returned(g, C, regions)
  BY <1>10, <1>11, HandedBack
<1>13. KnownKept(h, g, old, DOMAIN old) /\ KnownKept(g, heap', regions, DOMAIN regions)
  <2>1. AllHold(h, g, DOMAIN old)
    BY <1>2, <1>4 DEF AllHold
  <2>2. KnownKept(h, g, old, DOMAIN old)
    BY <1>2, <2>1, HeldIsKnown
  <2> QED BY <1>12, <2>2 DEF Returned
<1>14. KnownKept(h, heap', old, DOMAIN old \ {bp})
  BY <1>8, <1>13 DEF KnownKept
<1>15. \A w \in 0..((region.known + 3) \div 4 - 1) :
          heap'.mem[bp + WSIZE * w] = h.mem[bp + WSIZE * w]
  <2>1. bp \in Int
    BY <1>2, <1>5, TagsAreWords DEF Taken
  <2>2. \A a \in RegionWords(bp, region.known) : heap'.mem[a] = h.mem[a]
    BY <1>5, <1>7, <1>8, <1>13 DEF KnownKept
  <2> QED BY <1>7, <2>1, <2>2, WordsByNumber
<1>16. regions = With(Without(bp), bp, Resized(bp, size))
  BY <1>1 DEF With, Without
<1>17. /\ IInv' /\ misled' = FALSE /\ live' = regions /\ heap'.brk = g.brk
       /\ InOrder(heap', C) /\ Owned(heap', C, live')
  BY <1>12 DEF Returned
<1>18. Moved(bp, bp, size)
  <2>1. h.brk <= heap'.brk /\ heap'.brk <= MaxHeap
    BY <1>4, <1>17
  <2>2. live' = With(Without(bp), bp, Resized(bp, size))
    BY <1>16, <1>17
  <2>3. bp \notin Held \ {bp} /\ Held' = (Held \ {bp}) \cup {bp}
    <3>1. Held = Taken(h, B) /\ bp \in Held
      BY <1>1, <1>2, <1>5 DEF Held
    <3>2. Held' = Taken(g, C)
      BY <1>12 DEF Returned
    <3> QED BY <1>4, <3>1, <3>2
  <2> QED BY <1>1, <1>14, <1>15, <1>17, <2>1, <2>2, <2>3 DEF Moved
<1> QED BY <1>17, <1>18

\* The block is handed back as it is, though it is too small.
LEMMA TooSmallCall ==
    ASSUME IInv, NoOverflow, misled = FALSE, NEW bp \in DOMAIN live, NEW size \in Sizes \ {0},
           AdjustedSize(size) > SizeOf(heap, bp),
           HandBack(heap, With(live, bp, Resized(bp, size)), NULL)
    PROVE  IInv' /\ misled' = TRUE
<1>1. PICK h, B, newsize : h = heap /\ B = Blocks(heap) /\ newsize = AdjustedSize(size)
  OBVIOUS
<1>2. IsHeap(h) /\ Tiles(h, B) /\ bp \in Taken(h, B)
  BY <1>1, BetweenCalls
<1>3. /\ SizeOf(h, bp) \in Int /\ SizeOf(h, bp) % 8 = 0 /\ SizeOf(h, bp) >= 16
  BY <1>2, TagsAreWords DEF Taken, DSIZE
<1>4. SizeOf(h, bp) < size + 8 /\ size \in Nat
  <2>1. size \in Nat /\ Moderate(size)
    BY SizesAreModerate
  <2>2. newsize \in Int /\ \A have \in Int : have % 8 = 0 /\ have >= 16 /\ have < newsize => have < size + 8
    BY <1>1, <2>1, AdjustedSizeFits
  <2>3. SizeOf(h, bp) < newsize
    BY <1>1, <1>3, <2>2
  <2> QED BY <1>3, <2>1, <2>2, <2>3
<1> DEFINE regions == With(live, bp, Resized(bp, size))
<1>5. bp \in DOMAIN regions /\ regions[bp].size = size
  BY DEF With, Resized
<1> HIDE DEF regions
<1>6. ~Sound(heap, regions, NULL)
  <2>1. ~(regions[bp].size + 8 <= SizeOf(heap, bp))
    BY <1>1, <1>3, <1>4, <1>5
  <2> QED BY <1>5, <2>1 DEF Sound, DSIZE
<1>7. HandBack(heap, regions, NULL)
  BY DEF regions
<1>8. heap' = heap /\ UNCHANGED live /\ misled' = TRUE
  BY <1>6, <1>7 DEF HandBack
<1>9. heap' = h /\ Bounded(h) /\ h.brk <= MaxHeap
  BY <1>1, <1>8 DEF IInv
<1> QED BY <1>8, <1>9, BrokenKeepsBounds

\* The block has been written over another one that is allocated.
LEMMA CoveredCall ==
    ASSUME IInv, misled = FALSE, NEW g, Covered(heap, Blocks(heap), g), NEW regions,
           HandBack(g, regions, NULL)
    PROVE  IInv' /\ misled' = TRUE /\ heap'.brk # heap.brk
<1>1. PICK h, B : h = heap /\ B = Blocks(heap)
  OBVIOUS
<1>2. IsHeap(h) /\ Tiles(h, B) /\ Allocated(heap) = Taken(h, B)
  BY <1>1, BetweenCalls
<1>3. PICK c \in Taken(h, B) : c \notin Blocks(g)
  BY <1>1 DEF Covered
<1>4. c # NULL
  BY <1>2, <1>3, FreesAre DEF Taken
<1>5. ~Sound(g, regions, NULL)
  <2>1. c \in Allocated(heap) \ {NULL} /\ c \notin Allocated(g)
    BY <1>2, <1>3, <1>4 DEF Allocated
  <2> QED BY <2>1 DEF Sound
<1>6. heap' = g /\ UNCHANGED live /\ misled' = TRUE
  BY <1>5 DEF HandBack
<1>7. Bounded(g) /\ h.brk < g.brk /\ g.brk <= MaxHeap
  BY <1>1 DEF Covered
<1>8. heap'.brk # heap.brk
  <2>1. g.brk \in Int /\ h.brk \in Int
    BY <1>2, <1>7, HeapHas DEF Bounded
  <2> QED BY <1>1, <1>6, <1>7, <2>1
<1> QED BY <1>6, <1>7, <1>8, BrokenKeepsBounds

\* The next block is of no use, or the heap grows elsewhere.
Misgrown(bp) ==
    LET next == NEXT_BLKP(heap, bp)
    IN  next # heap.brk /\ (~IsFree(heap, next) \/ (NotLast(heap, bp) /\ heap'.brk # heap.brk))

\* Without overflow mm_realloc goes wrong in no other way.
LEMMA GrowsWronglyIs ==
    ASSUME IInv, NoOverflow, misled = FALSE, NEW bp \in DOMAIN live, NEW size \in Sizes
    PROVE  GrowsWrongly(bp, size) <=> Misgrown(bp)
<1>1. PICK h, B, next, asize, half :
         /\ h = heap /\ B = Blocks(heap) /\ next = NEXT_BLKP(heap, bp)
         /\ asize = AdjustedSize(size) /\ half = WORD \div 2
  OBVIOUS
<1>2. IsHeap(h) /\ Tiles(h, B) /\ bp \in B
  BY <1>1, BetweenCalls DEF Taken
<1>3. SizeOf(h, bp) \in Nat /\ next \in B \cup {h.brk}
  BY <1>1, <1>2, TagsAreWords DEF Tiles, Tagged
<1>4. SizeOf(h, next) \in Nat
  <2>1. SizeOf(h, h.brk) = 0
    BY <1>2, FreesAre
  <2>2. next \in B => SizeOf(h, next) \in Nat
    BY <1>2, TagsAreWords
  <2> QED BY <1>3, <2>1, <2>2
<1>5. asize \in Int /\ asize < half
  BY <1>1, SizesAreModerate, AdjustedSizeFits
<1>6. half \in Int
  BY <1>1, SegregatedAssumption
<1>7. ~(asize - SizeOf(h, bp) - SizeOf(h, next) > half) /\ asize - SizeOf(h, bp) - SizeOf(h, next) # half
  BY ONLY <1>3, <1>4, <1>5, <1>6
<1> QED BY <1>1, <1>7 DEF GrowsWrongly, Misgrown, NotLast

\* mm_realloc to a larger block breaks the promise then, and then only.
LEMMA GrowStep ==
    ASSUME IInv, NoOverflow, misled = FALSE, NEW bp \in DOMAIN live, NEW size \in Sizes \ {0},
           ReallocGrow(bp, size)
    PROVE  /\ IInv'
           /\ IF Misgrown(bp) THEN misled' = TRUE
              ELSE misled' = FALSE /\ (Nothing \/ Moved(bp, bp, size))
<1>1. PICK h, B, old, newsize, next, regions :
         /\ h = heap /\ B = Blocks(heap) /\ old = live /\ newsize = AdjustedSize(size)
         /\ next = NEXT_BLKP(h, bp) /\ regions = With(live, bp, Resized(bp, size))
  OBVIOUS
<1>2. /\ Ready(h, B) /\ InOrder(h, B) /\ IsHeap(h) /\ Tiles(h, B) /\ bp \in Taken(h, B)
      /\ h.brk <= MaxHeap
  BY <1>1, BetweenCalls
<1>3. newsize \in Int /\ newsize % 8 = 0 /\ newsize < WORD \div 2
  BY <1>1, AdjustedSizeFits, SizesAreModerate
<1>4. bp \in B /\ next \in B \cup {h.brk}
  BY <1>1, <1>2 DEF Taken, Tiles, Tagged
<1>5. SizeOf(h, next) = 0 <=> next = h.brk
  <2>1. \A b \in B : SizeOf(h, b) \in Int /\ SizeOf(h, b) >= 8
    BY <1>2, TagsAreWords
  <2>2. SizeOf(h, h.brk) = 0 /\ h.brk \notin B
    BY <1>2, FreesAre
  <2> QED BY <1>4, <2>1, <2>2
<1>6. newsize > SizeOf(h, bp)
  BY <1>1 DEF ReallocGrow
<1>7. Misgrown(bp) <=>
         next # h.brk /\ (~IsFree(h, next) \/ (NotLast(h, bp) /\ heap'.brk # h.brk))
  BY <1>1 DEF Misgrown
<1>8. CASE ~(IsFree(h, next) \/ SizeOf(h, next) = 0)
  <2>1. bp # NULL
    BY <1>2, <1>4, FreesAre
  <2>2. HandBack(heap, With(live, bp, Resized(bp, size)), NULL)
    BY <1>1, <1>8, <2>1 DEF ReallocGrow, HandBack, Sound
  <2>3. AdjustedSize(size) > SizeOf(heap, bp)
    BY <1>1, <1>6
  <2>4. IInv' /\ misled' = TRUE
    BY <2>2, <2>3, TooSmallCall
  <2> QED BY <1>5, <1>7, <1>8, <2>4
<1>9. CASE IsFree(h, next) \/ SizeOf(h, next) = 0
  <2>1. PICK r \in GrownInPlace(h, bp, newsize) :
           IF r.bp = NULL THEN HandBack(r.heap, live, NULL) ELSE HandBack(r.heap, regions, NULL)
    BY <1>1, <1>9 DEF ReallocGrow, HandBack, Sound
  <2>2. IF r.bp = NULL THEN HandBack(r.heap, live, NULL) ELSE HandBack(r.heap, regions, NULL)
    BY <2>1
  <2>3. bp # NULL
    BY <1>2, <1>4, FreesAre
  <2>4. \/ r = Failed(h)
        \/ /\ r.bp = bp /\ \E C : Regrown(h, B, r.heap, C, bp, newsize)
           /\ ~NotLast(h, bp) \/ r.heap.brk = h.brk
        \/ r.bp = bp /\ NotLast(h, bp) /\ Covered(h, B, r.heap)
    BY <1>1, <1>2, <1>3, <1>6, <1>9, <2>1, RegrowEffect
  <2>5. CASE r = Failed(h)
    <3>1. r.bp = NULL /\ r.heap = heap
      BY <1>1, <2>5 DEF Failed
    <3>2. HandBack(heap, live, NULL)
      BY <2>2, <3>1 DEF HandBack, Sound
    <3>3. IInv' /\ misled' = FALSE /\ Nothing
      BY <3>2, FailedCall
    <3>4. heap'.brk = h.brk
      BY <1>1, <3>3 DEF Nothing
    <3> QED BY <1>5, <1>7, <1>9, <3>3, <3>4
  <2>6. CASE /\ r.bp = bp /\ \E C : Regrown(h, B, r.heap, C, bp, newsize)
             /\ ~NotLast(h, bp) \/ r.heap.brk = h.brk
    <3>1. PICK C : Regrown(h, B, r.heap, C, bp, newsize)
      BY <2>6
    <3>2. PICK g : g = r.heap
      OBVIOUS
    <3>3. Regrown(heap, Blocks(heap), g, C, bp, newsize)
      BY <1>1, <3>1, <3>2
    <3>4. HandBack(g, With(live, bp, Resized(bp, size)), NULL)
      BY <1>1, <2>2, <2>3, <2>6, <3>2 DEF HandBack, Sound
    <3>5. IInv' /\ misled' = FALSE /\ Moved(bp, bp, size) /\ heap'.brk = g.brk
      BY <1>1, <3>3, <3>4, RegrownCall
    <3> QED BY <1>5, <1>7, <1>9, <2>6, <3>2, <3>5
  <2>7. CASE r.bp = bp /\ NotLast(h, bp) /\ Covered(h, B, r.heap)
    <3>1. PICK g : g = r.heap
      OBVIOUS
    <3>2. Covered(heap, Blocks(heap), g)
      BY <1>1, <2>7, <3>1
    <3>3. HandBack(g, regions, NULL)
      BY <2>2, <2>3, <2>7, <3>1 DEF HandBack, Sound
    <3>4. IInv' /\ misled' = TRUE /\ heap'.brk # heap.brk
      BY <3>2, <3>3, CoveredCall
    <3>5. next # h.brk
      BY <1>1, <2>7 DEF NotLast
    <3> QED BY <1>1, <1>7, <2>7, <3>4, <3>5
  <2> QED BY <2>4, <2>5, <2>6, <2>7
<1> QED BY <1>8, <1>9

----------------------------------------------------------------------------
\* mm_realloc to a smaller block

\* A heap in which the old contents have been copied to the new block holds what it
\* held.
LEMMA CopiedHolds ==
    ASSUME NEW h, NEW B, InOrder(h, B), NEW f, NEW A, NEW q, NEW asize \in Int,
           Mallocated(h, B, f, A, q, asize), NEW bp \in Taken(h, B),
           NEW size \in Nat, size + 8 <= asize, asize <= SizeOf(h, bp),
           NEW k, k = Copied(f, bp, q, size)
    PROVE  /\ InOrder(k, A) /\ SameBlocks(f, k, A) /\ AllHold(h, k, Taken(h, B))
           /\ \A a \in DOMAIN f.mem :
                 k.mem[a] = IF q <= a /\ a < q + size THEN f.mem[bp + (a - q)] ELSE f.mem[a]
<1>1. /\ InOrder(f, A) /\ IsHeap(f) /\ Tiles(f, A) /\ IsHeap(h) /\ Tiles(h, B)
      /\ q \in Taken(f, A) /\ q \in A /\ q \notin Taken(h, B) /\ SizeOf(f, q) = asize
      /\ Taken(f, A) = Taken(h, B) \cup {q} /\ DOMAIN h.mem \subseteq DOMAIN f.mem
      /\ AllHold(h, f, Taken(h, B))
  BY DEF Mallocated, InOrder, Taken
<1>2. /\ bp \in A /\ SizeOf(f, bp) \in Int /\ SizeOf(h, bp) \in Int /\ SizeOf(f, bp) >= SizeOf(h, bp)
      /\ q \in Int /\ NEXT_BLKP(f, q) = q + asize
  <2>1. bp \in A /\ bp \in B
    BY <1>1 DEF Taken
  <2>2. SizeOf(f, bp) \in Int /\ SizeOf(h, bp) \in Int /\ q \in Int /\ NEXT_BLKP(f, q) = q + asize
    BY <1>1, <2>1, TagsAreWords
  <2>3. SizeOf(f, bp) >= SizeOf(h, bp)
    BY <1>1 DEF AllHold, Holds
  <2> QED BY <2>1, <2>2, <2>3
<1>3. /\ InOrder(k, A) /\ SameBlocks(f, k, A)
      /\ \A a \in DOMAIN f.mem :
            k.mem[a] = IF q <= a /\ a < q + size THEN f.mem[bp + (a - q)] ELSE f.mem[a]
  <2>1. size <= SizeOf(f, bp) /\ size + 8 <= SizeOf(f, q)
    BY <1>1, <1>2
  <2> QED BY <1>1, <1>2, <2>1, CopiedEffect
<1>4. \A a \in DOMAIN f.mem : k.mem[a] = f.mem[a] \/ (q <= a /\ a + 8 < NEXT_BLKP(f, q))
  <2>1. \A a \in DOMAIN f.mem : a \in Int
    BY <1>1, HeapHas
  <2> QED BY <1>2, <1>3, <2>1
<1>5. ASSUME NEW p \in Taken(h, B) PROVE Holds(h, k, p)
  <2>1. p \in B /\ p \in A /\ p # q
    BY <1>1 DEF Taken
  <2>2. SizeOf(k, p) = SizeOf(f, p)
    BY <1>3, <2>1 DEF SameBlocks
  <2>3. Holds(f, k, p)
    BY <1>1, <1>4, <2>1, <2>2, OthersHold
  <2>4. SizeOf(k, p) \in Int
    BY <1>1, <2>1, <2>2, TagsAreWords
  <2>5. Holds(h, f, p)
    BY <1>1 DEF AllHold
  <2> QED BY <1>1, <2>1, <2>3, <2>4, <2>5, HoldsTwice
<1> QED BY <1>3, <1>5 DEF AllHold

\* The old block has been freed after the copy: the new one holds the contents.
Relocated(h, B, g, C, bp, q, asize, known) ==
    /\ InOrder(g, C) /\ Apart(g, C, NULL) /\ h.brk <= g.brk /\ g.brk <= MaxHeap
    /\ Taken(g, C) = (Taken(h, B) \ {bp}) \cup {q} /\ q \notin Taken(h, B)
    /\ SizeOf(g, q) >= asize
    /\ AllHold(h, g, Taken(h, B) \ {bp})
    /\ \A w \in 0..((known + 3) \div 4 - 1) : g.mem[q + WSIZE * w] = h.mem[bp + WSIZE * w]

\* What mm_realloc makes of a heap in which it has got a new block.
LEMMA RelocatedHeap ==
    ASSUME NEW h, NEW B, InOrder(h, B), NEW f, NEW A, NEW q, NEW asize \in Int,
           Mallocated(h, B, f, A, q, asize), NEW bp \in Taken(h, B),
           NEW size \in Nat, size + 8 <= asize, asize <= SizeOf(h, bp),
           NEW known \in Nat, known <= size,
           NEW g, g = mm_free(Copied(f, bp, q, size), bp)
    PROVE  (\E C : Relocated(h, B, g, C, bp, q, asize, known)) /\ g.brk = f.brk
<1>1. PICK k : k = Copied(f, bp, q, size)
  OBVIOUS
<1>2. /\ InOrder(k, A) /\ SameBlocks(f, k, A) /\ AllHold(h, k, Taken(h, B))
      /\ \A a \in DOMAIN f.mem :
            k.mem[a] = IF q <= a /\ a < q + size THEN f.mem[bp + (a - q)] ELSE f.mem[a]
  BY <1>1, CopiedHolds
<1>3. /\ IsHeap(f) /\ Tiles(f, A) /\ IsHeap(h) /\ Tiles(h, B) /\ Apart(f, A, NULL)
      /\ q \in Taken(f, A) /\ q \in A /\ q \notin Taken(h, B) /\ SizeOf(f, q) = asize
      /\ Taken(f, A) = Taken(h, B) \cup {q} /\ DOMAIN h.mem \subseteq DOMAIN f.mem
      /\ AllHold(h, f, Taken(h, B)) /\ h.brk <= f.brk /\ f.brk <= MaxHeap
  BY DEF Mallocated, InOrder, Taken
<1>4. /\ IsHeap(k) /\ Tiles(k, A) /\ Apart(k, A, NULL) /\ k.brk = f.brk
      /\ DOMAIN k.mem = DOMAIN f.mem /\ Taken(k, A) = Taken(h, B) \cup {q} /\ SizeOf(k, q) = asize
  BY <1>2, <1>3 DEF InOrder, SameBlocks
<1>5. PICK C : Leaves(k, g, C, Taken(k, A) \ {bp})
  <2>1. bp \in Taken(k, A)
    BY <1>4
  <2> QED BY <1>1, <1>2, <1>4, <2>1, FreeEffect
<1>6. /\ InOrder(g, C) /\ Apart(g, C, NULL) /\ g.brk = k.brk /\ DOMAIN g.mem = DOMAIN k.mem
      /\ Taken(g, C) = (Taken(h, B) \ {bp}) \cup {q}
      /\ AllHold(k, g, (Taken(h, B) \ {bp}) \cup {q})
      /\ IsHeap(g) /\ Tiles(g, C)
  <2>1. Taken(k, A) \ {bp} = (Taken(h, B) \ {bp}) \cup {q}
    BY <1>3, <1>4
  <2> QED BY <1>5, <2>1 DEF Leaves, InOrder
<1>7. AllHold(h, g, Taken(h, B) \ {bp})
  <2> SUFFICES ASSUME NEW p \in Taken(h, B) \ {bp} PROVE Holds(h, g, p)
    BY DEF AllHold
  <2>1. p \in B /\ p \in A /\ p \in C
    BY <1>4, <1>6 DEF Taken
  <2>2. Holds(h, k, p) /\ Holds(k, g, p)
    BY <1>2, <1>6 DEF AllHold
  <2>3. SizeOf(g, p) \in Int
    BY <1>6, <2>1, TagsAreWords
  <2>4. DOMAIN h.mem \subseteq DOMAIN k.mem
    BY <1>3, <1>4
  <2> QED BY <1>3, <1>4, <2>1, <2>2, <2>3, <2>4, HoldsTwice
<1>8. SizeOf(g, q) >= asize
  BY <1>4, <1>6 DEF AllHold, Holds
<1>9. ASSUME NEW w \in 0..((known + 3) \div 4 - 1)
      PROVE  g.mem[q + WSIZE * w] = h.mem[bp + WSIZE * w]
  <2>1. PICK a, b : a = q + WSIZE * w /\ b = bp + WSIZE * w
    OBVIOUS
  <2>2. q \in Int /\ bp \in Int /\ bp \in B /\ SizeOf(h, bp) \in Int /\ NEXT_BLKP(f, q) = q + asize
        /\ NEXT_BLKP(h, bp) = bp + SizeOf(h, bp)
    BY <1>3, TagsAreWords DEF Taken
  <2>3. a \in RegionWords(q, known) /\ b \in RegionWords(bp, known)
    BY <2>1, <2>2, WordsByNumber
  <2>4. a \in Int /\ q <= a /\ a < q + known /\ a + 8 < q + asize /\ a \in DOMAIN f.mem
    <3>1. known + 8 <= SizeOf(f, q)
      BY <1>3
    <3> QED BY <1>3, <2>2, <2>3, <3>1, RegionInBlock
  <2>5. b \in Int /\ bp <= b /\ b + 8 < bp + SizeOf(h, bp) /\ b \in DOMAIN h.mem
    <3>1. known + 8 <= SizeOf(h, bp)
      BY <2>2
    <3> QED BY <1>3, <2>2, <2>3, <3>1, RegionInBlock
  <2>6. bp + (a - q) = b
    BY <2>1, <2>2 DEF WSIZE
  <2>7. k.mem[a] = f.mem[b]
    BY <1>2, <2>2, <2>4, <2>6
  <2>8. f.mem[b] = h.mem[b]
    BY <1>3, <2>5 DEF AllHold, Holds
  <2>9. g.mem[a] = k.mem[a]
    <3>1. Holds(k, g, q)
      BY <1>6 DEF AllHold
    <3> QED BY <1>4, <2>4, <3>1 DEF Holds
  <2> QED BY <2>1, <2>7, <2>8, <2>9
<1>10. h.brk <= g.brk /\ g.brk <= MaxHeap
  BY <1>3, <1>4, <1>6
<1>11. Relocated(h, B, g, C, bp, q, asize, known)
  BY <1>3, <1>6, <1>7, <1>8, <1>9, <1>10 DEF Relocated
<1> QED BY <1>4, <1>6, <1>11

\* The region has been moved.
LEMMA RelocatedCall ==
    ASSUME IInv, NoOverflow, misled = FALSE, NEW bp \in DOMAIN live, NEW size \in Sizes \ {0},
           NEW newsize, newsize = AdjustedSize(size), NEW q, NEW g, NEW C,
           Relocated(heap, Blocks(heap), g, C, bp, q, newsize, Resized(bp, size).known),
           HandBack(g, With(Without(bp), q, Resized(bp, size)), bp)
    PROVE  IInv' /\ misled' = FALSE /\ Moved(bp, q, size) /\ heap'.brk = g.brk
<1>1. PICK B, h, old, region, regions :
         /\ B = Blocks(heap) /\ h = heap /\ old = live
         /\ region = Resized(bp, size) /\ regions = With(Without(bp), q, region)
  OBVIOUS
<1>2. /\ InOrder(h, B) /\ IsHeap(h) /\ Tiles(h, B) /\ Owned(h, B, old)
      /\ DOMAIN old \subseteq Taken(h, B)
  BY <1>1, BetweenCalls
<1>3. size \in Nat /\ newsize \in Int /\ newsize >= size + 8
  BY AdjustedSizeFits, SizesAreModerate
<1>4. /\ InOrder(g, C) /\ Apart(g, C, NULL) /\ h.brk <= g.brk /\ g.brk <= MaxHeap
      /\ Taken(g, C) = (Taken(h, B) \ {bp}) \cup {q} /\ q \notin Taken(h, B)
      /\ SizeOf(g, q) >= newsize
      /\ AllHold(h, g, Taken(h, B) \ {bp})
      /\ \A w \in 0..((region.known + 3) \div 4 - 1) : g.mem[q + WSIZE * w] = h.mem[bp + WSIZE * w]
      /\ IsHeap(g) /\ Tiles(g, C)
  BY <1>1 DEF Relocated, InOrder
<1>5. bp \in DOMAIN old /\ old[bp].known \in Nat /\ old[bp].size \in Nat
  BY <1>1, <1>2 DEF Owned
<1>6. region = [size |-> size, known |-> Lesser(old[bp].known, size)]
  BY <1>1 DEF Resized
<1>7. region.size = size /\ region.known \in Nat /\ region.known <= size
  BY <1>3, <1>5, <1>6, ResizedIs
<1>8. /\ DOMAIN regions = (DOMAIN old \ {bp}) \cup {q} /\ regions[q] = region
      /\ q \notin DOMAIN old
      /\ \A p \in DOMAIN old \ {bp} : regions[p] = old[p]
  <2>1. regions = With([p \in DOMAIN old \ {bp} |-> old[p]], q, region)
    BY <1>1 DEF Without
  <2>2. q \notin DOMAIN old
    BY <1>2, <1>4
  <2> QED BY ONLY <2>1, <2>2 DEF With
<1>9. q \in C /\ q \in Int /\ SizeOf(g, q) \in Int
  <2>1. q \in C
    BY <1>4 DEF Taken
  <2> QED BY <1>4, <2>1, TagsAreWords
<1>10. Owned(g, C, regions)
  <2>1. IsRegion(regions[q]) /\ regions[q].size + 8 <= SizeOf(g, q)
    BY <1>3, <1>4, <1>7, <1>8, <1>9 DEF IsRegion
  <2>2. \A p \in DOMAIN old \ {bp} : Holds(h, g, p)
    BY <1>2, <1>4 DEF AllHold
  <2>3. DOMAIN regions \subseteq Taken(g, C)
    BY <1>2, <1>4, <1>8
  <2> QED BY <1>2, <1>4, <1>8, <2>1, <2>2, <2>3, StillOwned
<1>11. HandBack(g, regions, bp)
  BY <1>1 DEF HandBack, Sound
<1>12. Fit(g, C, regions, bp)
  BY <1>1, <1>4, <1>10 DEF Fit
<1>13. Returned(g, C, regions)
  BY <1>11, <1>12, HandedBack
<1>14. /\ IInv' /\ misled' = FALSE /\ live' = regions /\ heap'.brk = g.brk
       /\ InOrder(heap', C) /\ Owned(heap', C, live')
       /\ KnownKept(g, heap', regions, DOMAIN regions)
  BY <1>13 DEF Returned
<1>15. KnownKept(h, heap', old, DOMAIN old \ {bp})
  <2>1. AllHold(h, g, DOMAIN old \ {bp})
    BY <1>2, <1>4 DEF AllHold
  <2>2. KnownKept(h, g, old, DOMAIN old \ {bp})
    BY <1>2, <2>1, HeldIsKnown
  <2> QED BY <1>8, <1>14, <2>2 DEF KnownKept
<1>16. \A w \in 0..((region.known + 3) \div 4 - 1) :
          heap'.mem[q + WSIZE * w] = h.mem[bp + WSIZE * w]
  <2>1. \A a \in RegionWords(q, region.known) : heap'.mem[a] = g.mem[a]
    BY <1>8, <1>14 DEF KnownKept
  <2> QED BY <1>4, <1>7, <1>9, <2>1, WordsByNumber
<1>17. Moved(bp, q, size)
  <2>1. h.brk <= heap'.brk /\ heap'.brk <= MaxHeap
    BY <1>4, <1>14
  <2>2. live' = With(Without(bp), q, Resized(bp, size))
    BY <1>1, <1>14
  <2>3. q \notin Held \ {bp} /\ Held' = (Held \ {bp}) \cup {q}
    <3>1. Held = Taken(h, B)
      BY <1>1 DEF Held
    <3>2. Held' = Taken(g, C)
      BY <1>13 DEF Returned
    <3> QED BY <1>4, <3>1, <3>2
  <2> QED BY <1>1, <1>8, <1>14, <1>15, <1>16, <2>1, <2>2, <2>3 DEF Moved
<1> QED BY <1>14, <1>17

\* The heap in which mm_realloc has got a new block of the size it needs is sound.
LEMMA RoomIsSound ==
    ASSUME IInv, NoOverflow, misled = FALSE, NEW bp \in DOMAIN live, NEW size \in Sizes \ {0},
           NEW newsize, newsize = AdjustedSize(size), NEW q, NEW f, NEW A,
           Mallocated(heap, Blocks(heap), f, A, q, newsize)
    PROVE  Sound(f, With(live, q, Resized(bp, size)), NULL)
<1>1. PICK B, h, old, region, regions :
         /\ B = Blocks(heap) /\ h = heap /\ old = live
         /\ region = Resized(bp, size) /\ regions = With(old, q, region)
  OBVIOUS
<1>2. /\ InOrder(h, B) /\ IsHeap(h) /\ Tiles(h, B) /\ Owned(h, B, old)
      /\ DOMAIN old \subseteq Taken(h, B) /\ Allocated(heap) = Taken(h, B)
  BY <1>1, BetweenCalls
<1>3. size \in Nat /\ newsize \in Int /\ newsize >= size + 8
  BY AdjustedSizeFits, SizesAreModerate
<1>4. /\ InOrder(f, A) /\ q \notin Taken(h, B) /\ Taken(f, A) = Taken(h, B) \cup {q}
      /\ SizeOf(f, q) = newsize /\ AllHold(h, f, Taken(h, B))
  BY <1>1 DEF Mallocated
<1>5. bp \in DOMAIN old /\ old[bp].known \in Nat /\ old[bp].size \in Nat
  BY <1>1, <1>2 DEF Owned
<1>6. region = [size |-> size, known |-> Lesser(old[bp].known, size)]
  BY <1>1 DEF Resized
<1>7. region.size = size /\ region.known \in Nat /\ region.known <= size
  BY <1>3, <1>5, <1>6, ResizedIs
<1>8. /\ DOMAIN regions = DOMAIN old \cup {q} /\ regions[q] = region
      /\ q \notin DOMAIN old
      /\ \A p \in DOMAIN old : regions[p] = old[p]
  <2>1. regions = With(old, q, region)
    BY <1>1
  <2>2. q \notin DOMAIN old
    BY <1>2, <1>4
  <2> QED BY ONLY <2>1, <2>2 DEF With
<1>9. Owned(f, A, regions)
  <2>1. IsRegion(regions[q]) /\ regions[q].size + 8 <= SizeOf(f, q)
    BY <1>3, <1>4, <1>7, <1>8 DEF IsRegion
  <2>2. \A p \in DOMAIN old : Holds(h, f, p)
    BY <1>2, <1>4 DEF AllHold
  <2>3. DOMAIN regions \subseteq Taken(f, A)
    BY <1>2, <1>4, <1>8
  <2> QED BY <1>2, <1>4, <1>8, <2>1, <2>2, <2>3, StillOwned
<1>10. Sound(f, regions, NULL)
  <2>1. Allocated(heap) \ {NULL} \subseteq Taken(f, A)
    BY <1>2, <1>4
  <2> QED BY <1>4, <1>9, <2>1, InOrderIsSound
<1> QED BY <1>1, <1>10 DEF Sound

\* mm_realloc to a smaller block breaks the promise when it gets no block of the
\* size it needs, and then only.
LEMMA MoveStep ==
    ASSUME IInv, NoOverflow, misled = FALSE, NEW bp \in DOMAIN live, NEW size \in Sizes \ {0},
           ReallocMove(bp, size), NEW newsize, newsize = AdjustedSize(size),
           NEW want, want = (newsize - DSIZE) % WORD
    PROVE  /\ IInv'
           /\ IF mm_malloc(heap, want).bp = NULL \/ Misfit(want) THEN misled' = TRUE
              ELSE misled' = FALSE /\ \E q : Moved(bp, q, size)
           /\ heap'.brk # heap.brk =>
                 \A p \in Frees(heap, Blocks(heap)) : SizeOf(heap, p) < newsize
<1>1. PICK h, B, r : h = heap /\ B = Blocks(heap) /\ r = mm_malloc(h, want)
  OBVIOUS
<1>2. /\ Ready(h, B) /\ InOrder(h, B) /\ IsHeap(h) /\ Tiles(h, B) /\ bp \in Taken(h, B)
      /\ h.brk <= MaxHeap
  BY <1>1, BetweenCalls
<1>3. /\ size \in Nat /\ newsize \in Int /\ newsize % 8 = 0 /\ newsize >= 16 /\ newsize >= size + 8
      /\ want \in Nat \ {0} /\ AdjustedSize(want) = newsize
  <2>1. size \in Nat /\ Moderate(size)
    BY SizesAreModerate
  <2>2. want = newsize - 8
    BY <2>1, AdjustedTwice DEF DSIZE
  <2> QED BY <2>1, <2>2, AdjustedSizeFits, AdjustedTwice
<1>4. newsize <= SizeOf(h, bp)
  BY <1>1 DEF ReallocMove
<1> DEFINE Bad(g) == heap' = g /\ UNCHANGED live /\ misled' = TRUE
<1>5. PICK sound, moved, old :
         /\ sound \in BOOLEAN /\ (sound <=> Sound(r.heap, With(live, r.bp, Resized(bp, size)), NULL))
         /\ moved = With(Without(bp), r.bp, Resized(bp, size)) /\ old = live
  OBVIOUS
<1>6. IF r.bp # NULL /\ sound THEN HandBack(mm_free(Copied(r.heap, bp, r.bp, size), bp), moved, bp)
      ELSE Bad(r.heap)
  BY <1>1, <1>5 DEF ReallocMove, HandBack, Sound
<1> DEFINE fails == mm_malloc(heap, want).bp = NULL \/ Misfit(want)
           NoFit == \A p \in Frees(h, B) : SizeOf(h, p) < newsize
           Goal == /\ IInv'
                   /\ IF fails THEN misled' = TRUE ELSE misled' = FALSE /\ \E q : Moved(bp, q, size)
                   /\ heap'.brk # h.brk => NoFit
<1> SUFFICES Goal
  BY <1>1
<1>7. fails <=> MisfitIn(h, newsize) \/ r.bp = NULL
  <2>1. newsize = AdjustedSize(want)
    BY <1>3
  <2>2. Misfit(want) <=> MisfitIn(heap, newsize)
    BY <2>1, MisfitIs
  <2> QED BY <1>1, <2>2
<1> HIDE DEF fails
<1>8. ASSUME NEW g, Bad(g), Bounded(g), g.brk <= MaxHeap PROVE IInv' /\ misled' = TRUE
  BY <1>8, BrokenKeepsBounds
<1>9. CASE r = Failed(h)
  <2>1. r.bp = NULL /\ r.heap = h
    BY <1>9 DEF Failed
  <2>2. Bounded(h)
    BY <1>1 DEF IInv
  <2>3. Bad(h)
    BY <1>6, <2>1
  <2> QED BY <1>2, <1>7, <1>8, <2>1, <2>2, <2>3
<1> DEFINE From(x, A, q) ==
              /\ Source(h, B, x, A, q) /\ newsize <= SizeOf(x, q)
              /\ r = place(x, q, newsize)
              /\ MisfitIn(h, newsize) <=> SizeOf(x, q) # newsize
              /\ x = h \/ \A p \in Frees(h, B) : SizeOf(h, p) < newsize
<1>10. ASSUME NEW x, NEW A, NEW q, From(x, A, q) PROVE Goal
  <2>1. /\ InOrder(x, A) /\ IsHeap(x) /\ Tiles(x, A) /\ q \in Frees(x, A) /\ q \in A
        /\ x.mem[NEXT_BLKP(x, q) - 12] = Junk /\ x.brk <= MaxHeap
    BY <1>10 DEF Source, InOrder, Frees
  <2>2. SizeOf(x, q) \in Int
    BY <2>1, TagsAreWords
  <2>3. heap'.brk = x.brk => (heap'.brk # h.brk => NoFit)
    BY <1>10
  <2>4. CASE newsize < SizeOf(x, q)
    <3>1. Misplaced(x, A, r, q, newsize)
      BY <1>3, <1>10, <2>1, <2>4, PlacedWrongly
    <3>2. PICK f : f = r.heap
      OBVIOUS
    <3>3. Bounded(f) /\ f.brk = x.brk /\ IsHeap(f)
      BY <3>1, <3>2 DEF Misplaced, Bounded
    <3>4. Scribbled(r.heap, f, r.bp)
      BY <3>2, <3>3 DEF Scribbled
    <3>5. PICK regions : regions = With(live, r.bp, Resized(bp, size))
      OBVIOUS
    <3>6. r.bp \in DOMAIN regions
      BY <3>5 DEF With
    <3>7. ~Sound(f, regions, NULL)
      BY <1>3, <2>1, <3>1, <3>4, <3>6, MisplacedIsUnsound
    <3>8. ~sound
      BY <1>5, <3>2, <3>5, <3>7 DEF Sound
    <3>9. Bad(f)
      BY <1>6, <3>2, <3>8
    <3>10. IInv' /\ misled' = TRUE
      BY <1>8, <2>1, <3>3, <3>9
    <3>11. fails
      BY <1>3, <1>7, <1>10, <2>2, <2>4
    <3> HIDE DEF NoFit
    <3> QED BY <2>3, <3>3, <3>9, <3>10, <3>11
  <2>5. CASE newsize = SizeOf(x, q)
    <3>1. PICK f : f = r.heap
      OBVIOUS
    <3>2. r.bp = q /\ f.brk = x.brk /\ Mallocated(h, B, f, A, q, newsize)
      <4>1. InOrder(h, B) /\ Source(h, B, x, A, q) /\ r = place(x, q, newsize) /\ newsize \in Int
        BY <1>2, <1>3, <1>10
      <4>2. r.bp = q /\ r.heap.brk = x.brk /\ Mallocated(h, B, r.heap, A, q, newsize)
        BY ONLY <2>5, <4>1, PlacedRightly
      <4> QED BY <3>1, <4>2
    <3>3. Sound(f, With(live, q, Resized(bp, size)), NULL)
      BY <1>1, <3>2, RoomIsSound
    <3>4. sound
      BY <1>5, <3>1, <3>2, <3>3 DEF Sound
    <3>5. r.bp # NULL
      BY <2>1, <3>2, FreesAre
    <3>6. PICK g : g = mm_free(Copied(f, bp, q, size), bp)
      OBVIOUS
    <3>7. HandBack(g, With(Without(bp), q, Resized(bp, size)), bp)
      BY <1>5, <1>6, <3>1, <3>2, <3>4, <3>5, <3>6 DEF HandBack, Sound
    <3>8. PICK known : known = Resized(bp, size).known
      OBVIOUS
    <3>9. known \in Nat /\ known <= size
      <4>1. old[bp].known \in Nat
        BY <1>1, <1>5, BetweenCalls DEF Owned
      <4>2. known = Lesser(old[bp].known, size)
        BY <1>5, <3>8 DEF Resized
      <4> QED BY <1>3, <4>1, <4>2, ResizedIs
    <3>10. PICK C : Relocated(h, B, g, C, bp, q, newsize, known) /\ g.brk = f.brk
      <4>1. (\E C : Relocated(h, B, g, C, bp, q, newsize, known)) /\ g.brk = f.brk
        BY <1>2, <1>3, <1>4, <3>2, <3>6, <3>9, RelocatedHeap
      <4> QED BY <4>1
    <3>11. Relocated(heap, Blocks(heap), g, C, bp, q, newsize, Resized(bp, size).known)
      BY <1>1, <3>8, <3>10
    <3>12. IInv' /\ misled' = FALSE /\ Moved(bp, q, size) /\ heap'.brk = x.brk
      <4>1. IInv' /\ misled' = FALSE /\ Moved(bp, q, size) /\ heap'.brk = g.brk
        BY <3>7, <3>11, RelocatedCall
      <4> QED BY <3>2, <3>10, <4>1
    <3>13. ~fails
      BY <1>7, <1>10, <2>5, <3>5
    <3> HIDE DEF NoFit
    <3> QED BY <2>3, <3>12, <3>13
  <2>6. newsize < SizeOf(x, q) \/ newsize = SizeOf(x, q)
    BY <1>3, <1>10, <2>2
  <2> HIDE DEF From, Goal
  <2> QED BY <2>4, <2>5, <2>6
<1>11. r = Failed(h) \/ \E x, A, q : From(x, A, q)
  BY <1>1, <1>2, <1>3, MallocTakes
<1> HIDE DEF From, Goal
<1> QED BY <1>9, <1>10, <1>11

----------------------------------------------------------------------------
\* The invariants

\* What a step of the program keeps.
LEMMA StepKeepsIInv == IInv /\ NoOverflow /\ [Next]_vars => IInv'
<1> SUFFICES ASSUME IInv, NoOverflow, [Next]_vars PROVE IInv'
  OBVIOUS
<1>1. CASE UNCHANGED vars
  <2>1. heap' = heap /\ live' = live /\ misled' = misled
    BY <1>1 DEF vars
  <2>2. Blocks(heap') = Blocks(heap)
    BY <2>1
  <2> QED BY <2>1, <2>2 DEF IInv
<1>2. CASE Next
  <2>1. misled = FALSE
    BY <1>2 DEF Next, IInv
  <2>2. ASSUME NEW size \in Sizes, Malloc(size) PROVE IInv'
    BY <2>1, <2>2, MallocStep
  <2>3. ASSUME NEW bp \in DOMAIN live, Free(bp) PROVE IInv'
    BY <2>1, <2>3, FreeStep
  <2>4. ASSUME NEW bp \in DOMAIN live, ReallocZero(bp) PROVE IInv'
    BY <2>1, <2>4, ZeroStep
  <2>5. ASSUME NEW bp \in DOMAIN live, NEW size \in Sizes \ {0}, ReallocGrow(bp, size) PROVE IInv'
    BY <2>1, <2>5, GrowStep
  <2>6. ASSUME NEW bp \in DOMAIN live, NEW size \in Sizes \ {0}, ReallocMove(bp, size) PROVE IInv'
    BY <2>1, <2>6, MoveStep
  <2>7. ASSUME NEW size \in Sizes, ReallocNull(size) PROVE IInv'
    <3>1. heap' = heap /\ live' = live /\ misled' = TRUE
      BY <2>7 DEF ReallocNull
    <3>2. Bounded(heap) /\ heap.brk <= MaxHeap
      BY DEF IInv
    <3> QED BY <3>1, <3>2, BrokenKeepsBounds
  <2> QED BY <1>2, <2>2, <2>3, <2>4, <2>5, <2>6, <2>7 DEF Next
<1> QED BY <1>1, <1>2

\* mm_init establishes the invariant.
LEMMA InitIInv == Init => IInv
<1> SUFFICES ASSUME Init PROVE IInv
  OBVIOUS
<1>1. PICK B : Ready(InitialHeap, B) /\ InitialHeap.brk <= MaxHeap
  BY InitIsReady
<1>2. heap = InitialHeap /\ live = <<>> /\ misled = FALSE
  BY DEF Init
<1>3. PICK h : h = heap
  OBVIOUS
<1>4. Ready(h, B) /\ h.brk <= MaxHeap
  BY <1>1, <1>2, <1>3
<1>5. IsHeap(h) /\ Tiles(h, B) /\ Linked(h, Frees(h, B)) /\ h.brk > 0
  <2>1. IsHeap(h) /\ Tiles(h, B) /\ Linked(h, Frees(h, B))
    BY <1>4 DEF Ready, InOrder
  <2> QED BY <2>1, TagsAreWords
<1>6. Blocks(h) = B /\ Bounded(h)
  BY <1>5, BlocksAre, LinkedIsBounded
<1>7. DOMAIN live = {}
  BY <1>2
<1>8. Owned(h, B, live)
  BY <1>7 DEF Owned
<1> QED BY <1>2, <1>3, <1>4, <1>6, <1>7, <1>8 DEF IInv

\* The invariant holds in all reachable states.
THEOREM HeapInvariant == NoOverflow => (Spec => []IInv)
<1> SUFFICES ASSUME NoOverflow PROVE Spec => []IInv
  OBVIOUS
<1>1. IInv /\ [Next]_vars => IInv'
  BY StepKeepsIInv
<1> QED BY <1>1, InitIInv, PTL DEF Spec

\* The heap is what the routines take it for: words below brk, heads of lists that
\* point into it, and aligned regions of which the client knows no more than they
\* have, also after a call that breaks the promise.
THEOREM TypeCorrect == NoOverflow => (Spec => []TypeOK)
<1> SUFFICES ASSUME NoOverflow PROVE Spec => []TypeOK
  OBVIOUS
<1>1. IInv => TypeOK
  <2> SUFFICES ASSUME IInv PROVE TypeOK
    OBVIOUS
  <2>1. PICK h : h = heap
    OBVIOUS
  <2>2. IsHeap(h) /\ h.brk <= MaxHeap /\ \A c \in Lists : 0 <= h.lists[c] /\ h.lists[c] < h.brk
    BY <2>1 DEF IInv, Bounded
  <2>3. /\ h.brk \in Nat /\ h.lists \in [Lists -> Int]
        /\ DOMAIN h.mem = HeapWords(h.brk)
    BY <2>2 DEF IsHeap
  <2>4. h.brk \in 0..MaxHeap
    BY <2>2, <2>3, SegregatedAssumption
  <2>5. \A c \in Lists : h.lists[c] \in 0..(h.brk - 1)
    BY <2>2, <2>3
  <2>6. h.lists \in [Lists -> 0..(h.brk - 1)]
    BY <2>3, <2>5
  <2>7. misled \in BOOLEAN /\ \A q \in DOMAIN live : q % DSIZE = 0 /\ live[q].known <= live[q].size
    BY DEF IInv
  <2> QED BY <2>1, <2>3, <2>4, <2>6, <2>7 DEF TypeOK, Lists, HeapWords
<1> QED BY <1>1, HeapInvariant, PTL

\* The lists hold the free blocks, all of them and nothing else, each in the list of
\* its size, and are linked both ways.
THEOREM ListsAreExact == NoOverflow => (Spec => []FreeListsExact)
<1> SUFFICES ASSUME NoOverflow PROVE Spec => []FreeListsExact
  OBVIOUS
<1>1. IInv => FreeListsExact
  <2> SUFFICES ASSUME IInv, misled = FALSE
               PROVE  /\ \A list \in DOMAIN heap.lists :
                            Nodes(heap, list) = {bp \in FreeBlocks(heap) : Class(SizeOf(heap, bp)) = list}
                      /\ \A bp \in FreeBlocks(heap) :
                            /\ PREV(heap, bp) # NULL => NEXT(heap, PREV(heap, bp)) = bp
                            /\ NEXT(heap, bp) = NULL <=> heap.lists[Class(SizeOf(heap, bp))] = bp
    BY DEF FreeListsExact, IInv
  <2>1. PICK h, B, F : h = heap /\ B = Blocks(heap) /\ F = Frees(h, B)
    OBVIOUS
  <2>2. IsHeap(h) /\ Tiles(h, B) /\ Linked(h, F)
    BY <2>1, BetweenCalls DEF InOrder
  <2>3. FreeBlocks(h) = F /\ DOMAIN h.lists = Lists
    BY <2>1, <2>2, AllocatedAre, HeapHas
  <2>4. \A c \in Lists : Nodes(h, c) = {p \in F : Class(SizeOf(h, p)) = c}
    BY <2>2, NodesAre DEF ClassOf
  <2>5. \A p \in F : /\ PREV(h, p) # NULL => NEXT(h, PREV(h, p)) = p
                     /\ NEXT(h, p) = NULL <=> h.lists[Class(SizeOf(h, p))] = p
    BY <2>2, LinksAre DEF ClassOf
  <2> QED BY <2>1, <2>3, <2>4, <2>5
<1> QED BY <1>1, HeapInvariant, PTL

\* No two free blocks touch: mm_free, place and extend_heap coalesce all there is.
THEOREM Coalescing == NoOverflow => (Spec => []FreeBlocksCoalesced)
<1> SUFFICES ASSUME NoOverflow PROVE Spec => []FreeBlocksCoalesced
  OBVIOUS
<1>1. IInv => FreeBlocksCoalesced
  <2> SUFFICES ASSUME IInv, misled = FALSE, NEW bp \in FreeBlocks(heap),
                      NEXT_BLKP(heap, bp) \in FreeBlocks(heap)
               PROVE  FALSE
    BY DEF FreeBlocksCoalesced, IInv
  <2>1. PICK h, B, next : h = heap /\ B = Blocks(heap) /\ next = NEXT_BLKP(h, bp)
    OBVIOUS
  <2>2. IsHeap(h) /\ Tiles(h, B) /\ Apart(h, B, NULL)
    BY <2>1, BetweenCalls
  <2>3. bp \in B /\ IsFree(h, bp) /\ next \in B /\ IsFree(h, next)
    BY <2>1 DEF FreeBlocks
  <2>4. NULL \notin B
    BY <2>2, FreesAre
  <2> QED BY <2>1, <2>2, <2>3, <2>4 DEF Apart
<1> QED BY <1>1, HeapInvariant, PTL

----------------------------------------------------------------------------
\* Nothing is lost

\* The allocated blocks are the regions of the client and the blocks that
\* mm_realloc(p, 0) has leaked.
Accounted == ~misled => Held = DOMAIN live \cup leaked /\ DOMAIN live \cap leaked = {}

\* Every call keeps account.
LEMMA StepKeepsAccount ==
    ASSUME IInv, NoOverflow, Accounted, [Next]_vars
    PROVE  Accounted'
<1> SUFFICES ASSUME misled' = FALSE
             PROVE  Held' = DOMAIN live' \cup leaked' /\ DOMAIN live' \cap leaked' = {}
  <2>1. misled' \in BOOLEAN
    BY StepKeepsIInv DEF IInv
  <2> QED BY <2>1 DEF Accounted
<1>1. CASE UNCHANGED vars
  <2>1. heap' = heap /\ live' = live /\ leaked' = leaked /\ misled' = misled
    BY <1>1 DEF vars
  <2>2. Held' = Held
    BY <2>1 DEF Held
  <2> QED BY <2>1, <2>2 DEF Accounted
<1>2. CASE Next
  <2>1. misled = FALSE
    BY <1>2 DEF Next, IInv
  <2>2. PICK T, R, L : /\ T = Held /\ R = DOMAIN live /\ L = leaked
                       /\ T = R \cup L /\ R \cap L = {}
    BY <2>1 DEF Accounted
  <2> DEFINE Goal == Held' = DOMAIN live' \cup leaked' /\ DOMAIN live' \cap leaked' = {}
  <2>3. ASSUME Nothing, leaked' = leaked PROVE Goal
    BY <2>2, <2>3 DEF Nothing
  <2>4. ASSUME NEW old \in DOMAIN live, NEW size, NEW bp, Moved(old, bp, size), leaked' = leaked
        PROVE  Goal
    <3>1. live' = With(Without(old), bp, Resized(old, size))
      BY <2>4 DEF Moved
    <3>2. DOMAIN live' = (R \ {old}) \cup {bp}
      BY <2>2, <3>1 DEF With, Without
    <3>3. bp \notin T \ {old} /\ Held' = (T \ {old}) \cup {bp}
      BY <2>2, <2>4 DEF Moved
    <3> QED BY <2>2, <2>4, <3>2, <3>3
  <2>5. ASSUME NEW size \in Sizes, Malloc(size) PROVE Goal
    <3>1. leaked' = leaked
      BY <2>5 DEF Malloc
    <3>2. Nothing \/ \E bp : Filled(bp, size)
      BY <2>1, <2>5, MallocStep
    <3>3. ASSUME NEW bp, Filled(bp, size) PROVE Goal
      <4>1. live' = With(live, bp, [size |-> size, known |-> size])
        BY <3>3 DEF Filled
      <4>2. DOMAIN live' = R \cup {bp}
        BY <2>2, <4>1 DEF With
      <4>3. bp \notin T /\ Held' = T \cup {bp}
        BY <2>2, <3>3 DEF Filled
      <4> QED BY <2>2, <3>1, <4>2, <4>3
    <3> HIDE DEF Goal
    <3> QED BY <2>3, <3>1, <3>2, <3>3
  <2>6. ASSUME NEW bp \in DOMAIN live, Free(bp) PROVE Goal
    <3>1. Dropped(bp) /\ Held' = Held \ {bp} /\ leaked' = leaked
      BY <2>1, <2>6, FreeStep DEF Free
    <3>2. DOMAIN live' = R \ {bp}
      BY <2>2, <3>1 DEF Dropped, Without
    <3> QED BY <2>2, <3>1, <3>2
  <2>7. ASSUME NEW bp \in DOMAIN live, ReallocZero(bp) PROVE Goal
    <3>1. Dropped(bp) /\ Held' = Held /\ leaked' = leaked \cup {bp}
      BY <2>1, <2>7, ZeroStep DEF ReallocZero
    <3>2. DOMAIN live' = R \ {bp}
      BY <2>2, <3>1 DEF Dropped, Without
    <3> QED BY <2>2, <3>1, <3>2
  <2>8. ASSUME NEW bp \in DOMAIN live, NEW size \in Sizes \ {0}, ReallocGrow(bp, size) PROVE Goal
    <3>1. leaked' = leaked
      BY <2>8 DEF ReallocGrow
    <3>2. Nothing \/ Moved(bp, bp, size)
      BY <2>1, <2>8, GrowStep
    <3> HIDE DEF Goal
    <3> QED BY <2>3, <2>4, <3>1, <3>2
  <2>9. ASSUME NEW bp \in DOMAIN live, NEW size \in Sizes \ {0}, ReallocMove(bp, size) PROVE Goal
    <3>1. leaked' = leaked
      BY <2>9 DEF ReallocMove
    <3>2. PICK newsize, want : newsize = AdjustedSize(size) /\ want = (newsize - DSIZE) % WORD
      OBVIOUS
    <3>3. \E q : Moved(bp, q, size)
      BY <2>1, <2>9, <3>2, MoveStep
    <3> HIDE DEF Goal
    <3> QED BY <2>4, <3>1, <3>3
  <2>10. ASSUME NEW size \in Sizes, ReallocNull(size) PROVE FALSE
    BY <2>10 DEF ReallocNull
  <2> HIDE DEF Goal
  <2>11. Goal
    BY <1>2, <2>5, <2>6, <2>7, <2>8, <2>9, <2>10 DEF Next
  <2> QED BY <2>11 DEF Goal
<1> QED BY <1>1, <1>2

\* mm_init leaves no block allocated.
LEMMA InitIsAccounted == Init => Accounted
<1> SUFFICES ASSUME Init PROVE Held = {} /\ DOMAIN live = {} /\ leaked = {}
  BY DEF Accounted
<1>1. PICK B : Ready(InitialHeap, B) /\ InitialHeap.brk <= MaxHeap /\ Taken(InitialHeap, B) = {}
  BY InitIsReady
<1>2. heap = InitialHeap /\ live = <<>> /\ leaked = {}
  BY DEF Init
<1>3. PICK h : h = heap
  OBVIOUS
<1>4. IsHeap(h) /\ Tiles(h, B) /\ Taken(h, B) = {}
  BY <1>1, <1>2, <1>3 DEF Ready, InOrder
<1>5. Held = {}
  BY <1>3, <1>4, BlocksAre DEF Held
<1> QED BY <1>2, <1>5

\* Every allocated block is a region of the client or one leaked by mm_realloc(p, 0),
\* never both.
THEOREM RegionsAreAllocated == NoOverflow => (Spec => []LiveIsAllocated)
<1> SUFFICES ASSUME NoOverflow PROVE Spec => []LiveIsAllocated
  OBVIOUS
<1>1. IInv /\ Accounted => LiveIsAllocated
  <2> SUFFICES ASSUME IInv, Accounted, misled = FALSE
               PROVE  Allocated(heap) = DOMAIN live \cup leaked /\ DOMAIN live \cap leaked = {}
    BY DEF LiveIsAllocated, IInv
  <2>1. Allocated(heap) = Held
    BY BetweenCalls DEF Held
  <2> QED BY <2>1 DEF Accounted
<1>2. IInv /\ Accounted /\ [Next]_vars => Accounted'
  BY StepKeepsAccount
<1> QED BY <1>1, <1>2, InitIsAccounted, HeapInvariant, PTL DEF Spec

----------------------------------------------------------------------------
\* The steps

\* mm_malloc, for the client or to move a block, extends the heap only when no free
\* block of any list is large enough.
THEOREM GrowingOnlyWhenNoFit == NoOverflow => (Spec => GrowsOnlyWhenNoFit)
<1> SUFFICES ASSUME NoOverflow PROVE Spec => GrowsOnlyWhenNoFit
  OBVIOUS
<1>1. ASSUME IInv, [Next]_vars
      PROVE  [\A size \in Sizes :
                 /\ heap'.brk # heap.brk
                 /\ Malloc(size) \/ \E old \in DOMAIN live : ReallocMove(old, size)
                 => \A bp \in FreeBlocks(heap) : SizeOf(heap, bp) < AdjustedSize(size)]_vars
  <2> SUFFICES ASSUME Next, NEW size \in Sizes, heap'.brk # heap.brk,
                      Malloc(size) \/ \E old \in DOMAIN live : ReallocMove(old, size)
               PROVE  \A bp \in FreeBlocks(heap) : SizeOf(heap, bp) < AdjustedSize(size)
    BY <1>1
  <2>1. misled = FALSE
    BY <1>1 DEF Next, IInv
  <2>2. ASSUME Malloc(size)
        PROVE  \A p \in Frees(heap, Blocks(heap)) : SizeOf(heap, p) < AdjustedSize(size)
    BY <1>1, <2>1, <2>2, MallocStep
  <2>3. ASSUME NEW old \in DOMAIN live, ReallocMove(old, size)
        PROVE  \A p \in Frees(heap, Blocks(heap)) : SizeOf(heap, p) < AdjustedSize(size)
    <3>1. size \in Sizes \ {0}
      BY <2>3 DEF ReallocMove
    <3>2. PICK newsize, want : newsize = AdjustedSize(size) /\ want = (newsize - DSIZE) % WORD
      OBVIOUS
    <3>3. \A p \in Frees(heap, Blocks(heap)) : SizeOf(heap, p) < newsize
      BY <1>1, <2>1, <2>3, <3>1, <3>2, MoveStep
    <3> QED BY <3>2, <3>3
  <2> QED BY <2>2, <2>3 DEF FreeBlocks, Frees
<1> QED BY <1>1, HeapInvariant, PTL DEF Spec, GrowsOnlyWhenNoFit

\* Operation by operation, the calls of the segregated package that break the promise
\* of malloc, free and realloc: without overflow a mm_realloc to a larger block does
\* so when an allocated block is behind it, or when the heap grows behind a free one
\* that is not the last.
THEOREM MisleadingCalls == NoOverflow => (Spec => MisleadsExactlyWhen)
<1> SUFFICES ASSUME NoOverflow PROVE Spec => MisleadsExactlyWhen
  OBVIOUS
<1>1. ASSUME IInv, [Next]_vars
      PROVE  [/\ \A size \in Sizes :
                    /\ Exactly(Malloc(size), size # 0 /\ Misfit(size))
                    /\ Exactly(ReallocNull(size), TRUE)
              /\ \A bp \in DOMAIN live :
                    /\ Exactly(Free(bp) \/ ReallocZero(bp), FALSE)
                    /\ \A size \in Sizes \ {0} :
                          LET request == (AdjustedSize(size) - DSIZE) % WORD
                          IN  /\ Exactly(ReallocMove(bp, size),
                                         mm_malloc(heap, request).bp = NULL \/ Misfit(request))
                              /\ Exactly(ReallocGrow(bp, size), GrowsWrongly(bp, size))]_vars
  <2> SUFFICES ASSUME Next
               PROVE  /\ \A size \in Sizes :
                            /\ Exactly(Malloc(size), size # 0 /\ Misfit(size))
                            /\ Exactly(ReallocNull(size), TRUE)
                      /\ \A bp \in DOMAIN live :
                            /\ Exactly(Free(bp) \/ ReallocZero(bp), FALSE)
                            /\ \A size \in Sizes \ {0} :
                                  LET request == (AdjustedSize(size) - DSIZE) % WORD
                                  IN  /\ Exactly(ReallocMove(bp, size),
                                                 \/ mm_malloc(heap, request).bp = NULL
                                                 \/ Misfit(request))
                                      /\ Exactly(ReallocGrow(bp, size), GrowsWrongly(bp, size))
    BY <1>1
  <2>1. misled = FALSE
    BY <1>1 DEF Next, IInv
  <2>2. ASSUME NEW size \in Sizes PROVE Exactly(Malloc(size), size # 0 /\ Misfit(size))
    <3>1. ASSUME Malloc(size) PROVE IF size # 0 /\ Misfit(size) THEN misled' = TRUE ELSE misled' = FALSE
      BY <1>1, <2>1, <3>1, MallocStep
    <3> QED BY <3>1 DEF Exactly
  <2>3. ASSUME NEW size \in Sizes PROVE Exactly(ReallocNull(size), TRUE)
    BY DEF Exactly, ReallocNull
  <2>4. ASSUME NEW bp \in DOMAIN live PROVE Exactly(Free(bp) \/ ReallocZero(bp), FALSE)
    <3>1. ASSUME Free(bp) \/ ReallocZero(bp) PROVE misled' = FALSE
      BY <1>1, <2>1, <3>1, FreeStep, ZeroStep
    <3> QED BY <3>1 DEF Exactly
  <2>5. ASSUME NEW bp \in DOMAIN live, NEW size \in Sizes \ {0}
        PROVE  LET request == (AdjustedSize(size) - DSIZE) % WORD
               IN  Exactly(ReallocMove(bp, size),
                           mm_malloc(heap, request).bp = NULL \/ Misfit(request))
    <3>1. PICK newsize, request : newsize = AdjustedSize(size) /\ request = (newsize - DSIZE) % WORD
      OBVIOUS
    <3>2. ASSUME ReallocMove(bp, size)
          PROVE  IF mm_malloc(heap, request).bp = NULL \/ Misfit(request)
                 THEN misled' = TRUE ELSE misled' = FALSE
      BY <1>1, <2>1, <3>1, <3>2, MoveStep
    <3>3. Exactly(ReallocMove(bp, size), mm_malloc(heap, request).bp = NULL \/ Misfit(request))
      BY <3>2 DEF Exactly
    <3> QED BY <3>1, <3>3
  <2>6. ASSUME NEW bp \in DOMAIN live, NEW size \in Sizes \ {0}
        PROVE  Exactly(ReallocGrow(bp, size), GrowsWrongly(bp, size))
    <3>1. ASSUME ReallocGrow(bp, size)
          PROVE  IF GrowsWrongly(bp, size) THEN misled' = TRUE ELSE misled' = FALSE
      <4>1. IF Misgrown(bp) THEN misled' = TRUE ELSE misled' = FALSE
        BY <1>1, <2>1, <3>1, GrowStep
      <4>2. GrowsWrongly(bp, size) <=> Misgrown(bp)
        BY <1>1, <2>1, GrowsWronglyIs
      <4> QED BY <4>1, <4>2
    <3> QED BY <3>1 DEF Exactly
  <2> QED BY <2>2, <2>3, <2>4, <2>5, <2>6
<1> QED BY <1>1, HeapInvariant, PTL DEF Spec, MisleadsExactlyWhen

----------------------------------------------------------------------------
\* The promise of malloc, free and realloc

\* What the client knows of a region, as the abstract specification has it.
KnownData(h, regions, q) ==
    [w \in 0..((regions[q].known + 3) \div 4 - 1) |-> h.mem[q + WSIZE * w]]

Regions(h, regions) ==
    [q \in DOMAIN regions |-> [size |-> regions[q].size, data |-> KnownData(h, regions, q)]]

\* Regions that are kept have the same contents.
LEMMA SameContents ==
    ASSUME NEW h, NEW g, NEW regions, NEW regions2, NEW q, regions2[q] = regions[q],
           \A a \in RegionWords(q, regions[q].known) : g.mem[a] = h.mem[a]
    PROVE  KnownData(g, regions2, q) = KnownData(h, regions, q)
<1>1. \A w \in 0..((regions[q].known + 3) \div 4 - 1) :
         g.mem[q + WSIZE * w] = h.mem[q + WSIZE * w]
  BY DEF RegionWords
<1> QED BY <1>1 DEF KnownData

\* A block is a pointer that the abstract specification can return, with room for its
\* region below the end of the heap.
LEMMA BlocksArePtrs ==
    ASSUME NEW h, NEW C, InOrder(h, C), h.brk <= MaxHeap, NEW q \in C,
           NEW size \in Nat, size + DSIZE <= SizeOf(h, q)
    PROVE  q \in Abstract!Ptrs /\ q + size <= h.brk
<1>1. /\ q \in Int /\ q % 8 = 0 /\ q >= 8 /\ SizeOf(h, q) \in Int
      /\ q + SizeOf(h, q) <= h.brk /\ h.brk \in Nat /\ q < h.brk
  BY TagsAreWords DEF InOrder
<1>2. MaxHeap \in Nat
  BY SegregatedAssumption
<1> QED BY <1>1, <1>2 DEF Abstract!Ptrs, DSIZE

\* The regions of two blocks are disjoint.
LEMMA BlocksAreDisjoint ==
    ASSUME NEW h, NEW C, InOrder(h, C), NEW p \in C, NEW q \in C, p # q,
           NEW m \in Nat, m + DSIZE <= SizeOf(h, p),
           NEW n \in Nat, n + DSIZE <= SizeOf(h, q)
    PROVE  Abstract!Region(p, m) \cap Abstract!Region(q, n) = {}
<1>1. /\ p \in Int /\ q \in Int /\ SizeOf(h, p) \in Int /\ SizeOf(h, q) \in Int
      /\ NEXT_BLKP(h, p) = p + SizeOf(h, p) /\ NEXT_BLKP(h, q) = q + SizeOf(h, q)
  BY TagsAreWords DEF InOrder
<1>2. NEXT_BLKP(h, p) <= q \/ NEXT_BLKP(h, q) <= p
  BY <1>1 DEF InOrder, Tiles
<1> QED BY <1>1, <1>2 DEF Abstract!Region, DSIZE

\* A region that the client owns in a heap in order is one that the abstract
\* specification can return next to its other regions.
LEMMA OwnedIsAllowed ==
    ASSUME NEW h, NEW C, InOrder(h, C), h.brk <= MaxHeap, NEW regions, Owned(h, C, regions),
           NEW bp \in DOMAIN regions, NEW size, size = regions[bp].size
    PROVE  /\ bp \in Abstract!Ptrs /\ bp + size <= h.brk
           /\ \A q \in DOMAIN regions \ {bp} :
                 Abstract!Region(bp, size) \cap Abstract!Region(q, regions[q].size) = {}
<1>1. \A q \in DOMAIN regions : /\ q \in C /\ regions[q].size \in Nat
                                /\ regions[q].size + DSIZE <= SizeOf(h, q)
  BY DEF Owned, Taken, DSIZE
<1>2. bp \in Abstract!Ptrs /\ bp + size <= h.brk
  BY <1>1, BlocksArePtrs
<1>3. ASSUME NEW q \in DOMAIN regions \ {bp}
      PROVE  Abstract!Region(bp, size) \cap Abstract!Region(q, regions[q].size) = {}
  BY <1>1, BlocksAreDisjoint
<1> QED BY <1>2, <1>3

\* A region that is filled is the abstract malloc.
LEMMA FilledIsMalloc ==
    ASSUME NEW size \in Sizes, NEW bp, Filled(bp, size)
    PROVE  Abstract!Malloc(size) /\ heap.brk <= heap'.brk
<1> DEFINE A == Regions(heap, live)
           A2 == Regions(heap', live')
           data(c) == [w \in Abstract!Words(size) |-> Data(c)]
<1>1. PICK C, c :
        /\ InOrder(heap', C) /\ Owned(heap', C, live') /\ heap'.brk <= MaxHeap
        /\ bp \notin DOMAIN live /\ c \in Clients
        /\ live' = With(live, bp, [size |-> size, known |-> size])
        /\ KnownKept(heap, heap', live, DOMAIN live)
        /\ \A a \in RegionWords(bp, size) : heap'.mem[a] = Data(c)
        /\ heap.brk <= heap'.brk
  BY DEF Filled
<1>2. /\ DOMAIN live' = DOMAIN live \cup {bp}
      /\ live'[bp].size = size /\ live'[bp].known = size
      /\ \A q \in DOMAIN live : live'[q] = live[q]
  BY ONLY <1>1 DEF With
<1>3. /\ bp \in Abstract!Ptrs /\ bp + size <= heap'.brk
      /\ \A q \in DOMAIN live' \ {bp} :
            Abstract!Region(bp, size) \cap Abstract!Region(q, live'[q].size) = {}
  BY <1>1, <1>2, OwnedIsAllowed
<1>4. \A q \in DOMAIN live : Abstract!Region(bp, size) \cap Abstract!Region(q, live[q].size) = {}
  BY <1>1, <1>2, <1>3
<1>5. \A q \in DOMAIN live : KnownData(heap', live', q) = KnownData(heap, live, q)
  BY <1>1, <1>2, SameContents DEF KnownKept
<1>6. KnownData(heap', live', bp) = data(c)
  <2>1. \A w \in 0..((size + 3) \div 4 - 1) : heap'.mem[bp + WSIZE * w] = Data(c)
    BY <1>1 DEF RegionWords
  <2> QED BY <1>2, <2>1 DEF KnownData, Abstract!Words
<1>7. A2 = Abstract!With(A, bp, [size |-> size, data |-> data(c)])
  <2> HIDE DEF data
  <2> QED BY <1>1, <1>2, <1>5, <1>6 DEF Regions, Abstract!With
<1>8. Abstract!Disjoint(bp, size, DOMAIN A)
  BY <1>4 DEF Abstract!Disjoint, Regions
<1>9. Abstract!Malloc(size)
  <2>1. Data(c) \in {Data(d) : d \in Clients}
    BY <1>1
  <2> QED BY <1>3, <1>7, <1>8, <2>1 DEF Abstract!Malloc, Regions, KnownData
<1> QED BY <1>1, <1>9

\* A region that has been moved, or resized where it is, is the abstract realloc.
LEMMA MovedIsRealloc ==
    ASSUME IInv, misled = FALSE, NEW old \in DOMAIN live, NEW size \in Sizes, NEW bp,
           Moved(old, bp, size)
    PROVE  Abstract!Realloc(old, size) /\ heap.brk <= heap'.brk
<1> DEFINE known == Lesser(live[old].known, size)
           A == Regions(heap, live)
           A2 == Regions(heap', live')
           D == Abstract!Words(size) \cap DOMAIN A[old].data
           data == [w \in D |-> A[old].data[w]]
<1>1. size \in Nat
  BY SegregatedAssumption
<1>2. Owned(heap, Blocks(heap), live)
  BY BetweenCalls
<1>3. Resized(old, size) = [size |-> size, known |-> known]
  BY DEF Resized
<1>4. PICK C :
        /\ InOrder(heap', C) /\ Owned(heap', C, live')
        /\ heap.brk <= heap'.brk /\ heap'.brk <= MaxHeap
        /\ bp \notin DOMAIN live \ {old}
        /\ live' = With(Without(old), bp, [size |-> size, known |-> known])
        /\ KnownKept(heap, heap', live, DOMAIN live \ {old})
        /\ \A w \in 0..((known + 3) \div 4 - 1) :
              heap'.mem[bp + WSIZE * w] = heap.mem[old + WSIZE * w]
  BY <1>3 DEF Moved
<1>5. /\ DOMAIN live' = (DOMAIN live \ {old}) \cup {bp}
      /\ live'[bp].size = size /\ live'[bp].known = known
      /\ \A q \in DOMAIN live \ {old} : live'[q] = live[q]
  <2> HIDE DEF known
  <2> QED BY ONLY <1>4 DEF With, Without
<1>6. /\ bp \in Abstract!Ptrs /\ bp + size <= heap'.brk
      /\ \A q \in DOMAIN live' \ {bp} :
            Abstract!Region(bp, size) \cap Abstract!Region(q, live'[q].size) = {}
  BY <1>4, <1>5, OwnedIsAllowed
<1>7. \A q \in DOMAIN live \ {old} :
         Abstract!Region(bp, size) \cap Abstract!Region(q, live[q].size) = {}
  BY <1>4, <1>5, <1>6
<1>8. \A q \in DOMAIN live \ {old} : KnownData(heap', live', q) = KnownData(heap, live, q)
  BY <1>4, <1>5, SameContents DEF KnownKept
<1>9. D = 0..((known + 3) \div 4 - 1)
  <2>1. live[old].known \in Nat
    BY <1>2 DEF Owned
  <2>2. DOMAIN A[old].data = 0..((live[old].known + 3) \div 4 - 1)
    BY DEF Regions, KnownData
  <2>3. \A m, n \in Nat : m <= n => (m + 3) \div 4 <= (n + 3) \div 4
    OBVIOUS
  <2>4. (size + 3) \div 4 \in Int /\ (live[old].known + 3) \div 4 \in Int
    BY <1>1, <2>1
  <2> DEFINE x == (size + 3) \div 4
             y == (live[old].known + 3) \div 4
  <2>5. IF live[old].known < size THEN known = live[old].known /\ y <= x ELSE known = size /\ x <= y
    BY <1>1, <2>1, <2>3 DEF Lesser
  <2>6. (known + 3) \div 4 = IF live[old].known < size THEN y ELSE x
    BY <2>5
  <2> HIDE DEF x, y
  <2>7. D = (0..(x - 1)) \cap (0..(y - 1))
    BY <2>2 DEF Abstract!Words, x, y
  <2> HIDE DEF D, known
  <2>8. x \in Int /\ y \in Int
    BY <2>4 DEF x, y
  <2>9. ASSUME x <= y PROVE (0..(x - 1)) \cap (0..(y - 1)) = 0..(x - 1)
    BY ONLY <2>8, <2>9
  <2>10. ASSUME y <= x PROVE (0..(x - 1)) \cap (0..(y - 1)) = 0..(y - 1)
    BY ONLY <2>8, <2>10
  <2>11. CASE live[old].known < size
    <3>1. D = 0..(y - 1)
      BY <2>5, <2>7, <2>10, <2>11
    <3> QED BY ONLY <2>6, <2>11, <3>1
  <2>12. CASE ~(live[old].known < size)
    <3>1. D = 0..(x - 1)
      BY <2>5, <2>7, <2>9, <2>12
    <3> QED BY ONLY <2>6, <2>12, <3>1
  <2> QED BY <2>11, <2>12
<1>10. KnownData(heap', live', bp) = data
  <2>1. \A i \in D : A[old].data[i] = heap.mem[old + WSIZE * i]
    BY DEF Regions, KnownData
  <2> HIDE DEF D, A, known
  <2>2. KnownData(heap', live', bp) = [w \in D |-> heap'.mem[bp + WSIZE * w]]
    BY <1>5, <1>9 DEF KnownData
  <2>3. data = [w \in D |-> heap.mem[old + WSIZE * w]]
    BY <2>1
  <2>4. \A w \in D : heap'.mem[bp + WSIZE * w] = heap.mem[old + WSIZE * w]
    BY <1>4, <1>9
  <2> HIDE DEF data
  <2> QED BY ONLY <2>2, <2>3, <2>4
<1>11. A2 = Abstract!With(Abstract!Without(A, old), bp, [size |-> size, data |-> data])
  <2> HIDE DEF data
  <2> QED BY <1>4, <1>5, <1>8, <1>10 DEF Regions, Abstract!With, Abstract!Without
<1>12. Abstract!Disjoint(bp, size, DOMAIN A \ {old})
  BY <1>7 DEF Abstract!Disjoint, Regions
<1>13. Abstract!Realloc(old, size)
  BY <1>6, <1>11, <1>12 DEF Abstract!Realloc, Regions, KnownData
<1> QED BY <1>4, <1>13

\* A region that is given up is the abstract free.
LEMMA DroppedIsFree ==
    ASSUME NEW bp \in DOMAIN live, Dropped(bp)
    PROVE  Abstract!Free(bp) /\ heap'.brk = heap.brk
<1>1. /\ live' = [q \in DOMAIN live \ {bp} |-> live[q]] /\ heap'.brk = heap.brk
      /\ KnownKept(heap, heap', live', DOMAIN live')
  BY DEF Dropped, Without
<1>2. DOMAIN live' = DOMAIN live \ {bp} /\ \A q \in DOMAIN live' : live'[q] = live[q]
  BY <1>1
<1>3. \A q \in DOMAIN live' : KnownData(heap', live', q) = KnownData(heap, live, q)
  BY <1>1, <1>2, SameContents DEF KnownKept
<1>4. Regions(heap', live') = Abstract!Without(Regions(heap, live), bp)
  BY <1>2, <1>3 DEF Regions, Abstract!Without
<1> QED BY <1>1, <1>4 DEF Abstract!Free, Regions, KnownData

\* Doing nothing is allowed.
LEMMA NothingIsAllowed ==
    ASSUME Nothing
    PROVE  Regions(heap', live') = Regions(heap, live) /\ heap'.brk = heap.brk
<1>1. live' = live /\ heap'.brk = heap.brk /\ KnownKept(heap, heap', live, DOMAIN live)
  BY DEF Nothing
<1>2. \A q \in DOMAIN live : KnownData(heap', live', q) = KnownData(heap, live, q)
  BY <1>1, SameContents DEF KnownKept
<1> QED BY <1>1, <1>2 DEF Regions

\* Every call that does not break the promise is a step of the abstract
\* specification.
LEMMA StepRefines ==
    ASSUME IInv, IInv', NoOverflow, Next
    PROVE  misled' \/ Abstract!Next
<1> DEFINE Goal == misled' \/ Abstract!Next
<1> SUFFICES Goal
  OBVIOUS
<1>1. misled = FALSE
  BY DEF Next, IInv
<1>2. heap.brk \in Nat /\ heap'.brk \in Nat /\ heap'.brk <= MaxHeap /\ MaxHeap \in Nat
  <2>1. IsHeap(heap) /\ IsHeap(heap') /\ heap'.brk <= MaxHeap
    BY DEF IInv, Bounded
  <2> QED BY <2>1, SegregatedAssumption DEF IsHeap
<1>3. heap.brk <= heap'.brk => heap'.brk \in heap.brk..MaxHeap
  BY <1>2
<1>4. ASSUME Nothing PROVE Goal
  <2>1. Regions(heap', live') = Regions(heap, live) /\ heap'.brk = heap.brk
    BY <1>4, NothingIsAllowed
  <2>2. heap'.brk \in heap.brk..MaxHeap
    BY <1>2, <1>3, <2>1
  <2> QED BY <2>1, <2>2 DEF Abstract!Next, Regions, KnownData
<1>5. ASSUME NEW bp \in DOMAIN live, NEW size \in Sizes, NEW q, Moved(bp, q, size) PROVE Goal
  <2>1. Abstract!Realloc(bp, size) /\ heap.brk <= heap'.brk
    BY <1>1, <1>5, MovedIsRealloc
  <2>2. bp \in DOMAIN Regions(heap, live)
    BY DEF Regions
  <2> QED BY <1>3, <2>1, <2>2 DEF Abstract!Next, Regions, KnownData
<1>6. ASSUME NEW bp \in DOMAIN live, Dropped(bp) PROVE Goal
  <2>1. Abstract!Free(bp) /\ heap'.brk = heap.brk
    BY <1>6, DroppedIsFree
  <2>2. heap'.brk \in heap.brk..MaxHeap
    BY <1>2, <1>3, <2>1
  <2>3. bp \in DOMAIN Regions(heap, live)
    BY DEF Regions
  <2> QED BY <2>1, <2>2, <2>3 DEF Abstract!Next, Regions, KnownData
<1>7. ASSUME NEW size \in Sizes, NEW bp, Filled(bp, size) PROVE Goal
  <2>1. Abstract!Malloc(size) /\ heap.brk <= heap'.brk
    BY <1>7, FilledIsMalloc
  <2> QED BY <1>3, <2>1 DEF Abstract!Next
<1>8. misled' => Goal
  OBVIOUS
<1> HIDE DEF Goal
<1>9. ASSUME NEW size \in Sizes, Malloc(size) PROVE Goal
  <2>1. IF size # 0 /\ Misfit(size) THEN misled' = TRUE
        ELSE misled' = FALSE /\ (Nothing \/ \E bp : Filled(bp, size))
    BY <1>1, <1>9, MallocStep
  <2> QED BY <1>4, <1>7, <1>8, <2>1
<1>10. ASSUME NEW bp \in DOMAIN live, Free(bp) \/ ReallocZero(bp) PROVE Goal
  <2>1. Dropped(bp)
    BY <1>1, <1>10, FreeStep, ZeroStep
  <2> QED BY <1>6, <2>1
<1>11. ASSUME NEW bp \in DOMAIN live, NEW size \in Sizes \ {0}, ReallocGrow(bp, size) PROVE Goal
  <2>1. misled' = TRUE \/ Nothing \/ Moved(bp, bp, size)
    BY <1>1, <1>11, GrowStep
  <2> QED BY <1>4, <1>5, <1>8, <2>1
<1>12. ASSUME NEW bp \in DOMAIN live, NEW size \in Sizes \ {0}, ReallocMove(bp, size) PROVE Goal
  <2>1. PICK newsize, want : newsize = AdjustedSize(size) /\ want = (newsize - DSIZE) % WORD
    OBVIOUS
  <2>2. misled' = TRUE \/ \E q : Moved(bp, q, size)
    BY <1>1, <1>12, <2>1, MoveStep
  <2> QED BY <1>5, <1>8, <2>2
<1>13. ASSUME NEW size \in Sizes, ReallocNull(size) PROVE Goal
  BY <1>8, <1>13 DEF ReallocNull
<1> QED BY <1>9, <1>10, <1>11, <1>12, <1>13 DEF Next

\* Until a call breaks it, the package keeps the promise of malloc, free and realloc.
THEOREM PromiseKept == NoOverflow => (Spec => KeepsPromise)
<1> SUFFICES ASSUME NoOverflow PROVE Spec => KeepsPromise
  OBVIOUS
<1>1. ASSUME IInv, IInv', [Next]_vars PROVE [misled' \/ Abstract!Next]_vars
  BY <1>1, StepRefines
<1> QED BY <1>1, HeapInvariant, PTL DEF Spec, KeepsPromise
=============================================================================
