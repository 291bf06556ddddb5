-------------------------- MODULE SegregatedList --------------------------
(* The malloc package with segregated free lists, mm_segregated.c.  A free  *)
(* block is linked, in its first two words, into the list of its size       *)
(* class; segregated_free_listp holds the last node of each list.  Memory   *)
(* is a function from the addresses of its words to numbers: sizes and      *)
(* pointers are multiples of 8, what a client writes is negative.  The      *)
(* routines are operators on the heap, a record of the memory, its end brk  *)
(* and the lists.                                                           *)
EXTENDS Integers, FiniteSets

CONSTANTS
    Sizes,          \* the sizes the client asks for, in bytes
    Clients,        \* what the client fills a region with
    CHUNKSIZE,      \* least growth of the heap
    LISTLIMIT,      \* number of the lists
    MaxHeap,        \* most bytes mem_sbrk grants
    WORD            \* number of values of a size_t, 2^32 in the -m32 build

Sets == INSTANCE FiniteSetsExt

ASSUME SegregatedAssumption ==
    /\ WORD \in Nat /\ WORD % 2 = 0
    /\ Sizes \subseteq 0..(WORD - 1) /\ Clients \subseteq Nat \ {0}
    /\ CHUNKSIZE \in Nat /\ CHUNKSIZE % 8 = 0 /\ CHUNKSIZE > 16
    /\ CHUNKSIZE < WORD \div 2 /\ MaxHeap < WORD \div 2    \* each is an int
    /\ LISTLIMIT \in Nat \ {0}
    /\ MaxHeap \in Nat /\ MaxHeap >= 16        \* mm_init has had its first words

VARIABLES
    heap,           \* [mem, brk, lists]
    live,           \* the client's regions: bp |-> [size, known]
    misled          \* a call has broken the promise of malloc, or crashed

\* History: the blocks that mm_realloc(p, 0) has taken from the client and left
\* allocated.  No action reads it.
VARIABLE leaked

vars == <<heap, live, misled, leaked>>

WSIZE == 4
DSIZE == 8
NULL == 0

PACK(size, alloc) == size + alloc

\* Data misread for a tag or a pointer leads out of the heap.
Data(c) == 0 - 8 * MaxHeap - c

Junk == Data(0)

Put(h, a, val) == [h EXCEPT !.mem[a] = val]

SetHead(h, list, bp) == [h EXCEPT !.lists[list] = bp]

GET_SIZE(word) == word - (word % 8)

SizeOf(h, bp) == GET_SIZE(h.mem[bp - WSIZE])

IsFree(h, bp) == h.mem[bp - WSIZE] % 2 = 0

NEXT_BLKP(h, bp) == bp + SizeOf(h, bp)

PREV_BLKP(h, bp) == bp - GET_SIZE(h.mem[bp - DSIZE])

FTRP(h, bp) == bp + SizeOf(h, bp) - DSIZE

PREV_PTR(bp) == bp

NEXT_PTR(bp) == bp + WSIZE

PREV(h, bp) == h.mem[PREV_PTR(bp)]

NEXT(h, bp) == h.mem[NEXT_PTR(bp)]

\* The header, then the footer that the new header leads to.
PutBlock(h, bp, size, alloc) ==
    Put(Put(h, bp - WSIZE, PACK(size, alloc)), bp + size - DSIZE, PACK(size, alloc))

\* The list that the loops over size >>= 1 arrive at: the last one, or the first
\* before it at which the size has become 1.
Class(size) ==
    Sets!Min({list \in 0..(LISTLIMIT - 1) : list = LISTLIMIT - 1 \/ size < 2^(list + 1)})

\* Mutant: the link of the only node of a list is not reset.
insert_nodeStalePrev(h, bp, size) ==
    LET last == h.lists[Class(size)]
        linked == SetHead(Put(h, NEXT_PTR(bp), NULL), Class(size), bp)
    IN  IF size <= 2 * DSIZE THEN h
        ELSE IF last = NULL THEN linked
        ELSE Put(Put(linked, PREV_PTR(bp), last), NEXT_PTR(last), bp)

\* The search for the place in a list compares sizes after the loop that finds
\* the list has shifted the new one away.  (That no list leads out of the heap is
\* part of FreeListsExact.)
PlaceIn(h, list, size) ==
    LET shifted == size \div 2^list
        walk[at \in [search : Int, insert : Int]] ==
            IF at.search # NULL /\ at.search \in DOMAIN h.mem /\ shifted > SizeOf(h, at.search)
            THEN walk[[search |-> PREV(h, at.search), insert |-> at.search]]
            ELSE at
    IN  walk[[search |-> h.lists[list], insert |-> NULL]]

insert_node(h, bp, size) ==
    LET list == Class(size)
        at == PlaceIn(h, list, size)
        linked == Put(Put(h, PREV_PTR(bp), at.search), NEXT_PTR(bp), at.insert)
        back == IF at.search = NULL THEN linked ELSE Put(linked, NEXT_PTR(at.search), bp)
    IN  IF size <= 2 * DSIZE THEN h
        ELSE IF at.insert = NULL THEN SetHead(back, list, bp)
        ELSE Put(back, PREV_PTR(at.insert), bp)

\* Mutant: the last node of a list is deleted and stays its head.
delete_nodeKeepsHead(h, bp) ==
    LET prev == PREV(h, bp)
        next == NEXT(h, bp)
        ahead == IF prev = NULL THEN h ELSE Put(h, NEXT_PTR(prev), next)
    IN  IF next # NULL THEN Put(ahead, PREV_PTR(next), prev)
        ELSE IF prev = NULL THEN SetHead(ahead, Class(SizeOf(h, bp)), NULL)
        ELSE ahead

\* A node with no successor is the one its list points at.
delete_node(h, bp) ==
    LET prev == PREV(h, bp)
        next == NEXT(h, bp)
        ahead == IF prev = NULL THEN h ELSE Put(h, NEXT_PTR(prev), next)
    IN  IF next # NULL THEN Put(ahead, PREV_PTR(next), prev)
        ELSE SetHead(ahead, Class(SizeOf(h, bp)), prev)

\* Mutant: a block whose neighbours before and behind it are both free is merged with
\* the one before it only.
coalesceForgetsNext(h, bp) ==
    LET prev == PREV_BLKP(h, bp)
        next == NEXT_BLKP(h, bp)
        start == IF IsFree(h, prev) THEN prev ELSE bp
        end == IF IsFree(h, next) /\ start = bp THEN NEXT_BLKP(h, next) ELSE next
        deleted == IF start = prev THEN delete_node(delete_node(h, prev), bp)
                   ELSE delete_node(delete_node(h, next), bp)
    IN  IF start = bp /\ end = next THEN [heap |-> h, bp |-> bp]
        ELSE [heap |-> insert_node(PutBlock(deleted, start, end - start, 0), start, end - start),
              bp   |-> start]

\* The block and its free neighbours leave their lists; the merged block enters
\* the list of its own size.
coalesce(h, bp) ==
    LET prev == PREV_BLKP(h, bp)
        next == NEXT_BLKP(h, bp)
        start == IF IsFree(h, prev) THEN prev ELSE bp
        end == IF IsFree(h, next) THEN NEXT_BLKP(h, next) ELSE next
        deleted == IF start = bp THEN delete_node(delete_node(h, next), bp)
                   ELSE IF end = next THEN delete_node(delete_node(h, prev), bp)
                   ELSE delete_node(delete_node(delete_node(h, prev), bp), next)
    IN  IF start = bp /\ end = next THEN [heap |-> h, bp |-> bp]
        ELSE [heap |-> insert_node(PutBlock(deleted, start, end - start, 0), start, end - start),
              bp   |-> start]

Failed(h) == [heap |-> h, bp |-> NULL]

\* The heap with size more bytes: one listed free block and a new epilogue.
WithChunk(h, size) ==
    LET bp == h.brk
        fresh == {bp + WSIZE * i : i \in 0..(size \div WSIZE - 1)}
        grown == [h EXCEPT !.brk = bp + size,
                           !.mem = [a \in DOMAIN h.mem \cup fresh |->
                                        IF a \in fresh THEN Junk ELSE h.mem[a]]]
    IN  insert_node(Put(PutBlock(grown, bp, size, 0), bp + size - WSIZE, PACK(0, 1)), bp, size)

\* mem_sbrk takes an int: what is negative for it is above MaxHeap here.
extend_heap(h, words) ==
    LET size == (IF words % 2 = 1 THEN words + 1 ELSE words) * WSIZE
    IN  IF h.brk + size > MaxHeap THEN Failed(h) ELSE coalesce(WithChunk(h, size), h.brk)

\* The size of a block for a request, in the arithmetic of size_t.
AdjustedSize(size) ==
    IF size <= DSIZE THEN 2 * DSIZE
    ELSE DSIZE * (((size + DSIZE + (DSIZE - 1)) % WORD) \div DSIZE)

\* The first node large enough, from the last node of the list on.
FitIn(h, list, asize) ==
    LET walk[p \in Int] ==
            IF p = NULL \/ p \notin DOMAIN h.mem THEN NULL
            ELSE IF asize <= SizeOf(h, p) THEN p ELSE walk[PREV(h, p)]
    IN  walk[h.lists[list]]

\* Mutant: only the list of the size itself is searched.
find_fitOwnClass(h, asize) == FitIn(h, Class(asize), asize)

\* The loop of mm_malloc: the list of the size, then those of larger sizes.
find_fit(h, asize) ==
    LET found == {list \in Class(asize)..(LISTLIMIT - 1) : FitIn(h, list, asize) # NULL}
    IN  IF found = {} THEN NULL ELSE FitIn(h, Sets!Min(found), asize)

\* The pointer returned is the one that has moved on to the rest; with less
\* than 16 bytes left, asize is written over the size of the whole block.
place(h, bp, asize) ==
    LET remainder == SizeOf(h, bp) - asize
        rest == bp + asize
        taken == PutBlock(delete_node(h, bp), bp, asize, 1)
    IN  IF remainder >= 2 * DSIZE
        THEN [heap |-> insert_node(PutBlock(taken, rest, remainder, 0), rest, remainder),
              bp   |-> rest]
        ELSE [heap |-> taken, bp |-> bp]

Larger(m, n) == IF m > n THEN m ELSE n

mm_malloc(h, size) ==
    LET asize == AdjustedSize(size)
        fit == find_fit(h, asize)
        grown == extend_heap(h, Larger(asize, CHUNKSIZE) \div WSIZE)
    IN  IF size = 0 THEN Failed(h)
        ELSE IF fit # NULL THEN place(h, fit, asize)
        ELSE IF grown.bp = NULL THEN Failed(h)
        ELSE place(grown.heap, grown.bp, asize)

\* Mutant: the footer still says that the block is allocated.
mm_freeHeaderOnly(h, bp) ==
    coalesce(insert_node(Put(h, bp - WSIZE, PACK(SizeOf(h, bp), 0)), bp, SizeOf(h, bp)), bp).heap

mm_free(h, bp) ==
    coalesce(insert_node(PutBlock(h, bp, SizeOf(h, bp), 0), bp, SizeOf(h, bp)), bp).heap

\* memcpy of the smaller of size and newsize, which is size.
Copied(h, from, to, size) ==
    [h EXCEPT !.mem = [a \in DOMAIN h.mem |->
        IF a \in to..(to + size - 1) THEN h.mem[from + (a - to)] ELSE h.mem[a]]]

\* mm_realloc to a larger block takes the next one over, whole, when it is free or
\* the epilogue.  Of the epilogue, delete_node reads words behind the heap: as the
\* block is too small then, the lists are left alone here.
TakenOver(h, bp) ==
    LET next == NEXT_BLKP(h, bp)
        have == SizeOf(h, bp) + SizeOf(h, next)
    IN  [heap |-> PutBlock(IF next = h.brk THEN h ELSE delete_node(h, next), bp, have, 1),
         bp   |-> bp]

\* Likewise, after the heap has been extended.  Nobody asks whether the extension is
\* next to the block.
Extended(h, bp, extendsize) ==
    LET next == NEXT_BLKP(h, bp)
        have == SizeOf(h, bp) + SizeOf(h, next)
        extended == extend_heap(h, extendsize \div WSIZE)
    IN  IF extended.bp = NULL THEN Failed(h)
        ELSE [heap |-> PutBlock(delete_node(extended.heap, next), bp, have + extendsize, 1),
              bp   |-> bp]

\* A number of bytes read from an int.
Signed(n) == IF n % WORD < WORD \div 2 THEN n % WORD ELSE (n % WORD) - WORD

\* What a block that grows in place may become: the bytes left are an int, so a
\* newsize far above them counts as small enough, and the least int has no
\* negation: the larger of that and CHUNKSIZE is CHUNKSIZE, or what mem_sbrk
\* refuses.
GrownInPlace(h, bp, newsize) ==
    LET remainder == Signed(SizeOf(h, bp) + SizeOf(h, NEXT_BLKP(h, bp)) - newsize)
    IN  IF remainder >= 0 THEN {TakenOver(h, bp)}
        ELSE IF remainder = 0 - WORD \div 2 THEN {Extended(h, bp, CHUNKSIZE), Failed(h)}
        ELSE {Extended(h, bp, Larger(0 - remainder, CHUNKSIZE))}

----------------------------------------------------------------------------
\* mm_init on an empty heap: padding, prologue, epilogue and a first chunk.
InitialHeap ==
    LET empty == [mem   |-> [a \in {0, 4, 8, 12} |->
                                CASE a = 0 -> 0
                                  [] a \in {4, 8} -> PACK(DSIZE, 1)
                                  [] a = 12 -> PACK(0, 1)],
                  brk   |-> 4 * WSIZE,
                  lists |-> [list \in 0..(LISTLIMIT - 1) |-> NULL]]
    IN  extend_heap(empty, CHUNKSIZE \div WSIZE).heap

Init ==
    /\ heap = InitialHeap
    /\ live = <<>>
    /\ misled = FALSE
    /\ leaked = {}

\* A walk from block to block ends at the epilogue, or where there is no header.
EndsAt(h, bp) == bp - WSIZE \notin DOMAIN h.mem \/ SizeOf(h, bp) <= 0

\* The starts of the blocks that a walk over the heap meets, the prologue first.
Blocks(h) ==
    LET walk[bp \in Int] ==
            IF EndsAt(h, bp) THEN {} ELSE {bp} \cup walk[NEXT_BLKP(h, bp)]
    IN  walk[DSIZE]

FreeBlocks(h) == {bp \in Blocks(h) : IsFree(h, bp)}

Allocated(h) == Blocks(h) \ (FreeBlocks(h) \cup {DSIZE})

\* Words of the client's region that a write of its size bytes touches.
RegionWords(bp, size) == {bp + WSIZE * i : i \in 0..((size + 3) \div 4 - 1)}

Written(h, bp, size, c) ==
    [h EXCEPT !.mem = [a \in DOMAIN h.mem |->
        IF a \in RegionWords(bp, size) THEN Data(c) ELSE h.mem[a]]]

\* Data abstraction: a word that is no tag and no link of a free block and holds
\* nothing the client knows keeps its old value in the program; here it is
\* forgotten.
Forgotten(h, regions) ==
    LET tags == UNION {{bp - WSIZE, FTRP(h, bp)} : bp \in Blocks(h)}
        links == UNION {{PREV_PTR(bp), NEXT_PTR(bp)} : bp \in FreeBlocks(h)}
        known == UNION {RegionWords(bp, regions[bp].known) : bp \in DOMAIN regions}
        kept == tags \cup links \cup known \cup {0, h.brk - WSIZE}
    IN  [h EXCEPT !.mem = [a \in DOMAIN h.mem |-> IF a \in kept THEN h.mem[a] ELSE Junk]]

\* The blocks lead from the prologue to the epilogue at the end of the heap, and
\* every footer repeats its header.
Tiled(h) ==
    /\ \E bp \in Blocks(h) : NEXT_BLKP(h, bp) = h.brk
    /\ h.mem[h.brk - WSIZE] = PACK(0, 1)
    /\ \A bp \in Blocks(h) : h.mem[FTRP(h, bp)] = h.mem[bp - WSIZE]

\* The heap h can be handed back to a client that owns regions, after a call that
\* may give up the block bp: the blocks tile it, each region is an allocated
\* block with room for it, and no other allocated block is gone.
Sound(h, regions, bp) ==
    /\ Tiled(h)
    /\ DOMAIN regions \cup (Allocated(heap) \ {bp}) \subseteq Allocated(h)
    /\ \A q \in DOMAIN regions : regions[q].size + DSIZE <= SizeOf(h, q)

Without(bp) == [q \in DOMAIN live \ {bp} |-> live[q]]

With(regions, bp, region) ==
    [q \in DOMAIN regions \cup {bp} |-> IF q = bp THEN region ELSE regions[q]]

\* The call hands back h.  With a broken promise the client would write where it
\* must not, and anything may follow: the behaviour stops.
HandBack(h, regions, bp) ==
    IF Sound(h, regions, bp)
    THEN heap' = Forgotten(h, regions) /\ live' = regions /\ UNCHANGED misled
    ELSE heap' = h /\ UNCHANGED live /\ misled' = TRUE

\* The client calls mm_malloc and fills what it gets.
Malloc(size) ==
    LET r == mm_malloc(heap, size)
    IN  /\ IF r.bp = NULL
           THEN HandBack(r.heap, live, NULL)
           ELSE \E c \in Clients :
                   HandBack(Written(r.heap, r.bp, size, c),
                            With(live, r.bp, [size |-> size, known |-> size]), NULL)
        /\ UNCHANGED leaked

Free(bp) == HandBack(mm_free(heap, bp), Without(bp), bp) /\ UNCHANGED leaked

Lesser(m, n) == IF m < n THEN m ELSE n

Resized(bp, size) == [size |-> size, known |-> Lesser(live[bp].known, size)]

\* mm_realloc to a block larger than the present one: in place, or nothing is done
\* and the old block returned as if it were large enough.
ReallocGrow(bp, size) ==
    LET newsize == AdjustedSize(size)
        next == NEXT_BLKP(heap, bp)
        results == IF IsFree(heap, next) \/ SizeOf(heap, next) = 0
                   THEN GrownInPlace(heap, bp, newsize)
                   ELSE {[heap |-> heap, bp |-> bp]}
    IN  /\ newsize > SizeOf(heap, bp)
        /\ \E r \in results :
              IF r.bp = NULL THEN HandBack(r.heap, live, NULL)
              ELSE HandBack(r.heap, With(live, bp, Resized(bp, size)), NULL)
        /\ UNCHANGED leaked

\* Mutant: the contents are not copied.
ReallocMoveEmpty(bp, size) ==
    LET newsize == AdjustedSize(size)
        r == mm_malloc(heap, (newsize - DSIZE) % WORD)
        moved == With(Without(bp), r.bp, Resized(bp, size))
    IN  /\ size > 0 /\ newsize <= SizeOf(heap, bp)
        /\ IF r.bp # NULL /\ Sound(r.heap, With(live, r.bp, Resized(bp, size)), NULL)
           THEN HandBack(mm_free(r.heap, bp), moved, bp)
           ELSE heap' = r.heap /\ UNCHANGED live /\ misled' = TRUE
        /\ UNCHANGED leaked

\* Mutant: the old block is not freed.
ReallocMoveKeepsOld(bp, size) ==
    LET newsize == AdjustedSize(size)
        r == mm_malloc(heap, (newsize - DSIZE) % WORD)
        moved == With(Without(bp), r.bp, Resized(bp, size))
    IN  /\ size > 0 /\ newsize <= SizeOf(heap, bp)
        /\ IF r.bp # NULL /\ Sound(r.heap, With(live, r.bp, Resized(bp, size)), NULL)
           THEN HandBack(Copied(r.heap, bp, r.bp, size), moved, bp)
           ELSE heap' = r.heap /\ UNCHANGED live /\ misled' = TRUE
        /\ UNCHANGED leaked

\* mm_realloc to a block no larger: a new block, a copy, the old block freed.  The
\* new pointer is not tested before memcpy writes through it.  (A newsize that has
\* wrapped to 0 or 8 comes here and gets no block or a free one: the behaviour
\* stops before the copy.)
ReallocMove(bp, size) ==
    LET newsize == AdjustedSize(size)
        r == mm_malloc(heap, (newsize - DSIZE) % WORD)
        moved == With(Without(bp), r.bp, Resized(bp, size))
    IN  /\ size > 0 /\ newsize <= SizeOf(heap, bp)
        /\ IF r.bp # NULL /\ Sound(r.heap, With(live, r.bp, Resized(bp, size)), NULL)
           THEN HandBack(mm_free(Copied(r.heap, bp, r.bp, size), bp), moved, bp)
           ELSE heap' = r.heap /\ UNCHANGED live /\ misled' = TRUE
        /\ UNCHANGED leaked

\* mm_realloc to size 0 returns NULL with nothing done: the client has given the
\* region up, the block stays allocated.
ReallocZero(bp) ==
    /\ HandBack(heap, Without(bp), NULL)
    /\ leaked' = leaked \cup {bp}

\* mm_realloc of the null pointer reads the header before address 0.
ReallocNull(size) ==
    /\ size > 0
    /\ misled' = TRUE
    /\ UNCHANGED <<heap, live, leaked>>

Next ==
    /\ ~misled
    /\ \/ \E size \in Sizes : Malloc(size) \/ ReallocNull(size)
       \/ \E bp \in DOMAIN live :
            \/ Free(bp)
            \/ \E size \in Sizes \ {0} : ReallocGrow(bp, size) \/ ReallocMove(bp, size)
            \/ ReallocZero(bp)

Spec == Init /\ [][Next]_vars

----------------------------------------------------------------------------
\* Properties

\* The words of the heap are those below brk, the lists point into it, and the
\* pointers the client holds are aligned.
TypeOK ==
    /\ misled \in BOOLEAN
    /\ heap.brk \in 0..MaxHeap
    /\ DOMAIN heap.mem = {WSIZE * i : i \in 0..(heap.brk \div WSIZE - 1)}
    /\ heap.lists \in [0..(LISTLIMIT - 1) -> 0..(heap.brk - 1)]
    /\ \A bp \in DOMAIN live : bp % DSIZE = 0 /\ live[bp].known <= live[bp].size

\* The nodes of a list, from its last one back through PREV, up to one that has
\* been met before or is outside the heap.
Nodes(h, list) ==
    LET walk[at \in [node : Int, met : SUBSET Int]] ==
            IF at.node \in at.met \cup {NULL} \/ at.node \notin DOMAIN h.mem
            THEN (at.met \cup {at.node}) \ {NULL}
            ELSE walk[[node |-> PREV(h, at.node), met |-> at.met \cup {at.node}]]
    IN  walk[[node |-> h.lists[list], met |-> {}]]

\* heap_checker's test and its converse: the lists hold exactly the free blocks,
\* each in the list of its size, and NEXT leads back along PREV.  (A block of 16
\* bytes, which insert_node leaves out, is never free.)
FreeListsExact ==
    ~misled =>
        /\ \A list \in DOMAIN heap.lists :
               Nodes(heap, list) = {bp \in FreeBlocks(heap) : Class(SizeOf(heap, bp)) = list}
        /\ \A bp \in FreeBlocks(heap) :
               /\ PREV(heap, bp) # NULL => NEXT(heap, PREV(heap, bp)) = bp
               /\ NEXT(heap, bp) = NULL <=> heap.lists[Class(SizeOf(heap, bp))] = bp

\* No two free blocks touch: coalescing has missed no case.
FreeBlocksCoalesced ==
    ~misled => \A bp \in FreeBlocks(heap) : NEXT_BLKP(heap, bp) \notin FreeBlocks(heap)

\* Every allocated block is a region of the client or one that mm_realloc(p, 0)
\* has leaked, never both: nothing else is lost, and nothing that is lost is handed
\* out.
LiveIsAllocated ==
    ~misled => Allocated(heap) = DOMAIN live \cup leaked /\ DOMAIN live \cap leaked = {}

\* mm_malloc, for the client or to move a block, asks for more memory only when no
\* free block of any class is large enough.
GrowsOnlyWhenNoFit ==
    [][\A size \in Sizes :
          /\ heap'.brk # heap.brk
          /\ Malloc(size) \/ \E old \in DOMAIN live : ReallocMove(old, size)
          => \A bp \in FreeBlocks(heap) : SizeOf(heap, bp) < AdjustedSize(size)]_vars

Abstract == INSTANCE Allocator WITH
    Contents <- {Data(c) : c \in Clients},
    top <- heap.brk,
    live <- [bp \in DOMAIN live |->
                [size |-> live[bp].size,
                 data |-> [w \in 0..((live[bp].known + 3) \div 4 - 1) |->
                              heap.mem[bp + WSIZE * w]]]]

\* Until a call misleads the client, the package keeps the promise of malloc,
\* free and realloc: regions disjoint and inside the heap, contents untouched.
KeepsPromise == [][misled' \/ Abstract!Next]_vars

\* mm_malloc(size) has a block to take and it is not exactly as large as needed.
Misfit(size) ==
    LET asize == AdjustedSize(size)
        fit == find_fit(heap, asize)
        grown == extend_heap(heap, Larger(asize, CHUNKSIZE) \div WSIZE)
    IN  IF fit # NULL THEN SizeOf(heap, fit) # asize
        ELSE grown.bp # NULL /\ SizeOf(grown.heap, grown.bp) # asize

\* mm_realloc to a larger block: an allocated block is behind; or so much is missing
\* that the int turns positive; or it is INT_MIN and the heap grows by too little; or
\* the heap grows behind a free block that is not the last.
GrowsWrongly(bp, size) ==
    LET next == NEXT_BLKP(heap, bp)
        missing == AdjustedSize(size) - SizeOf(heap, bp) - SizeOf(heap, next)
    IN  \/ next # heap.brk /\ ~IsFree(heap, next)
        \/ missing > WORD \div 2
        \/ /\ heap'.brk # heap.brk
           /\ missing = WORD \div 2 \/ (next # heap.brk /\ NEXT_BLKP(heap, next) # heap.brk)

\* A step that is this call misleads exactly when it goes wrong like this.
Exactly(call, wrong) == (misled' <=> wrong) \/ ~call

\* When a call breaks the promise, operation by operation: mm_malloc from a block of
\* another size (place); mm_realloc to a smaller block, likewise or without a block;
\* mm_realloc to a larger block as above; mm_realloc of the null pointer always;
\* mm_free and mm_realloc to size 0 never.
MisleadsExactlyWhen ==
    [][/\ \A size \in Sizes :
             /\ Exactly(Malloc(size), size # 0 /\ Misfit(size))
             /\ Exactly(ReallocNull(size), TRUE)
       /\ \A bp \in DOMAIN live :
             /\ Exactly(Free(bp) \/ ReallocZero(bp), FALSE)
             /\ \A size \in Sizes \ {0} :
                   LET request == (AdjustedSize(size) - DSIZE) % WORD
                   IN  /\ Exactly(ReallocMove(bp, size),
                                  mm_malloc(heap, request).bp = NULL \/ Misfit(request))
                       /\ Exactly(ReallocGrow(bp, size), GrowsWrongly(bp, size))]_vars
=============================================================================
