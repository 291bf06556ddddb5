--------------------------- MODULE ImplicitList ---------------------------
(* The two malloc packages with an implicit list of blocks: mm_textbook.c,  *)
(* which looks for the first fit, and the submitted file 20200927_*.c,      *)
(* which looks for the next fit from search_ptr.  A block has a header and  *)
(* a footer word with its size and its allocated bit; memory is a function  *)
(* from the addresses of its words.  The routines are operators on the      *)
(* heap, a record of the memory, its end brk and search_ptr.                *)
EXTENDS Integers, FiniteSets

CONSTANTS
    Sizes,          \* the sizes the client asks for, in bytes
    Clients,        \* what the client fills a region with; 0: it writes nothing
    CHUNKSIZE,      \* least growth of the heap: at least the smallest block
    MaxHeap,        \* most bytes mem_sbrk grants
    WORD,           \* number of values of a size_t, 2^32 in the -m32 build
    Policies        \* which of the two files: "first", "next"

LOCAL Sets == INSTANCE FiniteSetsExt

ASSUME ConstantsAssumption ==
    /\ Sizes \subseteq Nat /\ Clients \subseteq Nat
    /\ CHUNKSIZE \in Nat /\ CHUNKSIZE % 8 = 0 /\ CHUNKSIZE >= 16
    /\ MaxHeap \in Nat /\ MaxHeap >= 16
    /\ WORD \in Nat /\ WORD > CHUNKSIZE
    /\ Policies \subseteq {"first", "next"}

VARIABLES
    policy,         \* the file this behaviour is one of
    heap,           \* [mem, brk, search_ptr]
    live            \* the client's regions: bp |-> [size, known]

\* History: the blocks that mm_realloc(p, 0) has taken from the client and left
\* allocated.  No action reads it.
VARIABLE leaked

vars == <<policy, heap, live, leaked>>

WSIZE == 4
DSIZE == 8
NULL == 0

\* A word as PACK(size, alloc) writes it, and as the client writes it: data
\* misread for a header has a size that leads out of the heap.
PACK(size, alloc) == [size |-> size, alloc |-> alloc]

Data(c) == [size |-> 0 - 8 * MaxHeap - c, alloc |-> 1]

SizeOf(h, bp) == h.mem[bp - WSIZE].size

IsFree(h, bp) == h.mem[bp - WSIZE].alloc = 0

NEXT_BLKP(h, bp) == bp + SizeOf(h, bp)

PREV_BLKP(h, bp) == bp - h.mem[bp - DSIZE].size

FTRP(h, bp) == bp + SizeOf(h, bp) - DSIZE

\* PUT of the header, then of the footer that the new header leads to.
PutBlock(h, bp, size, alloc) ==
    [h EXCEPT !.mem[bp - WSIZE] = PACK(size, alloc),
              !.mem[bp + size - DSIZE] = PACK(size, alloc)]

\* Only the next-fit file has search_ptr.
SetSearch(h, bp) == IF policy = "next" THEN [h EXCEPT !.search_ptr = bp] ELSE h

\* The start and the size of bp's block merged with its free neighbours, which
\* are told by the footer before it and the header after it.
Merged(h, bp) ==
    LET prev == PREV_BLKP(h, bp)
        next == NEXT_BLKP(h, bp)
        prev_alloc == h.mem[FTRP(h, prev)].alloc = 1
        next_alloc == ~IsFree(h, next)
        prev_size == IF prev_alloc THEN 0 ELSE SizeOf(h, prev)
        next_size == IF next_alloc THEN 0
                     ELSE IF prev_alloc THEN SizeOf(h, next) ELSE h.mem[FTRP(h, next)].size
    IN  [start |-> IF prev_alloc THEN bp ELSE prev,
         size  |-> SizeOf(h, bp) + prev_size + next_size]

\* Mutant: search_ptr stays where it was.
coalesceKeepsSearch(h, bp) ==
    LET m == Merged(h, bp)
    IN  [heap |-> PutBlock(h, m.start, m.size, 0), bp |-> m.start]

\* With both neighbours allocated the code writes nothing: bp's tags are right.
coalesce(h, bp) ==
    LET m == Merged(h, bp)
    IN  [heap |-> SetSearch(PutBlock(h, m.start, m.size, 0), m.start), bp |-> m.start]

Failed(h) == [heap |-> h, bp |-> NULL]

\* mem_sbrk(size) takes an int and refuses a negative one.
CanGrow(h, size) == size < WORD \div 2 /\ h.brk + size <= MaxHeap

\* The heap with size more bytes: one free block and a new epilogue.
WithChunk(h, size) ==
    LET bp == h.brk
        fresh == {bp + WSIZE * i : i \in 0..(size \div WSIZE - 1)}
        grown == [h EXCEPT !.brk = bp + size,
                           !.mem = [a \in DOMAIN h.mem \cup fresh |->
                                        IF a \in fresh THEN Data(0) ELSE h.mem[a]]]
    IN  [PutBlock(grown, bp, size, 0) EXCEPT !.mem[bp + size - WSIZE] = PACK(0, 1)]

extend_heap(h, words) ==
    LET size == ((IF words % 2 = 1 THEN words + 1 ELSE words) * WSIZE) % WORD
    IN  IF CanGrow(h, size) THEN coalesce(WithChunk(h, size), h.brk) ELSE Failed(h)

\* A walk from block to block ends at the epilogue.  (That it never leaves the
\* heap before is part of BlocksTileHeap.)
EndsAt(h, bp) == bp - WSIZE \notin DOMAIN h.mem \/ SizeOf(h, bp) = 0

\* The loop of find_fit from start to the epilogue or beyond limit.
Scan(h, start, limit, asize) ==
    LET scan[bp \in Int] ==
            IF EndsAt(h, bp) \/ bp > limit THEN NULL
            ELSE IF IsFree(h, bp) /\ asize <= SizeOf(h, bp) THEN bp
            ELSE scan[NEXT_BLKP(h, bp)]
    IN  scan[start]

heap_listp == 2 * WSIZE

\* Mutant: the next fit does not start over from the front.
find_fitAhead(h, asize) ==
    IF policy = "first" THEN Scan(h, heap_listp, h.brk, asize)
    ELSE Scan(h, NEXT_BLKP(h, h.search_ptr), h.brk, asize)

find_fit(h, asize) ==
    LET ahead == Scan(h, NEXT_BLKP(h, h.search_ptr), h.brk, asize)
    IN  IF policy = "first" THEN Scan(h, heap_listp, h.brk, asize)
        ELSE IF ahead # NULL THEN ahead
        ELSE Scan(h, NEXT_BLKP(h, heap_listp), h.search_ptr, asize)

\* Mutant: the footer of the rest keeps its old size.
placeOldFooter(h, bp, asize) ==
    LET csize == SizeOf(h, bp)
    IN  IF csize - asize >= 2 * DSIZE
        THEN [PutBlock(h, bp, asize, 1) EXCEPT
                 !.mem[bp + asize - WSIZE] = PACK(csize - asize, 0)]
        ELSE PutBlock(h, bp, csize, 1)

\* The block cut in two: asize bytes allocated, the rest a free block.
Split(h, bp, asize) ==
    PutBlock(PutBlock(h, bp, asize, 1), bp + asize, SizeOf(h, bp) - asize, 0)

\* (place leaves search_ptr at the rest; mm_malloc then sets it to bp.)
place(h, bp, asize) ==
    IF SizeOf(h, bp) - asize >= 2 * DSIZE
    THEN Split(h, bp, asize)
    ELSE PutBlock(h, bp, SizeOf(h, bp), 1)

\* Mutant: not rounded up to the alignment.
AdjustedSizeUnrounded(size) == IF size <= DSIZE THEN 2 * DSIZE ELSE (size + DSIZE) % WORD

\* The size of a block for a request, in the arithmetic of size_t.
AdjustedSize(size) ==
    IF size <= DSIZE THEN 2 * DSIZE
    ELSE DSIZE * (((size + DSIZE + (DSIZE - 1)) % WORD) \div DSIZE)

mm_malloc(h, size) ==
    LET asize == AdjustedSize(size)
        fit == find_fit(h, asize)
        grown == extend_heap(h, (IF asize > CHUNKSIZE THEN asize ELSE CHUNKSIZE) \div WSIZE)
        Placed(g, bp) == [heap |-> SetSearch(place(g, bp, asize), bp), bp |-> bp]
    IN  IF size = 0 THEN Failed(h)
        ELSE IF fit # NULL THEN Placed(h, fit)
        ELSE IF grown.bp = NULL THEN Failed(h)
        ELSE Placed(grown.heap, grown.bp)

\* Mutant: mm_free does not coalesce.
mm_freeAlone(h, bp) == PutBlock(h, bp, SizeOf(h, bp), 0)

mm_free(h, bp) == coalesce(PutBlock(h, bp, SizeOf(h, bp), 0), bp).heap

\* memcpy: copySize is at most the new size and at most the whole old block.
Copied(h, from, to, size) ==
    LET copySize == IF size < SizeOf(h, from) THEN size ELSE SizeOf(h, from)
    IN  [h EXCEPT !.mem = [a \in DOMAIN h.mem |->
            IF a \in to..(to + copySize - 1) THEN h.mem[from + (a - to)] ELSE h.mem[a]]]

----------------------------------------------------------------------------
\* mm_init on an empty heap: padding, prologue, epilogue and a first chunk.
InitialHeap ==
    LET empty == [mem |-> [a \in {0, 4, 8, 12} |->
                              CASE a = 0 -> PACK(0, 0)
                                [] a \in {4, 8} -> PACK(DSIZE, 1)
                                [] a = 12 -> PACK(0, 1)],
                  brk |-> 4 * WSIZE, search_ptr |-> heap_listp]
    IN  SetSearch(extend_heap(empty, CHUNKSIZE \div WSIZE).heap, heap_listp)

Init ==
    /\ policy \in Policies
    /\ heap = InitialHeap
    /\ live = <<>>
    /\ leaked = {}

\* The starts of the blocks that a walk over the heap meets.
Blocks(h) ==
    LET walk[bp \in Int] ==
            IF EndsAt(h, bp) THEN {} ELSE {bp} \cup walk[NEXT_BLKP(h, bp)]
    IN  walk[heap_listp]

\* Words of the client's region that a write of its size bytes touches.
RegionWords(bp, size) == {bp + WSIZE * i : i \in 0..((size + 3) \div 4 - 1)}

Written(h, bp, size, c) ==
    IF c = 0 THEN h ELSE [h EXCEPT !.mem = [a \in DOMAIN h.mem |->
                          IF a \in RegionWords(bp, size) THEN Data(c) ELSE h.mem[a]]]

\* Data abstraction: a word that is no header or footer and holds nothing the
\* client knows keeps its old value in the program; here it is forgotten.  A
\* routine that took it for a header would be led out of the heap.
Junk == Data(0)

Forgotten(h, regions) ==
    LET tags == UNION {{bp - WSIZE, FTRP(h, bp)} : bp \in Blocks(h)}
        known == UNION {RegionWords(bp, regions[bp].known) : bp \in DOMAIN regions}
        kept == tags \cup known \cup {0, h.brk - WSIZE}
    IN  [h EXCEPT !.mem = [a \in DOMAIN h.mem |-> IF a \in kept THEN h.mem[a] ELSE Junk]]

Without(bp) == [q \in DOMAIN live \ {bp} |-> live[q]]

With(regions, bp, region) ==
    [q \in DOMAIN regions \cup {bp} |-> IF q = bp THEN region ELSE regions[q]]

\* The client calls mm_malloc and writes into what it gets.
Malloc(size) ==
    LET r == mm_malloc(heap, size)
    IN  IF r.bp = NULL
        THEN heap' = r.heap /\ UNCHANGED <<policy, live, leaked>>
        ELSE \E c \in Clients :
                /\ live' = With(live, r.bp, [size |-> size, known |-> IF c = 0 THEN 0 ELSE size])
                /\ heap' = Forgotten(Written(r.heap, r.bp, size, c), live')
                /\ UNCHANGED <<policy, leaked>>

Free(bp) ==
    /\ live' = Without(bp)
    /\ heap' = Forgotten(mm_free(heap, bp), live')
    /\ UNCHANGED <<policy, leaked>>

Lesser(m, n) == IF m < n THEN m ELSE n

\* Mutant: the old block is freed before the new one is found.
ReallocFreesFirst(bp, size) ==
    LET r == mm_malloc(mm_free(heap, bp), size)
        done == Copied(r.heap, bp, r.bp, size)
    IN  IF r.bp = NULL
        THEN heap' = r.heap /\ UNCHANGED <<policy, live, leaked>>
        ELSE /\ live' = With(Without(bp), r.bp,
                             [size |-> size, known |-> Lesser(live[bp].known, size)])
             /\ heap' = Forgotten(done, live')
             /\ UNCHANGED <<policy, leaked>>

\* Mutant: the old block is not freed.
ReallocKeepsOld(bp, size) ==
    LET r == mm_malloc(heap, size)
    IN  IF r.bp = NULL
        THEN heap' = r.heap /\ UNCHANGED <<policy, live, leaked>>
        ELSE /\ live' = With(Without(bp), r.bp,
                             [size |-> size, known |-> Lesser(live[bp].known, size)])
             /\ heap' = Forgotten(Copied(r.heap, bp, r.bp, size), live')
             /\ UNCHANGED <<policy, leaked>>

\* mm_realloc of a region to a size above 0.  (Of the null pointer, the next-fit
\* file makes it Malloc; mm_textbook.c has that test commented out and must not
\* be called so.)  The next-fit file then sets
\* search_bp, a variable it does not declare: search_ptr if it is what is
\* meant, nothing if the line is dropped to make the file compile.
Realloc(bp, size) ==
    LET r == mm_malloc(heap, size)
        done == mm_free(Copied(r.heap, bp, r.bp, size), bp)
    IN  IF r.bp = NULL
        THEN heap' = r.heap /\ UNCHANGED <<policy, live, leaked>>
        ELSE /\ live' = With(Without(bp), r.bp,
                             [size |-> size, known |-> Lesser(live[bp].known, size)])
             /\ heap' \in {Forgotten(h, live') : h \in {done, SetSearch(done, r.bp)}}
             /\ UNCHANGED <<policy, leaked>>

\* mm_realloc to size 0: the next-fit file frees the block, mm_textbook.c has
\* that test commented out and returns with nothing done.  For the client the
\* region is gone either way, as after mm_free.
ReallocZero(bp) ==
    /\ live' = Without(bp)
    /\ IF policy = "next"
       THEN heap' = Forgotten(mm_free(heap, bp), live') /\ UNCHANGED leaked
       ELSE heap' = Forgotten(heap, live') /\ leaked' = leaked \cup {bp}
    /\ UNCHANGED policy

Next ==
    \/ \E size \in Sizes : Malloc(size)
    \/ \E bp \in DOMAIN live :
         \/ Free(bp)
         \/ \E size \in Sizes \ {0} : Realloc(bp, size)
         \/ ReallocZero(bp)

Spec == Init /\ [][Next]_vars

----------------------------------------------------------------------------
\* Properties

\* The words of the heap are those below brk, search_ptr stays inside, and the
\* pointers that mm_malloc has returned are aligned.
TypeOK ==
    /\ policy \in Policies
    /\ heap.brk \in 0..MaxHeap
    /\ DOMAIN heap.mem = {WSIZE * i : i \in 0..(heap.brk \div WSIZE - 1)}
    /\ heap.search_ptr \in 0..heap.brk
    /\ \A bp \in DOMAIN live : bp % DSIZE = 0 /\ live[bp].known <= live[bp].size

\* The blocks tile the heap: their sizes lead from the prologue to the epilogue
\* at its end, and every footer repeats its header.
BlocksTileHeap ==
    LET last == Sets!Max(Blocks(heap))
    IN  /\ NEXT_BLKP(heap, last) = heap.brk
        /\ ~IsFree(heap, heap.brk)
        /\ \A bp \in Blocks(heap) : heap.mem[FTRP(heap, bp)] = heap.mem[bp - WSIZE]

\* No two free blocks touch: coalescing has missed no case.
FreeBlocksCoalesced ==
    \A bp \in Blocks(heap) :
        IsFree(heap, bp) /\ NEXT_BLKP(heap, bp) # heap.brk => ~IsFree(heap, NEXT_BLKP(heap, bp))

\* Every allocated block is a region of the client or one that mm_realloc(p, 0) of
\* mm_textbook.c has leaked, never both: nothing else is lost, and nothing that is
\* lost is handed out.  Each region has room for what was asked and its tags.
LiveIsAllocated ==
    /\ {bp \in Blocks(heap) \ {heap_listp} : ~IsFree(heap, bp)} = DOMAIN live \cup leaked
    /\ DOMAIN live \cap leaked = {}
    /\ \A bp \in DOMAIN live : live[bp].size + DSIZE <= SizeOf(heap, bp)

\* search_ptr is the start of a block, whatever was merged or split since.
SearchStartsAtBlock == heap.search_ptr \in Blocks(heap)

\* The heap grows, for mm_malloc or for mm_realloc, only when no free block is
\* large enough: both searches look at every block.
GrowsOnlyWhenFull ==
    [][\A size \in Sizes :
          /\ Malloc(size) \/ \E old \in DOMAIN live : Realloc(old, size)
          /\ heap'.brk # heap.brk
          => \A bp \in Blocks(heap) : IsFree(heap, bp) => SizeOf(heap, bp) < AdjustedSize(size)]_vars

Abstract == INSTANCE Allocator WITH
    Contents <- {Data(c) : c \in Clients},
    top <- heap.brk,
    live <- [bp \in DOMAIN live |->
                [size |-> live[bp].size,
                 data |-> [w \in 0..((live[bp].known + 3) \div 4 - 1) |->
                              heap.mem[bp + WSIZE * w]]]]

\* The package keeps the promise of malloc, free and realloc.
ImplementsAllocator == Abstract!Spec
=============================================================================
