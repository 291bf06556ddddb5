SPECIFICATION Spec
CONSTANTS
    Sizes = {0, 8, 12, 28}
    Clients = {1, 2}
    CHUNKSIZE = 32
    MaxHeap = 96
    WORD = 256
    Policies = {"first", "next"}
INVARIANTS
    TypeOK
    BlocksTileHeap
    FreeBlocksCoalesced
    LiveIsAllocated
    SearchStartsAtBlock
PROPERTIES
    GrowsOnlyWhenFull
    ImplementsAllocator
