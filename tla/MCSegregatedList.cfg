SPECIFICATION Spec
CONSTANTS
    Sizes = {0, 8, 24, 28, 56, 320, 500, 508}
    Clients = {1, 2}
    CHUNKSIZE = 32
    LISTLIMIT = 7
    MaxHeap = 160
    WORD = 512
\* A client that has been misled stops.
CHECK_DEADLOCK FALSE
INVARIANTS
    TypeOK
    FreeListsExact
    FreeBlocksCoalesced
    LiveIsAllocated
PROPERTIES
    GrowsOnlyWhenNoFit
    KeepsPromise
    MisleadsExactlyWhen
