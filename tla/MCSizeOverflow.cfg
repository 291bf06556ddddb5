SPECIFICATION Spec
CONSTANTS
    Sizes = {8, 249}
    Clients = {0}
    CHUNKSIZE = 32
    MaxHeap = 88
    WORD = 256
    Policies = {"first", "next"}
INVARIANT
    LiveIsAllocated
