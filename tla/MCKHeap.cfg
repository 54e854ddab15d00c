SPECIFICATION HeapSpec
CONSTANTS
    KHEAP_START = 16
    KHEAP_SIZE = 28
    HEADER = 3
    ALIGN = 2
    WORD = 128
    Requests <- MCRequests
INVARIANTS
    HeapTypeOK
    HeldMemoryIsPrivate
    UsedIsHeld
