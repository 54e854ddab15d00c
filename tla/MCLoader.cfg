SPECIFICATION LoaderSpec
CONSTANTS
    ENTRIES = 4
    POOL = 4
    BASE = 12
    TOTAL = 23
    KHEAP_START = 8
    KHEAP_PAGES = 2
    Ram <- CleanRam
    Virt <- MCVirt
    Target <- MCTarget
    Watched <- MCWatched
    MAX_DIRS = 1
    None = None
    PAGE_SIZE = 4
    WORD = 1024
    Programs <- MCPrograms
    NotFound = NotFound
    Text <- Empty
    Garbage <- MCGarbage
    KERNEL_BASE = 192
INVARIANTS
    VmmTypeOK
    FramesAccounted
PROPERTIES
    ImplementsAddressSpace
