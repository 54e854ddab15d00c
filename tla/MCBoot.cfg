SPECIFICATION BootSpec
CONSTANTS
    PAGE_SIZE = 4
    PMM_MAX_PAGES = 5
    Regions <- MCRegions
    Addresses <- MCAddresses
    Infos <- MCInfos
    DEFAULT_BASE = 4
    DEFAULT_SIZE = 12
    KERNEL_END = 8
    FALLBACK_SIZE = 8
INVARIANTS
    PmmTypeOK
    FreeCountExact
    PoolAboveKernel
    PoolIsAvailable
PROPERTIES
    ImplementsPageAllocator
    NextFitOrder
