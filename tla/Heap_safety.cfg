SPECIFICATION Spec
CONSTANTS
    o1 = o1
    o2 = o2
    o3 = o3
    FRAME_SIZE = 128
    KHEAP_BASE = 128
    MAX_PAGES = 4
    INITIAL_PAGES = 1
    TOTAL_FRAMES = 7
    BootBitmaps <- MCBitmaps
    Requests <- Sizes
    Owners <- MCOwners
SYMMETRY Swap
INVARIANTS
    TypeOK
    WellLinked
    Accounted
    FramesAccounted
    RetryFits
PROPERTIES
    FailsCleanly
    ImplementsAllocator
