SPECIFICATION Spec
CONSTANTS
    FRAME_SIZE = 2
    GIB4 = 24
    MAX_PHYS_ADDR = 16
    LOW_TOP = 2
    Kernel <- MCKernel
    KHEAP_BASE = 12
    KHEAP_PAGES = 2
    Machines <- MCMachines
INVARIANTS
    TypeOK
    StatsExact
    FramesUsable
    IdentityKept
CHECK_DEADLOCK FALSE
