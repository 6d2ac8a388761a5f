SPECIFICATION Spec
CONSTANTS
    Machines <- AllMachines
    SECTOR_NUMBERS = 3
    CYLINDER_NUMBERS = 2
    HEAD_NUMBERS = 2
    UINT = 24
    Written <- MCWritten
    MAX_ERRORS = 1
    BLOCKDEV_MAX = 8
    MAX_COUNT = 2
PROPERTIES
    ReadsRequested
CHECK_DEADLOCK FALSE
