SPECIFICATION Spec
CONSTANTS
    f = f
    g = g
    h = h
    long = long
    longer = longer
    module0 = module0
    module1 = module1
    module2 = module2
    initrd = initrd
    x = x
    y = y
    Names <- MCNames
    LongNames <- MCLong
    InitrdName = initrd
    Words <- MCWords
    PathNames <- MCPathNames
    First23 <- MC23
    First31 <- MC31
    CHUNK = 2
    INITRD_MAX_FILES = 2
    ModuleNames <- MCDefault
    Boots <- MCBoots
    Paths <- MCPaths
    RAMFS_MAX_NODES = 4
    RAMFS_MAX_CONTENT = 4
SYMMETRY Swap
INVARIANTS
    FilesAreReached
