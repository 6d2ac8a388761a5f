SPECIFICATION Spec
CONSTANTS
    n1 = n1
    n2 = n2
    n3 = n3
    n4 = n4
    t1 = t1
    t2 = t2
    NoText = NoText
    Names <- FourNames
    Texts <- TwoTexts
    SLOTS = 3
    CLUSTERS = 6
    PER_SECTOR = 6
    OldFat <- Former
    DEVICE_LOST = TRUE
    DISK_ERRORS = TRUE
    MAX_FAULTS = 2
SYMMETRY Swap
INVARIANTS
    TypeOK
    RootSafe
    NothingHidden
    DamageBounded
    CopiesAgree
PROPERTIES
    ImplementsFileStore
