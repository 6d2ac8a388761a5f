SPECIFICATION Spec
CONSTANTS
    n1 = n1
    n2 = n2
    n3 = n3
    n4 = n4
    t1 = t1
    t2 = t2
    NoText = NoText
    Names <- TwoNames
    Texts <- OneText
    SLOTS = 2
    CLUSTERS = 6
    PER_SECTOR = 6
    OldFat <- Former
    DEVICE_LOST = FALSE
    DISK_ERRORS = FALSE
    MAX_FAULTS = 0
PROPERTIES
    FormatFreesAll
