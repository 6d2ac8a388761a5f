\* Workers that yield; every interleaving with timer and keyboard, four threads.
SPECIFICATION FairSpec
CONSTANTS
    THREAD_MAX = 4
    Entries <- Yielding
INVARIANTS
    TypeOK
    InterruptsOnlyInMain
    ContextIntegrity
    OneRunning
    NeverPanics
    ServiceMatchesHandler
PROPERTIES
    ZombiesStayDead
    ImplementsRoundRobin
    NobodyStarves
    InterruptsReopen
