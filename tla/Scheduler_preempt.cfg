SPECIFICATION FairSpec
CONSTANTS
    THREAD_MAX = 3
    Entries <- Hogging
CHECK_DEADLOCK FALSE
PROPERTIES
    TimerPreempts
