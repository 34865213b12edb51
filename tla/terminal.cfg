CONSTANTS
    HighWater = 10
    LowWater = 4
    Window = 3
    Backlog = 13
SPECIFICATION FairSpec
INVARIANTS TypeOK OneConnection PendingExact NoStall
PROPERTIES OutputResumes
CHECK_DEADLOCK FALSE
