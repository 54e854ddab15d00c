SPECIFICATION TrapSpec
CONSTANTS
    Threads <- MCThreads
    Users <- MCUsers
    Skewed <- MCSkewed
    ExtInts <- MCExtInts
    Faults <- MCFaults
    SoftInts <- MCSoftInts
    DEPTH = 34
INVARIANTS RegistersKept FrameHoldsCaller StackReturns SelectorsFit
PROPERTY WordAboveOnlyAtStart
