SPECIFICATION RRSpec
CONSTANTS
    PROC_MAX = 4
    SLICE = 3
    PIT_HZ = 100
    WORD <- MCWord
    SleepMs <- MCSleepMs
INVARIANTS
    TypeOK
    CurrentRunning
    TimerOnlyInIdle
    IdleInterruptible
    UserTrapsOnOwnStack
    BoundedBypass
PROPERTIES
    ExitIsFinal
