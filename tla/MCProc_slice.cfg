SPECIFICATION TimerSpec
CONSTANTS
    PROC_MAX = 3
    SLICE = 2
    PIT_HZ = 100
    WORD <- MCWord
    SleepMs <- MCSleepMs
PROPERTIES
    TimesliceEnds
