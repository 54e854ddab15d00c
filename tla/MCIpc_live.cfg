SPECIFICATION IpcFairSpec
CONSTANTS
    PROC_MAX = 3
    SLICE = 2
    PIT_HZ = 100
    WORD <- MCWord
    SleepMs <- MCLiveSleepMs
    IPC_POOL_SIZE = 1
    Payload = {a}
    NoData = NoData
PROPERTIES
    ReadyRuns
    SleepEnds
    RecvReturns
