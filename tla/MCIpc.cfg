SPECIFICATION IpcSpec
CONSTANTS
    PROC_MAX = 3
    SLICE = 1
    PIT_HZ = 100
    WORD <- MCWord
    SleepMs <- MCSleepMs
    IPC_POOL_SIZE = 2
    Payload = {a}
    NoData = NoData
INVARIANTS
    IpcTypeOK
    PoolAccounting
    QueueWellFormed
    NoLostWakeup
PROPERTIES
    QueuedAsSent
    ImplementsMailbox
