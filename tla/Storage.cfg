SPECIFICATION StorageSpec
CONSTANTS
    t1 = t1
    t2 = t2
    w1 = w1
    w2 = w2
    c1 = c1
    c2 = c2
    SEP = 2
    WIDTH = 2
    Tuples <- MCTuples
    ReadAs <- MCReadAs
    TableKeys <- MCTableKeys
    ScanPrefixes <- MCScanPrefixes
    MaxTableWrites = 2
    DbTasks = {t1, t2}
    WriteLists <- MCWriteLists
    Watchings <- MCWatchings
    Waiters = {w1}
    CorkKinds = {"flush"}
    MaxLog = 3
    MaxCrashes = 1
    Devices <- MCDevices
    CoresPresent = {1, 2}
    PerCoreLimit = 2
    PoolWorkers = 2
    QueueMult = 1
    WorkerMost = 4
    QueueMost = 2
    Callers = {c1, c2}
    MaxCalls = 2
    InitCount = 1
    MaxId = 6
    Tasks = {t1, t2, t3}
    FrameSlots = {f1}
    MaxRequests = 4
    MaxStops = 1
    Pages <- MCPages
    Clients = {c1, c2}
    CheckRoot = TRUE
    MediaAgent = TRUE
    MaxFetches = 3
    MaxPreviewStops = 1
CHECK_DEADLOCK FALSE
INVARIANTS
    RowsReadBack
    WritesSound
    PromisedIsDurable
    NothingInFlightIsVisible
    MediaSound
    RecordedIsStored

    
