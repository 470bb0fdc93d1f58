SPECIFICATION Spec
CONSTANTS
    j1 = j1
    j2 = j2
    w1 = w1
    w2 = w2
    t1 = t1
    t2 = t2
    None = None
    Jobs = {j1}
    Workers = {w1, w2}
    Targets = {t1, t2}
    TargetOf <- TwoTargets
    KindOf <- GpuAndCpu
    PreferGpu = TRUE
    Linked = {j1}
    Slots = 1
    QueueLimit = 2
    ScanDepth = 4
    MaxRetries = 1
    MaxCrashes = 2
    MayStall = TRUE
    LongOutage = TRUE
INVARIANTS
    BoundedReplay
    
    RunsAreCounted
CHECK_DEADLOCK FALSE
