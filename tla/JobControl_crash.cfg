SPECIFICATION Spec
CONSTANTS
    j1 = j1
    j2 = j2
    w1 = w1
    w2 = w2
    t1 = t1
    t2 = t2
    None = None
    Jobs = {j1, j2}
    Workers = {w1, w2}
    Targets = {t1, t2}
    TargetOf <- TwoTargets
    KindOf <- GpuAndCpu
    PreferGpu = TRUE
    Linked = {}
    Slots = 1
    QueueLimit = 2
    ScanDepth = 4
    MaxRetries = 1
    MaxCrashes = 1
    MayStall = FALSE
    LongOutage = TRUE
SYMMETRY JobSymmetry
INVARIANTS
    TypeOK
    NoJobLost
    ProcessingIsOwned
CHECK_DEADLOCK FALSE
