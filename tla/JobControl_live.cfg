SPECIFICATION FairSpec
CONSTANTS
    j1 = j1
    j2 = j2
    w1 = w1
    w2 = w2
    t1 = t1
    t2 = t2
    None = None
    Jobs = {j1, j2}
    Workers = {w1}
    Targets = {t1}
    TargetOf <- OneTarget
    KindOf <- AllCpu
    PreferGpu = FALSE
    Linked = {}
    Slots = 1
    QueueLimit = 2
    ScanDepth = 4
    MaxRetries = 1
    MaxCrashes = 1
    MayStall = FALSE
    LongOutage = FALSE
PROPERTIES
    Settles
CHECK_DEADLOCK FALSE
