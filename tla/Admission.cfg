SPECIFICATION Spec
CONSTANTS
    Submissions <- Mixed
    Requests = {r1, r2}
    Models = {"small", "big"}
    SizeMb <- SmallAndBig
    CpuTargets = {2}
    GpuTargets = {1}
    Cpus = 12
    TotalMb = 32768
    FreeMb = {4300, 13312}
    ScanDepth = 2
    MinDepth = 1
    QueueFactor = 0
    WorkerWeight = 0
    MaxRetries = 1
    MaxChanges = 1
    None = None
INVARIANTS
    
    TokensWithinCapacity
    SharesProtected
    QueueBound
    PassMakesProgress
CHECK_DEADLOCK FALSE
