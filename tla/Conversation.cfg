SPECIFICATION Spec
CONSTANTS
    Requests = {r1, r2}
    Default = Default
    New = New
    Old <- OneOld
    MaxHistory = 3
    BudgetMessages = 2
    Calls <- AllCalls
    MaxActive = 2
    MaxUploads = 1
    MaxStarts = 2
    MaxFaults = 1
    None = None
SYMMETRY RequestSymmetry
INVARIANTS
    MirrorParity
    ListShowsAll
    RestoreLeavesNoTrace
PROPERTY ServesTheLog
CHECK_DEADLOCK FALSE
