SPECIFICATION Spec
CONSTANTS
    Requests = {r1, r2}
    Default = Default
    New = New
    Old <- OneOld
    MaxHistory = 3
    BudgetMessages = 2
    Calls <- ReadDefault
    MaxActive = 2
    MaxUploads = 0
    MaxStarts = 2
    MaxFaults = 1
    None = None
INVARIANT MigratedOnce
CHECK_DEADLOCK FALSE
